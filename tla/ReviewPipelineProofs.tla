------------------------- MODULE ReviewPipelineProofs -------------------------
(***************************************************************************)
(* What is proved of a review on its way to GitHub: of the verdict it ends *)
(* with and of the inline comments it posts. The two share no state.       *)
(***************************************************************************)
EXTENDS ReviewVerdict, ReviewComments, NumberFacts, SequenceTheorems

(***************************************************************************)
(* What blocks a review, for every text, every setting and every history   *)
(* of a pull request.  Each argument has the same two halves: the finding  *)
(* survives the way from the text to the object whose verdict is           *)
(* calculated, and what asks for changes there is not undone by the gate   *)
(* and the guardrail behind it.                                            *)
(***************************************************************************)

\* An object between normalization and rendering has these fields.
IsObject(o) ==
    o = [sync |-> o.sync, verdict |-> o.verdict, crit |-> o.crit, minor |-> o.minor,
         risks |-> o.risks, res |-> o.res, status |-> o.status, other |-> o.other,
         doubts |-> o.doubts]

\* What makes calculate_sync_verdict ask for changes, the named verdict aside.
Blocking(o) ==
    o.crit # {} \/ o.status = "FAIL" \/ \E r \in o.res : UnresolvedCritical(r)

Outcome(o, body, caller, s) == Guarded(Gated(Calculated(o), s), o, body, caller)

VerdictInv ==
    /\ earlier \subseteq PostedReview
    /\ FailBlocks /\ NeverUpgraded /\ CriticalBlocks /\ StandingCriticalBlocks /\ UnprovenFixBlocks

-----------------------------------------------------------------------------
(* From the text to the object                                             *)

\* Whatever is taken from a text has the fields of an object of its schema.
LEMMA ChosenTyped ==
    ASSUME NEW body \in ReviewBody, NEW p \in Chosen(body)
    PROVE  p \in Payload
<1>1. ASSUME NEW b \in [form : STRING, data : Payload] PROVE Decoded(b) \in Payload
  <2>1. b.data \in Payload
    OBVIOUS
  <2>2. CASE Decoded(b) = b.data
    BY <2>1, <2>2
  <2>3. CASE Decoded(b) = [b.data EXCEPT !.summary = FALSE, !.verdict = "none", !.res = {}, !.listed = TRUE]
    <3> DEFINE d == b.data
    <3>1. Decoded(b) = [d EXCEPT !.summary = FALSE, !.verdict = "none", !.res = {}, !.listed = TRUE]
      BY <2>3
    <3> HIDE DEF d
    <3> QED
      BY <2>1, <3>1 DEF Payload, d
  <2> QED
    BY <2>2, <2>3 DEF Decoded
<1>2. ASSUME NEW q \in Extracted(body) PROVE q \in Payload
  <2>1. PICK i \in FirstOf(body.blocks, Decodes) : q = Decoded(body.blocks[i])
    BY <1>2 DEF Extracted
  <2>2. i \in 1..Len(body.blocks)
    BY <2>1 DEF FirstOf
  <2> DEFINE Blocks == [form : STRING, data : Payload]
  <2>3. body.blocks \in Seq(Blocks)
    BY DEF ReviewBody
  <2> HIDE DEF Blocks
  <2>4. body.blocks[i] \in Blocks
    BY <2>2, <2>3
  <2> QED
    BY <1>1, <2>1, <2>4 DEF Blocks
<1>3. TextObject(body) \in Payload
  <2>1. body.text \in Payload
    BY DEF ReviewBody
  <2> QED
    BY <2>1 DEF TextObject, Payload
<1> QED
  BY <1>2, <1>3 DEF Chosen

\* The intent of the text or the caller changes the verdict alone.
LEMMA IntentKeepsFindings ==
    ASSUME NEW p \in Payload, NEW body \in ReviewBody, NEW caller
    PROVE  /\ WithIntent(p, body, caller) \in Payload
           /\ WithIntent(p, body, caller).crit = p.crit
           /\ WithIntent(p, body, caller).res = p.res
           /\ WithIntent(p, body, caller).listed = p.listed
<1> DEFINE v == IF IntendedRequestChanges(body, caller) THEN "REQUEST_CHANGES"
                ELSE IF body.heading = "COMMENT" THEN "COMMENT" ELSE "none"
<1>1. CASE WithIntent(p, body, caller) = p
  BY <1>1
<1>2. CASE WithIntent(p, body, caller) = [p EXCEPT !.verdict = v]
  <2>1. v \in Verdicts \cup {"none", "unknown"}
    BY DEF Verdicts
  <2> HIDE DEF v
  <2> QED
    BY <1>2, <2>1 DEF Payload
<1> QED
  BY <1>1, <1>2 DEF WithIntent

\* The candidates only fill an object that lists nothing.
LEMMA CandidatesKeepFindings ==
    ASSUME NEW p \in Payload
    PROVE  /\ WithCandidates(p) \in Payload \/ ~p.listed
           /\ WithCandidates(p).crit \subseteq IssueItem
           /\ WithCandidates(p).minor \subseteq IssueItem
           /\ WithCandidates(p).found = p.found
           /\ WithCandidates(p).risks = p.risks
           /\ WithCandidates(p).res = p.res
           /\ p.crit # {} => WithCandidates(p).crit = p.crit
<1>1. CASE p.listed \/ p.cands = {}
  BY <1>1 DEF WithCandidates, Payload
<1>2. CASE ~(p.listed \/ p.cands = {})
  <2> DEFINE high == {d \in Survivors(p.cands) : d.severity \in {"CRITICAL", "HIGH"}}
             low == {d \in Survivors(p.cands) : d.severity \notin {"CRITICAL", "HIGH"}}
             crit == {[item |-> c.item, trait |-> "sound"] : c \in high}
             minor == {[item |-> c.item, trait |-> "sound"] : c \in low}
  <2>1. \A c \in Survivors(p.cands) : c.item \in Items
    BY DEF Survivors, Payload
  <2>2. crit \subseteq IssueItem /\ minor \subseteq IssueItem
    BY <2>1 DEF IssueItem, Traits
  <2>3. WithCandidates(p) = [p EXCEPT !.crit = crit, !.minor = minor]
    BY <1>2 DEF WithCandidates
  <2> HIDE DEF crit, minor
  <2>4. p.crit = {}
    BY <1>2 DEF Payload
  <2> QED
    BY <1>2, <2>2, <2>3, <2>4 DEF Payload
<1> QED
  BY <1>1, <1>2

\* Normalization keeps every issue that is neither void nor costly.
LEMMA NormIssuesTyped ==
    ASSUME NEW issues \in SUBSET IssueItem
    PROVE  /\ NormIssues(issues) \subseteq IssueItem
           /\ \A i \in issues : i.trait \in {"sound", "echo"} => i \in NormIssues(issues)
<1>1. \A i \in IssueItem : NormIssue(i) \in IssueItem
  BY DEF NormIssue, IssueItem, Traits
<1> QED
  BY <1>1 DEF NormIssues, NormIssue, Cheap

LEMMA NormalizedIs ==
    ASSUME NEW p \in Payload, NEW body \in ReviewBody, NEW caller, NEW mode,
           NEW o, o = Prepared(p, body, caller, mode)
    PROVE  /\ IsObject(o)
           /\ o.crit \subseteq IssueItem /\ o.minor \subseteq IssueItem
           /\ o.risks \subseteq Items
           /\ \A i \in p.crit : i.trait \in {"sound", "echo"} => i \in o.crit
           /\ mode = "sync" => o.res = NormResolutions(p.res)
<1> DEFINE q == WithIntent(p, body, caller)
           w == WithCandidates(q)
<1>1. q \in Payload /\ q.crit = p.crit /\ q.res = p.res
  BY IntentKeepsFindings
<1> HIDE DEF q
<1>2. /\ w.crit \subseteq IssueItem /\ w.minor \subseteq IssueItem
      /\ w.found = q.found /\ w.risks = q.risks /\ w.res = q.res
      /\ q.crit # {} => w.crit = q.crit
  BY <1>1, CandidatesKeepFindings
<1>3. o = Normalized(w, mode)
  BY DEF Prepared, q
<1> HIDE DEF w
<1>4. IsObject(o)
  BY <1>3 DEF IsObject, Normalized
<1>5. /\ o.crit = NormIssues(w.crit)
                    \cup (IF mode = "sync" THEN NewFindings(w, FALSE) ELSE PromotedRisks(w))
      /\ o.minor = NormIssues(w.minor) \cup (IF mode = "sync" THEN NewFindings(w, TRUE) ELSE {})
      /\ o.risks = IF mode = "sync" THEN {} ELSE {r.item : r \in w.risks}
      /\ o.res = IF mode = "sync" THEN NormResolutions(w.res) ELSE {}
  BY <1>3 DEF Normalized
<1>6. ASSUME NEW low \in BOOLEAN PROVE NewFindings(w, low) \subseteq IssueItem
  <2>1. \A f \in w.found : f.item \in Items
    BY <1>1, <1>2 DEF Payload
  <2> QED
    BY <2>1 DEF NewFindings, IssueItem, Traits
<1>7. PromotedRisks(w) \subseteq IssueItem /\ {r.item : r \in w.risks} \subseteq Items
  <2>1. \A r \in w.risks : r.item \in Items
    BY <1>1, <1>2 DEF Payload
  <2> QED
    BY <2>1 DEF PromotedRisks, IssueItem, Traits
<1>8. NormIssues(w.crit) \subseteq IssueItem /\ NormIssues(w.minor) \subseteq IssueItem
  BY <1>2, NormIssuesTyped
<1>9. \A i \in p.crit : i.trait \in {"sound", "echo"} => i \in o.crit
  BY <1>1, <1>2, <1>5, NormIssuesTyped
<1> QED
  BY <1>1, <1>2, <1>4, <1>5, <1>6, <1>7, <1>8, <1>9

\* What the floor, the critic and the checks of the resolutions leave.
LEMMA FinalizedIs ==
    ASSUME NEW o, IsObject(o), NEW s, NEW f, f = Finalized(o, s)
    PROVE  /\ IsObject(f)
           /\ f.status = Floor(o.status, Deterministic(s))
           /\ f.crit = {i \in o.crit : CriticKeeps(i)}
           /\ f.minor = {i \in o.minor : CriticKeeps(i)}
           /\ f.res = Resolutions(o, s)
           /\ f.risks = o.risks
<1> DEFINE status == Floor(o.status, Deterministic(s))
           crit == {i \in o.crit : CriticKeeps(i)}
           minor == {i \in o.minor : CriticKeeps(i)}
           res == Resolutions(o, s)
<1>1. f = [o EXCEPT !.status = status, !.crit = crit, !.minor = minor, !.res = res]
  BY DEF Finalized
<1> HIDE DEF status, crit, minor, res
<1>2. f = [sync |-> o.sync, verdict |-> o.verdict, crit |-> crit, minor |-> minor,
           risks |-> o.risks, res |-> res, status |-> status, other |-> o.other,
           doubts |-> o.doubts]
  BY <1>1 DEF IsObject
<1>3. IsObject(f)
  BY <1>2 DEF IsObject
<1> QED
  BY <1>2, <1>3 DEF status, crit, minor, res

-----------------------------------------------------------------------------
(* From the object to the verdict                                          *)

\* What blocks is not undone, neither by a named verdict nor by the gate nor by the
\* guardrail.
LEMMA BlockingBlocks ==
    ASSUME NEW o, Blocking(o), NEW body, NEW caller, NEW s
    PROVE  Outcome(o, body, caller, s) = "REQUEST_CHANGES"
<1>1. Calculated(o) = "REQUEST_CHANGES"
  BY DEF Blocking, Calculated
<1>2. Gated(Calculated(o), s) = "REQUEST_CHANGES"
  BY <1>1 DEF Gated
<1> QED
  BY <1>2 DEF Outcome, Guarded

LEMMA OutcomeTyped ==
    ASSUME NEW o, NEW body, NEW caller, NEW s
    PROVE  Outcome(o, body, caller, s) \in Verdicts
<1>1. Calculated(o) \in Verdicts
  BY DEF Calculated, Verdicts
<1>2. Gated(Calculated(o), s) \in Verdicts
  BY <1>1 DEF Gated, Verdicts
<1> QED
  BY <1>2 DEF Outcome, Guarded, Verdicts

\* A finding of an earlier review is remembered, whatever became of that review, while
\* its metadata or its text can be read.
LEMMA KnownMeansPrior ==
    ASSUME earlier \subseteq PostedReview, NEW item, KnownCritical(item), NEW s, s.listed
    PROVE  AnyPriorFindings(s)
<1>1. PICK r \in earlier : r.form # "stamp" /\ item \in r.crit
  BY DEF KnownCritical
<1>2. r.form \in {"whole", "text", "stamp"}
  BY DEF PostedReview
<1>3. item \in FindingsOf(r)
  BY <1>1, <1>2 DEF FindingsOf, LegacyFindings
<1> QED
  BY <1>1, <1>3 DEF AnyPriorFindings, HasActionable

\* A resolution with evidence comes through normalization with the status it claims.
LEMMA ResolutionKept ==
    ASSUME NEW p \in Payload, NEW r \in p.res, r.proof # "none",
           r.status \in {"RESOLVED", "UNRESOLVED"}
    PROVE  r \in NormResolutions(p.res)
<1>1. r \in [item : Items, status : STRING, category : STRING, proof : STRING]
  BY DEF Payload
<1>2. [r EXCEPT !.status = IF @ = "UNRESOLVED" THEN @ ELSE "RESOLVED"] = r
  BY <1>1
<1> QED
  BY <1>2 DEF NormResolutions

-----------------------------------------------------------------------------
(* A submission                                                            *)

LEMMA PostBlocks ==
    ASSUME earlier \subseteq PostedReview,
           NEW body \in ReviewBody, NEW caller, NEW mode, NEW s, NEW p \in Payload,
           Post(p, body, caller, mode, s)
    PROVE  /\ FailBlocks' /\ NeverUpgraded' /\ CriticalBlocks'
           /\ StandingCriticalBlocks' /\ UnprovenFixBlocks'
           /\ earlier' \subseteq PostedReview
<1> DEFINE o == Prepared(p, body, caller, mode)
           f == Finalized(o, s)
           verdict == Outcome(f, body, caller, s)
<1>1. /\ earlier' = earlier \cup {Rendered(WithoutEchoes(f, s), verdict, s.stamped)}
      /\ last' = Noted(p, body, caller, mode, s, verdict)
  BY DEF Post, Outcome
<1>2. /\ IsObject(o)
      /\ o.crit \subseteq IssueItem /\ o.minor \subseteq IssueItem /\ o.risks \subseteq Items
      /\ \A i \in p.crit : i.trait \in {"sound", "echo"} => i \in o.crit
      /\ mode = "sync" => o.res = NormResolutions(p.res)
  BY NormalizedIs
<1> HIDE DEF o
<1>3. /\ IsObject(f)
      /\ f.status = Floor(o.status, Deterministic(s))
      /\ f.crit = {i \in o.crit : CriticKeeps(i)}
      /\ f.minor = {i \in o.minor : CriticKeeps(i)}
      /\ f.res = Resolutions(o, s) /\ f.risks = o.risks
  BY <1>2, FinalizedIs
<1> HIDE DEF f
<1>4. verdict \in Verdicts
  BY OutcomeTyped
<1>5. Blocking(f) => verdict = "REQUEST_CHANGES"
  BY BlockingBlocks
<1>6. verdict = "APPROVE" => ~IntendedRequestChanges(body, caller)
  BY DEF Outcome, Guarded
<1> HIDE DEF verdict
<1>7. /\ last'.verdict = verdict /\ last'.det = s.det
      /\ last'.intended = IntendedRequestChanges(body, caller)
      /\ last'.grave = (\E i \in p.crit : i.trait \in {"sound", "echo"})
  BY <1>1 DEF Noted
<1>8. /\ last'.standing =>
            /\ mode = "sync" /\ s.listed
            /\ \E r \in p.res : UnresolvedCritical(r) /\ r.proof # "none" /\ KnownCritical(r.item)
      /\ last'.unproven =>
            /\ mode = "sync" /\ s.listed /\ s.diff # "none"
            /\ \E r \in p.res : /\ r.status = "RESOLVED" /\ r.category = "CRITICAL"
                                /\ r.proof = "absent" /\ KnownCritical(r.item)
  BY <1>1 DEF Noted
<1>9. FailBlocks'
  <2> SUFFICES ASSUME s.det = "FAIL" PROVE verdict = "REQUEST_CHANGES"
    BY <1>7 DEF FailBlocks
  <2>1. Deterministic(s) = "FAIL"
    BY DEF Deterministic
  <2>2. Floor(o.status, "FAIL") = "FAIL"
    BY DEF Floor
  <2> QED
    BY <1>3, <1>5, <2>1, <2>2 DEF Blocking
<1>10. NeverUpgraded'
  BY <1>6, <1>7 DEF NeverUpgraded
<1>11. CriticalBlocks'
  <2> SUFFICES ASSUME NEW i \in p.crit, i.trait \in {"sound", "echo"}
               PROVE  verdict = "REQUEST_CHANGES"
    BY <1>7 DEF CriticalBlocks
  <2>1. i \in f.crit
    BY <1>2, <1>3 DEF CriticKeeps
  <2> QED
    BY <1>5, <2>1 DEF Blocking
<1>12. StandingCriticalBlocks'
  <2> SUFFICES ASSUME last'.standing PROVE verdict = "REQUEST_CHANGES"
    BY <1>7 DEF StandingCriticalBlocks
  <2>1. PICK r \in p.res : UnresolvedCritical(r) /\ r.proof # "none" /\ KnownCritical(r.item)
    BY <1>8
  <2>2. mode = "sync" /\ AnyPriorFindings(s)
    BY <1>8, <2>1, KnownMeansPrior
  <2>3. r \in o.res
    BY <1>2, <2>1, <2>2, ResolutionKept DEF UnresolvedCritical
  <2>4. Verify(r) = r
    BY <2>1 DEF Verify, UnresolvedCritical
  <2>5. r \in f.res
    BY <1>3, <2>2, <2>3, <2>4 DEF Resolutions
  <2> QED
    BY <1>5, <2>1, <2>5 DEF Blocking
<1>13. UnprovenFixBlocks'
  <2> SUFFICES ASSUME last'.unproven PROVE verdict = "REQUEST_CHANGES"
    BY <1>7 DEF UnprovenFixBlocks
  <2>1. PICK r \in p.res : /\ r.status = "RESOLVED" /\ r.category = "CRITICAL"
                           /\ r.proof = "absent" /\ KnownCritical(r.item)
    BY <1>8
  <2>2. mode = "sync" /\ s.diff # "none" /\ AnyPriorFindings(s)
    BY <1>8, <2>1, KnownMeansPrior
  <2>3. r \in o.res
    BY <1>2, <2>1, <2>2, ResolutionKept
  <2>4. r \in [item : Items, status : STRING, category : STRING, proof : STRING]
    BY DEF Payload
  <2>5. UnresolvedCritical(Verify(r))
    BY <2>1, <2>4 DEF Verify, UnresolvedCritical
  <2>6. Verify(r) \in f.res
    BY <1>3, <2>2, <2>3 DEF Resolutions
  <2> QED
    BY <1>5, <2>5, <2>6 DEF Blocking
<1>14. earlier' \subseteq PostedReview
  <2> DEFINE g == WithoutEchoes(f, s)
             state == CASE verdict = "REQUEST_CHANGES" -> "CHANGES_REQUESTED"
                        [] verdict = "COMMENT" -> "COMMENTED"
                        [] verdict = "APPROVE" -> "APPROVED"
             form == Form(Said(g) \cap Cutting # {}, s.stamped)
  <2>1. g.crit \subseteq IssueItem /\ g.minor \subseteq IssueItem /\ g.risks \subseteq Items
    <3>1. f.crit \subseteq IssueItem /\ f.minor \subseteq IssueItem /\ f.risks \subseteq Items
      BY <1>2, <1>3
    <3>2. CASE g = f
      BY <3>1, <3>2
    <3>3. CASE g = [f EXCEPT !.minor = {i \in @ : i.trait # "echo"}]
      <4> DEFINE minor == {i \in f.minor : i.trait # "echo"}
      <4>1. g = [f EXCEPT !.minor = minor]
        BY <3>3
      <4>2. minor \subseteq f.minor
        OBVIOUS
      <4> HIDE DEF minor, g
      <4>3. g.crit = f.crit /\ g.minor = minor /\ g.risks = f.risks
        BY <1>3, <4>1 DEF IsObject
      <4> QED
        BY <3>1, <4>2, <4>3
    <3> QED
      BY <3>2, <3>3 DEF WithoutEchoes
  <2>2. state \in States
    BY <1>4 DEF States, Verdicts
  <2>3. form \in {"whole", "text", "stamp"}
    BY DEF Form
  <2>4. {i.item : i \in g.crit} \subseteq Items /\ {i.item : i \in g.minor} \subseteq Items
    BY <2>1 DEF IssueItem, Traits
  <2>5. {g.status, g.other} \cap Grave \subseteq Grave
    OBVIOUS
  <2>6. Rendered(g, verdict, s.stamped)
          = [state |-> state, verdict |-> verdict, crit |-> {i.item : i \in g.crit},
             minor |-> {i.item : i \in g.minor}, risks |-> g.risks,
             marks |-> {g.status, g.other} \cap Grave, form |-> form]
    BY DEF Rendered
  <2> HIDE DEF g, state, form
  <2>7. Rendered(g, verdict, s.stamped) \in PostedReview
    BY <1>4, <2>1, <2>2, <2>3, <2>4, <2>5, <2>6 DEF PostedReview
  <2> QED
    BY <1>1, <2>7 DEF g
<1> QED
  BY <1>9, <1>10, <1>11, <1>12, <1>13, <1>14

-----------------------------------------------------------------------------
LEMMA NothingPosted ==
    ASSUME last' = NoVerdictYet
    PROVE  /\ FailBlocks' /\ NeverUpgraded' /\ CriticalBlocks'
           /\ StandingCriticalBlocks' /\ UnprovenFixBlocks'
BY DEF NoVerdictYet, FailBlocks, NeverUpgraded, CriticalBlocks, StandingCriticalBlocks,
       UnprovenFixBlocks

\* The inductive invariant of the rounds of a pull request.
THEOREM VerdictInvariant == VerdictSpec => []VerdictInv
<1>1. VerdictInit => VerdictInv
  <2> SUFFICES ASSUME VerdictInit PROVE VerdictInv
    OBVIOUS
  <2>1. earlier \subseteq PostedReview
    BY VerdictAssumption DEF VerdictInit
  <2> QED
    BY <2>1 DEF VerdictInit, VerdictInv, NoVerdictYet, FailBlocks, NeverUpgraded, CriticalBlocks,
                StandingCriticalBlocks, UnprovenFixBlocks
<1>2. VerdictInv /\ [VerdictNext]_verdictVars => VerdictInv'
  <2> SUFFICES ASSUME VerdictInv, [VerdictNext]_verdictVars PROVE VerdictInv'
    OBVIOUS
  <2>1. ASSUME NEW body \in Bodies, NEW caller \in Callers, NEW mode \in Modes,
               NEW s \in Settings, SubmitVerdict(body, caller, mode, s)
        PROVE  VerdictInv'
    <3>1. PICK p \in Chosen(body) : Post(p, body, caller, mode, s)
      BY <2>1 DEF SubmitVerdict
    <3>2. body \in ReviewBody /\ p \in Payload
      BY <3>1, VerdictAssumption, ChosenTyped
    <3> QED
      BY <3>1, <3>2, PostBlocks DEF VerdictInv
  <2>2. ASSUME NEW body \in Bodies, Unparseable(body) PROVE VerdictInv'
    BY <2>2, NothingPosted DEF Unparseable, VerdictInv
  <2>3. ASSUME NEW r \in earlier, Dismiss(r) PROVE VerdictInv'
    <3>1. [r EXCEPT !.state = "DISMISSED"] \in PostedReview
      BY DEF VerdictInv, PostedReview, States
    <3>2. earlier' \subseteq PostedReview /\ last' = last
      BY <2>3, <3>1 DEF Dismiss, VerdictInv
    <3> QED
      BY <3>2 DEF VerdictInv, FailBlocks, NeverUpgraded, CriticalBlocks, StandingCriticalBlocks,
                  UnprovenFixBlocks
  <2>4. ASSUME NextHead PROVE VerdictInv'
    BY <2>4, NothingPosted DEF NextHead, VerdictInv
  <2>5. ASSUME UNCHANGED verdictVars PROVE VerdictInv'
    BY <2>5 DEF verdictVars, VerdictInv, FailBlocks, NeverUpgraded, CriticalBlocks,
                StandingCriticalBlocks, UnprovenFixBlocks
  <2> QED
    BY <2>1, <2>2, <2>3, <2>4, <2>5 DEF VerdictNext
<1> QED
  BY <1>1, <1>2, PTL DEF VerdictSpec

-----------------------------------------------------------------------------
\* A FAIL of the deterministic analyses is a request for changes, for every text and
\* every verdict it names (review_enforcer.py:209-275).
THEOREM DeterministicFailBlocks == VerdictSpec => []FailBlocks
<1>1. VerdictInv => FailBlocks
  BY DEF VerdictInv
<1> QED
  BY <1>1, VerdictInvariant, PTL

\* Asking for changes, in the text or in the call, never becomes an approval
\* (review_enforcer.py:465-481).
THEOREM IntentNeverUpgraded == VerdictSpec => []NeverUpgraded
<1>1. VerdictInv => NeverUpgraded
  BY DEF VerdictInv
<1> QED
  BY <1>1, VerdictInvariant, PTL

\* No sound critical issue is approved or left at a comment, whatever else the object
\* says (formatter.py:245-319).
THEOREM CriticalIssueBlocks == VerdictSpec => []CriticalBlocks
<1>1. VerdictInv => CriticalBlocks
  BY DEF VerdictInv
<1> QED
  BY <1>1, VerdictInvariant, PTL

\* A known critical finding that is named unresolved blocks, in every history of
\* reviews and dismissals (review_enforcer.py:349-374).
THEOREM StandingFindingBlocks == VerdictSpec => []StandingCriticalBlocks
<1>1. VerdictInv => StandingCriticalBlocks
  BY DEF VerdictInv
<1> QED
  BY <1>1, VerdictInvariant, PTL

\* A known critical finding is not resolved by what the diff does not show
\* (grounding/resolutions.py:36-124).
THEOREM UnprovenResolutionBlocks == VerdictSpec => []UnprovenFixBlocks
<1>1. VerdictInv => UnprovenFixBlocks
  BY DEF VerdictInv
<1> QED
  BY <1>1, VerdictInvariant, PTL

-----------------------------------------------------------------------------
(***************************************************************************)
(* The inline comments, for every diff, every list of findings and any     *)
(* number of reviews.  What a review posts is what the loop over its       *)
(* findings ends with: Posts is what every round of that loop preserves,   *)
(* and the three properties follow from it and from what a push does to    *)
(* the comments.                                                           *)
(***************************************************************************)

\* A word of a body is one of the finding, of the note or of the fence.
BodyWord == STRING \cup NoteWords \cup {"python", "suggestion"}

Comment == [file : Nat, line : Nat, orig : Nat, start : Nat, words : SUBSET BodyWord,
            suggests : BOOLEAN, fresh : BOOLEAN, round : Nat, about : SUBSET STRING,
            extent : Int, faithful : BOOLEAN]

CommentsTypeOK ==
    /\ diff \in Diffs
    /\ reviewed \in Nat
    /\ onHead \in BOOLEAN /\ complete \in BOOLEAN
    /\ comments \in Seq(Comment)

\* A first review is not checked against the comments there are.
FirstIsFirst == reviewed = 0 => comments = <<>>

CommentsInv ==
    /\ CommentsTypeOK
    /\ FirstIsFirst
    /\ LifetimeCapHolds
    /\ NotRaisedAgain
    /\ CommentsFaithful

-----------------------------------------------------------------------------
(* The findings, grouped                                                   *)

LEMMA ClustersAre ==
    ASSUME NEW fs \in Seq(FindingType), NEW places \in SUBSET (1..Len(fs))
    PROVE  Clusters(fs, places) \in [places -> Nat]
<1>1. PICK leads : leads = Leads(fs, places)
  OBVIOUS
<1> DEFINE Fits(i) == {j \in places : \/ j = i
                                      \/ j < i /\ j \in leads
                                         /\ Similar(fs[i].words, fs[j].words, 60)}
<1>2. ASSUME NEW i \in places PROVE Sets!Min(Fits(i)) \in Nat
  <2>0. Fits(i) \subseteq places /\ i \in Fits(i)
    BY Zenon
  <2>1. Fits(i) \in SUBSET Nat /\ i \in Fits(i)
    <3> HIDE DEF Fits
    <3>1. places \subseteq Nat
      OBVIOUS
    <3> QED BY <2>0, <3>1, Zenon
  <2> HIDE DEF Fits
  <2>2. PICK n \in Fits(i) : \A m \in Fits(i) : n <= m
    BY <2>1, NatMin
  <2> QED BY <2>1, <2>2 DEF Sets!Min
<1>3. Clusters(fs, places) =
        [i \in places |-> IF Cardinality(places) < GroupThreshold THEN i ELSE Sets!Min(Fits(i))]
  BY <1>1 DEF Clusters
<1> HIDE DEF Fits
<1>4. \A i \in places : i \in Nat
  OBVIOUS
<1> QED BY <1>2, <1>3, <1>4

\* The places that stay have a first, a second and so on.
LEMMA StaysInOrder ==
    ASSUME NEW n \in Nat, NEW places \in SUBSET (1..n), NEW lead \in [places -> Nat]
    PROVE  /\ Stays(lead) \subseteq 1..n /\ Cardinality(Stays(lead)) \in Nat
           /\ \A k \in 1..Cardinality(Stays(lead)) :
                 \E i \in Stays(lead) : Cardinality(UpTo(lead, i)) = k
<1>1. PICK T : T = Stays(lead)
  OBVIOUS
<1>2. T \subseteq 1..n /\ T \subseteq places /\ IsFiniteSet(T) /\ Cardinality(T) \in Nat
  <2>1. T \subseteq places /\ T \in SUBSET (1..n)
    BY <1>1 DEF Stays
  <2>2. IsFiniteSet(1..n)
    BY FS_Interval
  <2> QED BY <2>1, <2>2, FS_Subset, FS_CardinalityType
<1>4. \A i \in T : lead[i] \in Nat /\ i \in Nat
  BY <1>2
<1>5. PICK R : R = {p \in T \X T :
                      lead[p[1]] < lead[p[2]] \/ (lead[p[1]] = lead[p[2]] /\ p[1] <= p[2])}
  OBVIOUS
<1>6. \A i, j \in T : <<j, i>> \in R <=> lead[j] < lead[i] \/ (lead[j] = lead[i] /\ j <= i)
  BY <1>5
<1>7. Orders(R, T)
  <2>1. ASSUME NEW x \in T, NEW y \in T PROVE <<x, y>> \in R \/ <<y, x>> \in R
    <3>1. lead[x] \in Nat /\ lead[y] \in Nat /\ x \in Nat /\ y \in Nat
      BY <1>4
    <3>2. \/ lead[x] < lead[y] \/ (lead[x] = lead[y] /\ x <= y)
          \/ lead[y] < lead[x] \/ (lead[y] = lead[x] /\ y <= x)
      BY <3>1
    <3> QED BY <1>6, <3>2, Zenon
  <2>2. \A x, y \in T : <<x, y>> \in R /\ <<y, x>> \in R => x = y
    BY <1>4, <1>6
  <2>3. ASSUME NEW x \in T, NEW y \in T, NEW z \in T, <<x, y>> \in R, <<y, z>> \in R
        PROVE  <<x, z>> \in R
    <3>1. /\ lead[x] < lead[y] \/ (lead[x] = lead[y] /\ x <= y)
          /\ lead[y] < lead[z] \/ (lead[y] = lead[z] /\ y <= z)
      BY <1>6, <2>3
    <3>2. lead[x] < lead[z] \/ (lead[x] = lead[z] /\ x <= z)
      BY <1>4, <3>1
    <3> QED BY <1>6, <3>2
  <2> QED BY <2>1, <2>2, <2>3 DEF Orders
<1>8. \A i \in T : UpTo(lead, i) = {j \in T : <<j, i>> \in R}
  BY <1>1, <1>6 DEF UpTo
<1>9. \A k \in 1..Cardinality(T) : \E i \in T : Cardinality({j \in T : <<j, i>> \in R}) = k
  <2>1. IsFiniteSet(T) /\ Orders(R, T)
    BY <1>2, <1>7
  <2> QED BY <2>1, KthMember
<1> QED BY <1>1, <1>2, <1>8, <1>9

LEMMA ProcessedIs ==
    ASSUME NEW d, NEW fs \in Seq(FindingType)
    PROVE  Processed(d, fs) \in Seq(FindingType)
<1>1. PICK lead : lead = Clusters(fs, Reported(d, fs))
  OBVIOUS
<1>2. PICK places \in SUBSET (1..Len(fs)) : lead \in [places -> Nat]
  <2>1. Reported(d, fs) \in SUBSET (1..Len(fs))
    BY DEF Reported
  <2> QED BY <1>1, <2>1, ClustersAre
<1>3. Grouped(fs, lead) \in Seq(FindingType)
  <2>0. PICK len \in Nat : len = Len(fs)
    OBVIOUS
  <2>1. PICK n \in Nat : n = Cardinality(Stays(lead))
    BY <1>2, StaysInOrder
  <2> DEFINE At(k) == CHOOSE i \in Stays(lead) : Cardinality(UpTo(lead, i)) = k
  <2>2. ASSUME NEW k \in 1..n PROVE At(k) \in 1..Len(fs)
    <3>1. \E i \in Stays(lead) : Cardinality(UpTo(lead, i)) = k
      BY <1>2, <2>0, <2>1, StaysInOrder
    <3>2. At(k) \in Stays(lead)
      BY <3>1
    <3> HIDE DEF At
    <3> QED BY <1>2, <2>0, <3>2, StaysInOrder
  <2>3. ASSUME NEW x \in FindingType, NEW b \in BOOLEAN
        PROVE  [x EXCEPT !.grouped = b] \in FindingType
    BY DEF FindingType
  <2>4. Grouped(fs, lead) = [k \in 1..n |-> [fs[At(k)] EXCEPT !.grouped = Repeated(lead, At(k))]]
    BY <2>1 DEF Grouped
  <2> HIDE DEF At
  <2>5. \A k \in 1..n : Repeated(lead, At(k)) \in BOOLEAN
    BY DEF Repeated
  <2>6. ASSUME NEW k \in 1..n
        PROVE  [fs[At(k)] EXCEPT !.grouped = Repeated(lead, At(k))] \in FindingType
    <3>1. fs[At(k)] \in FindingType
      BY <2>2
    <3> QED BY <2>3, <2>5, <3>1
  <2>7. [k \in 1..n |-> [fs[At(k)] EXCEPT !.grouped = Repeated(lead, At(k))]] \in Seq(FindingType)
    BY <2>1, <2>6
  <2> QED BY <2>4, <2>7
<1>4. \A x \in FindingType : ValidFix(x) \in FindingType
  <2>1. \A x \in FindingType : [x EXCEPT !.code = <<>>] \in FindingType
    <3>1. <<>> \in Seq(STRING)
      OBVIOUS
    <3> QED BY <3>1 DEF FindingType
  <2> QED BY <2>1 DEF ValidFix
<1>5. PICK g \in Seq(FindingType) : g = Grouped(fs, lead)
  BY <1>3
<1>6. Processed(d, fs) = [i \in 1..Len(g) |-> ValidFix(g[i])]
  BY <1>1, <1>5 DEF Processed
<1>7. \A i \in 1..Len(g) : ValidFix(g[i]) \in FindingType
  BY <1>4
<1> QED BY <1>6, <1>7

-----------------------------------------------------------------------------
(* What there is to say of a finding                                       *)

\* Reading a window further by some lines, snapping to one of its rows and keeping
\* the lines the diff adds ends on a row that agrees with its line: every row does
\* that claims something of a line the diff shows, and every added line is shown.
LEMMA AnchorIsFaithful ==
    ASSUME NEW d \in Diffs, NEW x \in FindingType, NEW n \in Anchor(d, x)
    PROVE  n \in Nat /\ Faithful(d, x, n)
<1>1. x.file \in Visible(d) /\ Visible(d) \subseteq 1..Len(d) /\ n \in d[x.file].added
  <2>1. Visible(d) \subseteq 1..Len(d)
    BY DEF Visible, Shown, Kept
  <2>2. x.file \in Visible(d) /\ n \in d[x.file].added
    BY DEF Anchor
  <2> QED BY <2>1, <2>2
<1>2. d[x.file].added \subseteq Nat /\ TextAt(d, x.file, n) # NotShown
  <2>1. d \in Seq(FileType) /\ x.file \in 1..Len(d)
    BY <1>1, CommentsAssumption
  <2>2. d[x.file] \in FileType
    BY <2>1
  <2>3. n \in DOMAIN d[x.file].text /\ d[x.file].text[n] # NotShown
    BY <1>1, <2>1, CommentsAssumption
  <2> QED BY <2>2, <2>3 DEF FileType, TextAt
<1>3. ASSUME n # x.line
      PROVE  \E r \in Rows(x) : /\ n - r.at \in Offsets
                                /\ r.text = Empty \/ Agrees(r.text, TextAt(d, x.file, n))
  <2>1. PICK o \in WindowOffset(d, x) : n \in Snapped(x, o)
    BY <1>1, <1>3 DEF Anchor
  <2>2. o \in Offsets /\ MatchesAt(d, x, o)
    BY <2>1 DEF WindowOffset
  <2>3. PICK r \in Rows(x) : n = r.at + o
    BY <2>1 DEF Snapped
  <2>4. r.at \in Int /\ o \in Int
    <3>1. ASSUME x.window # {} PROVE r.at \in Int
      BY <2>3, <3>1 DEF Rows, FindingType, Row
    <3>2. ASSUME x.window = {} PROVE r.at \in Int
      <4>1. x.line \in Nat /\ x.code \in Seq(STRING)
        BY DEF FindingType
      <4>2. \/ \E i \in 1..Len(x.code) : r = [at |-> x.line + i - 1, text |-> x.code[i]]
            \/ r = [at |-> x.line, text |-> x.says]
            \/ r = [at |-> x.line + 2, text |-> GroupNote]
        BY <2>3, <3>2 DEF Rows
      <4> QED BY <4>1, <4>2
    <3>3. o \in Int
      BY <2>2, CommentsAssumption DEF Offsets
    <3> QED BY <3>1, <3>2, <3>3
  <2>5. n - r.at = o
    BY <2>3, <2>4
  <2>6. r.text = Empty \/ r \in Telling(d, x, o)
    BY <1>2, <2>3 DEF Telling
  <2>7. r.text = Empty \/ Agrees(r.text, TextAt(d, x.file, n))
    BY <2>2, <2>3, <2>6 DEF MatchesAt
  <2> QED BY <2>2, <2>5, <2>7
<1> QED BY <1>1, <1>2, <1>3 DEF Faithful

LEMMA DraftsAreFaithful ==
    ASSUME NEW d \in Diffs, NEW x \in FindingType, NEW c \in Draft(d, x)
    PROVE  c \in Comment /\ c.faithful
<1>1. PICK n \in Anchor(d, x) : c = CommentOn(d, x, n)
  BY DEF Draft
<1>2. n \in Nat /\ Faithful(d, x, n)
  BY AnchorIsFaithful
<1>3. PICK fix : fix = IF Echoes(d, x, n) THEN <<>> ELSE x.code
  OBVIOUS
<1>4. PICK multiline \in BOOLEAN : multiline = IsMultiline(d, x, n)
  BY DEF IsMultiline
<1>5. PICK words : words = BodyWords(x, fix, multiline)
  OBVIOUS
<1>6. words \in SUBSET BodyWord
  <2>1. x.words \subseteq BodyWord /\ x.codeWords \subseteq BodyWord
    BY DEF FindingType, BodyWord
  <2>2. PICK fence \in BodyWord : fence = Fence(fix, multiline)
    BY DEF BodyWord, Fence
  <2>3. PICK notes \in SUBSET BodyWord : notes = IF x.grouped THEN NoteWords ELSE {}
    BY DEF BodyWord
  <2>4. words = IF fix = <<>> THEN x.words ELSE x.words \cup x.codeWords \cup notes \cup {fence}
    BY <1>5, <2>2, <2>3 DEF BodyWords
  <2> QED BY <2>1, <2>4
<1>7. PICK suggests \in BOOLEAN : suggests = (fix # <<>> /\ Fence(fix, multiline) = "suggestion")
  OBVIOUS
<1>8. PICK start : start = IF multiline THEN x.start ELSE 0
  OBVIOUS
<1>9. /\ x.file \in Nat /\ x.start \in Nat /\ x.line - x.start \in Int
      /\ x.words \in SUBSET STRING
  BY DEF FindingType
<1>10. c = [file |-> x.file, line |-> n, orig |-> n, start |-> start, words |-> words,
            suggests |-> suggests, fresh |-> TRUE, round |-> 0, about |-> x.words,
            extent |-> x.line - x.start, faithful |-> TRUE]
  BY <1>1, <1>2, <1>3, <1>4, <1>5, <1>7, <1>8 DEF CommentOn
<1>11. start \in Nat
  BY <1>8, <1>9
<1> QED BY <1>2, <1>6, <1>9, <1>10, <1>11 DEF Comment

-----------------------------------------------------------------------------
(* The loop over the findings                                              *)

\* Words in common are in common both ways.
LEMMA SimilarBothWays ==
    ASSUME NEW a, NEW b, NEW percent, Similar(a, b, percent)
    PROVE  Similar(b, a, percent)
<1>1. a \cup b = b \cup a /\ a \cap b = b \cap a
  OBVIOUS
<1> QED BY <1>1 DEF Similar

\* What a review may have posted: nothing beyond its budget, nothing in words that
\* there were before, everything on a line it is about.
Posts(existing, budget) ==
    {p \in Seq(Comment) :
        /\ Len(p) <= budget
        /\ \A i \in 1..Len(p) :
              /\ p[i].faithful /\ p[i].round = reviewed + 1
              /\ \A j \in 1..Len(existing) : ~Similar(p[i].words, existing[j].words, 55)}

LEMMA RoundPosts ==
    ASSUME reviewed \in Nat, NEW existing, NEW budget \in Nat,
           NEW p \in Posts(existing, budget), NEW draft,
           \A c \in draft : c \in Comment /\ c.faithful
    PROVE  AddComment(existing, budget, p, draft) \in Posts(existing, budget)
<1>1. CASE AddComment(existing, budget, p, draft) = p
  BY <1>1
<1>2. CASE AddComment(existing, budget, p, draft) # p
  <2>1. PICK b : b = CHOOSE c \in draft : TRUE
    OBVIOUS
  <2>2. PICK c : c = [b EXCEPT !.round = reviewed + 1]
    OBVIOUS
  <2>3. /\ ~(Len(p) >= budget) /\ draft # {} /\ ~AlreadyRaised(b, existing)
        /\ AddComment(existing, budget, p, draft) = Append(p, c)
    BY <1>2, <2>1, <2>2 DEF AddComment
  <2>4. b \in Comment /\ b.faithful
    BY <2>1, <2>3
  <2>6. c \in Comment /\ c.faithful /\ c.round = reviewed + 1 /\ c.words = b.words
    <3>1. PICK r \in Nat : r = reviewed + 1
      OBVIOUS
    <3> QED BY <2>2, <2>4, <3>1 DEF Comment
  <2>7. \A j \in 1..Len(existing) : ~Similar(c.words, existing[j].words, 55)
    BY <2>3, <2>6 DEF AlreadyRaised
  <2>8. PICK q : q = Append(p, c)
    OBVIOUS
  <2>9. /\ q \in Seq(Comment) /\ Len(q) = Len(p) + 1 /\ q[Len(q)] = c
        /\ \A i \in 1..Len(p) : q[i] = p[i]
    BY <2>6, <2>8 DEF Posts
  <2>10. Len(q) <= budget
    BY <2>3, <2>9 DEF Posts
  <2>11. \A i \in 1..Len(q) : i \in 1..Len(p) \/ i = Len(q)
    BY <2>9 DEF Posts
  <2>12. ASSUME NEW i \in 1..Len(q)
         PROVE  /\ q[i].faithful /\ q[i].round = reviewed + 1
                /\ \A j \in 1..Len(existing) : ~Similar(q[i].words, existing[j].words, 55)
    <3>1. CASE i \in 1..Len(p)
      <4>1. /\ p[i].faithful /\ p[i].round = reviewed + 1
            /\ \A j \in 1..Len(existing) : ~Similar(p[i].words, existing[j].words, 55)
        BY <3>1 DEF Posts
      <4> QED BY <2>9, <3>1, <4>1
    <3>2. CASE i = Len(q)
      BY <2>6, <2>7, <2>9, <3>2
    <3> QED BY <2>11, <3>1, <3>2
  <2>13. q \in Posts(existing, budget)
    BY <2>9, <2>10, <2>12, Zenon DEF Posts
  <2> QED BY <2>3, <2>8, <2>13
<1> QED BY <1>1, <1>2

\* By the rounds of the loop: the least round that has no result, or a wrong one.
LEMMA CommentsPost ==
    ASSUME diff \in Diffs, reviewed \in Nat, NEW fs \in FindingLists, NEW existing,
           NEW budget \in Nat
    PROVE  Comments(fs, existing, budget) \in Posts(existing, budget)
<1>0. PICK zs \in Seq(FindingType) : zs = Processed(diff, fs)
  <2>1. fs \in Seq(FindingType)
    BY CommentsAssumption
  <2> HIDE DEF FindingType
  <2> QED BY <2>1, ProcessedIs
<1>1. PICK xs : xs = Drafts[diff][fs]
  OBVIOUS
<1>12. xs = [i \in 1..Len(zs) |-> Draft(diff, zs[i])]
  <2>1. xs = ToSay(diff, zs)
    BY <1>0, <1>1 DEF Drafts
  <2> QED BY <2>1 DEF ToSay
<1>2. PICK n \in Nat : n = Len(xs) /\ n = Len(zs) /\ xs = [i \in 1..n |-> Draft(diff, zs[i])]
  <2> QED BY <1>12
<1>11. \A i \in 1..n : zs[i] \in FindingType
  BY <1>0, <1>2, <1>12
<1> DEFINE Rounds(g, m) == [i \in 0..m |-> IF i = 0 THEN <<>>
                              ELSE AddComment(existing, budget, g[i - 1], xs[i])]
           P == Posts(existing, budget)
<1> HIDE DEF Rounds
<1>3. <<>> \in P
  BY DEF Posts
<1>4. \A m \in 1..n, p \in P : AddComment(existing, budget, p, xs[m]) \in P
  <2> SUFFICES ASSUME NEW m \in 1..n, NEW p \in Posts(existing, budget)
               PROVE  AddComment(existing, budget, p, xs[m]) \in Posts(existing, budget)
    OBVIOUS
  <2>1. \A c \in Draft(diff, zs[m]) : c \in Comment /\ c.faithful
    BY <1>11, DraftsAreFaithful
  <2>2. xs[m] = Draft(diff, zs[m])
    BY <1>2
  <2> QED BY <2>1, <2>2, RoundPosts
<1> HIDE DEF P
<1>5. ASSUME NEW g, NEW m \in 0..n, g = Rounds(g, m)
      PROVE  \A i \in 0..m : g[i] \in P
  <2>0. PICK T : T = {i \in 0..m : g[i] \notin P}
    OBVIOUS
  <2>1. T = {i \in 0..m : g[i] \notin P} /\ T \in SUBSET Nat
    BY <2>0
  <2>2. CASE T # {}
    <3>1. PICK i \in T : \A j \in T : i <= j
      BY <2>1, <2>2, NatMin
    <3>2. i \in 0..m /\ g[i] \notin P
      BY <2>1
    <3>3. g[i] = IF i = 0 THEN <<>> ELSE AddComment(existing, budget, g[i - 1], xs[i])
      BY <1>5, <3>2 DEF Rounds
    <3>4. i \in 1..n /\ i - 1 \in 0..m /\ i - 1 < i
      BY <1>3, <3>2, <3>3
    <3>5. g[i - 1] \in P
      BY <2>1, <3>1, <3>4
    <3> QED BY <1>4, <3>2, <3>3, <3>4, <3>5
  <2> QED BY <2>1, <2>2
<1>6. \E g : g = Rounds(g, n)
  <2>0. PICK T : T = {m \in 0..n : ~ \E g : g = Rounds(g, m)}
    OBVIOUS
  <2>1. T = {m \in 0..n : ~ \E g : g = Rounds(g, m)} /\ T \in SUBSET Nat
    BY <2>0
  <2>2. CASE T # {}
    <3>1. PICK m \in T : \A j \in T : m <= j
      BY <2>1, <2>2, NatMin
    <3>2. m # 0
      <4>1. PICK g : g = [i \in 0..0 |-> <<>>]
        OBVIOUS
      <4>2. g = Rounds(g, 0)
        BY <4>1 DEF Rounds
      <4> QED BY <2>1, <4>2
    <3>3. m - 1 \in 0..n /\ m - 1 < m /\ m \in 1..n
      BY <2>1, <3>2
    <3>4. PICK g : g = Rounds(g, m - 1)
      <4>1. PICK k \in 0..n : k = m - 1
        BY <3>3
      <4>2. k \notin T
        BY <2>1, <3>1, <3>3, <4>1
      <4> QED BY <2>1, <4>1, <4>2
    <3>5. PICK h : h = [i \in 0..m |-> IF i = m
                          THEN AddComment(existing, budget, g[m - 1], xs[m]) ELSE g[i]]
      OBVIOUS
    <3>6. \A i \in 0..(m - 1) : h[i] = g[i]
      BY <3>3, <3>5
    <3>7. ASSUME NEW i \in 0..m
          PROVE  h[i] = IF i = 0 THEN <<>>
                        ELSE AddComment(existing, budget, h[i - 1], xs[i])
      <4>1. CASE i = m
        <5>1. h[i] = AddComment(existing, budget, g[i - 1], xs[i])
          BY <3>5, <4>1
        <5>2. h[i - 1] = g[i - 1]
          BY <3>3, <3>6, <4>1
        <5> QED BY <3>2, <4>1, <5>1, <5>2
      <4>2. CASE i # m
        <5>1. i \in 0..(m - 1)
          BY <3>3, <4>2
        <5>2. g[i] = IF i = 0 THEN <<>>
                     ELSE AddComment(existing, budget, g[i - 1], xs[i])
          BY <3>4, <5>1 DEF Rounds
        <5>3. i # 0 => h[i - 1] = g[i - 1]
          BY <3>3, <3>6, <5>1
        <5> QED BY <3>6, <5>1, <5>2, <5>3
      <4> QED BY <4>1, <4>2
    <3>8. h = Rounds(h, m)
      BY <3>5, <3>7 DEF Rounds
    <3> QED BY <2>1, <3>8
  <2>3. n \in 0..n
    OBVIOUS
  <2> QED BY <2>1, <2>2, <2>3
<1>7. PICK g : g = CHOOSE h : h = Rounds(h, n)
  OBVIOUS
<1>8. g = Rounds(g, n)
  BY <1>6, <1>7
<1>9. g[n] \in P
  <2>1. n \in 0..n
    OBVIOUS
  <2> QED BY <1>5, <1>8, <2>1
<1>10. Comments(fs, existing, budget) = g[n]
  BY <1>1, <1>2, <1>7, Zenon DEF Comments, Rounds
<1> QED BY <1>9, <1>10 DEF P

-----------------------------------------------------------------------------
(* The budget of a review                                                  *)

LEMMA DecayedIs ==
    ASSUME NEW basis \in Nat, NEW round
    PROVE  Decayed(basis, round) \in Nat
<1>1. PICK T : T = {0} \cup {n \in 1..basis : n * 5 ^ (round - 1) <= basis * 3 ^ (round - 1)}
  OBVIOUS
<1>2. T \in SUBSET Nat /\ T # {} /\ \A m \in T : m <= basis
  BY <1>1
<1>3. PICK n \in T : \A m \in T : n >= m
  BY <1>2, NatMax
<1>4. Sets!Max(T) \in T
  BY <1>3 DEF Sets!Max
<1> QED BY <1>1, <1>2, <1>4 DEF Decayed

\* The allowance of a review that read its lists leaves the cap where it is, and
\* that of a first review is below it.
LEMMA BudgetIs ==
    ASSUME CommentsInv, NEW read \in Reads
    PROVE  /\ Budget(read) \in Nat
           /\ complete /\ read = Whole => Len(comments) + Budget(read) <= LifetimeCap
<1>1. PICK total \in Nat : total = Len(comments)
  BY DEF CommentsInv, CommentsTypeOK
<1>2. reviewed \in Nat /\ (reviewed = 0 => total = 0) /\ (complete => total <= LifetimeCap)
  BY <1>1 DEF CommentsInv, CommentsTypeOK, FirstIsFirst, LifetimeCapHolds
<1>3. LifetimeCap \in Nat /\ LifetimeCap >= 5
  BY CommentsAssumption
<1>4. PICK initial \in 0..5 : initial = InitialBudget(diff)
  BY DEF InitialBudget, BudgetFor
<1>5. PICK previous \in Nat :
         previous = Cardinality({c \in 1..Len(comments) : comments[c].fresh})
  <2>1. IsFiniteSet(1..Len(comments))
    BY <1>1, FS_Interval
  <2>2. {c \in 1..Len(comments) : comments[c].fresh} \in SUBSET (1..Len(comments))
    OBVIOUS
  <2> QED BY <2>1, <2>2, FS_Subset, FS_CardinalityType
<1>6. PICK basis \in Nat : basis = IF previous > 0 THEN previous ELSE initial
  OBVIOUS
<1>7. PICK d \in Nat : d = Decayed(basis, reviewed + 1)
  BY <1>6, DecayedIs
<1>8. PICK a : a = Allowance(reviewed + 1, previous, total, initial)
  OBVIOUS
<1>9. a \in Nat /\ (total <= LifetimeCap => total + a <= LifetimeCap)
  <2>1. a = IF total >= LifetimeCap THEN 0
            ELSE Minimum(LifetimeCap - total,
                         IF reviewed + 1 <= 1 THEN initial ELSE Maximum(1, d))
    BY <1>6, <1>7, <1>8 DEF Allowance
  <2>2. Maximum(1, d) \in Nat
    BY DEF Maximum
  <2> QED BY <1>3, <2>1, <2>2 DEF Minimum
<1>10. Budget(read) \in {Unlimited, initial, a}
  BY <1>1, <1>4, <1>5, <1>8 DEF Budget
<1>11. Unlimited \in Nat
  BY DEF Unlimited
<1>12. ASSUME complete, read = Whole
       PROVE  total + Budget(read) <= LifetimeCap
  <2>1. Budget(read) = IF reviewed = 0 THEN initial ELSE a
    BY <1>1, <1>4, <1>5, <1>8, <1>12 DEF Budget, Whole
  <2>2. CASE reviewed = 0
    BY <1>2, <1>3, <2>1, <2>2
  <2>3. CASE reviewed # 0
    BY <1>2, <1>9, <1>12, <2>1, <2>3
  <2> QED BY <2>2, <2>3
<1> QED BY <1>1, <1>9, <1>10, <1>11, <1>12

-----------------------------------------------------------------------------
(* The steps                                                               *)

\* A step that moves comments, or attributes them anew, changes nothing that the
\* properties speak of.
LEMMA MovedInv ==
    ASSUME CommentsInv, diff' \in Diffs, onHead' \in BOOLEAN,
           UNCHANGED <<reviewed, complete>>,
           comments' \in Seq(Comment), Len(comments') = Len(comments),
           \A i \in 1..Len(comments) : /\ comments'[i].words = comments[i].words
                                       /\ comments'[i].round = comments[i].round
                                       /\ comments'[i].faithful = comments[i].faithful
    PROVE  CommentsInv'
<1>1. CommentsTypeOK'
  BY DEF CommentsInv, CommentsTypeOK
<1>2. FirstIsFirst'
  <2>1. reviewed = 0 => Len(comments') = 0
    BY DEF CommentsInv, FirstIsFirst, CommentsTypeOK
  <2>2. comments' \in Seq(Comment) /\ Len(comments') = 0 => comments' = <<>>
    BY EmptySeq
  <2> QED BY <2>1, <2>2 DEF FirstIsFirst
<1>3. LifetimeCapHolds'
  BY DEF CommentsInv, LifetimeCapHolds
<1>4. NotRaisedAgain'
  BY DEF CommentsInv, NotRaisedAgain
<1>5. CommentsFaithful'
  BY DEF CommentsInv, CommentsFaithful
<1> QED BY <1>1, <1>2, <1>3, <1>4, <1>5 DEF CommentsInv

LEMMA PushInv ==
    ASSUME CommentsInv, NEW d \in Diffs, NEW by \in 0..1, NEW gone, PushHead(d, by, gone)
    PROVE  CommentsInv'
<1>1. comments \in Seq(Comment)
  BY DEF CommentsInv, CommentsTypeOK
<1>2. ASSUME NEW c \in Comment
      PROVE  /\ Move(c, by, gone) \in Comment
             /\ Move(c, by, gone).words = c.words /\ Move(c, by, gone).round = c.round
             /\ Move(c, by, gone).faithful = c.faithful
  <2>1. PICK n : n = IF c.line \in {NoLine} \cup gone THEN NoLine ELSE c.line + by
    OBVIOUS
  <2>2. c.line \in Nat
    BY DEF Comment
  <2>3. n \in Nat
    BY <2>1, <2>2 DEF NoLine
  <2>4. Move(c, by, gone) = [c EXCEPT !.line = n]
    BY <2>1 DEF Move
  <2> QED BY <2>3, <2>4 DEF Comment
<1>3. PICK n \in Nat : n = Len(comments)
  BY <1>1
<1>4. comments' = [i \in 1..n |-> Move(comments[i], by, gone)]
  BY <1>3 DEF PushHead
<1>5. \A i \in 1..n : comments[i] \in Comment
  BY <1>1, <1>3
<1>6. comments' \in Seq(Comment) /\ Len(comments') = n
  BY <1>2, <1>4, <1>5
<1> QED BY <1>2, <1>3, <1>4, <1>5, <1>6, MovedInv DEF PushHead

LEMMA ReattributeInv == ASSUME CommentsInv, Reattribute PROVE CommentsInv'
<1>1. comments \in Seq(Comment)
  BY DEF CommentsInv, CommentsTypeOK
<1>2. PICK n \in Nat : n = Len(comments)
  BY <1>1
<1>3. comments' = [i \in 1..n |-> [comments[i] EXCEPT !.fresh = @ \/ comments[i].line # NoLine]]
  BY <1>2 DEF Reattribute
<1>4. \A i \in 1..n : comments[i] \in Comment
  BY <1>1, <1>2
<1>5. ASSUME NEW c \in Comment, NEW b \in BOOLEAN
      PROVE  /\ [c EXCEPT !.fresh = b] \in Comment
             /\ [c EXCEPT !.fresh = b].words = c.words
             /\ [c EXCEPT !.fresh = b].round = c.round
             /\ [c EXCEPT !.fresh = b].faithful = c.faithful
  BY DEF Comment
<1>6. ASSUME NEW i \in 1..n
      PROVE  /\ comments'[i] \in Comment
             /\ comments'[i].words = comments[i].words
             /\ comments'[i].round = comments[i].round
             /\ comments'[i].faithful = comments[i].faithful
  <2>1. PICK c \in Comment : c = comments[i]
    BY <1>4
  <2>2. (c.fresh \/ c.line # NoLine) \in BOOLEAN
    BY DEF Comment
  <2>3. comments'[i] = [c EXCEPT !.fresh = c.fresh \/ c.line # NoLine]
    BY <1>3, <2>1
  <2> QED BY <1>5, <2>1, <2>2, <2>3
<1>7. comments' \in Seq(Comment) /\ Len(comments') = n
  BY <1>3, <1>6
<1>8. diff' \in Diffs /\ onHead' \in BOOLEAN /\ UNCHANGED <<reviewed, complete>>
  BY DEF Reattribute, CommentsInv, CommentsTypeOK
<1> QED BY <1>2, <1>6, <1>7, <1>8, MovedInv

LEMMA ReviewInv ==
    ASSUME CommentsInv, NEW fs \in FindingLists, NEW read \in Reads, Review(fs, read)
    PROVE  CommentsInv'
<1>1. PICK n \in Nat : n = Len(comments)
  BY DEF CommentsInv, CommentsTypeOK
<1>0. /\ comments \in Seq(Comment) /\ reviewed \in Nat /\ diff \in Diffs
      /\ fs \in FindingLists
  BY DEF CommentsInv, CommentsTypeOK
<1>2. PICK budget \in Nat :
         /\ budget = Budget(read)
         /\ complete /\ read = Whole => n + budget <= LifetimeCap
  BY <1>1, BudgetIs
<1>3. PICK existing : existing = SubSeq(comments, 1, read.comments)
  OBVIOUS
<1>4. PICK posted \in Posts(existing, budget) : posted = Comments(fs, existing, budget)
  BY <1>0, CommentsPost
<1>5. PICK old : old = [i \in 1..n |-> [comments[i] EXCEPT !.fresh = FALSE]]
  OBVIOUS
<1>6. /\ comments' = old \o posted /\ reviewed' = reviewed + 1 /\ onHead' = TRUE
      /\ complete' = (complete /\ read.files /\ read.reviews /\ read.comments = n)
      /\ diff' = diff
  BY <1>1, <1>2, <1>3, <1>4, <1>5 DEF Review
<1>7. /\ posted \in Seq(Comment) /\ Len(posted) \in Nat /\ Len(posted) <= budget
      /\ \A i \in 1..Len(posted) :
            /\ posted[i].faithful /\ posted[i].round = reviewed + 1
            /\ \A j \in 1..Len(existing) : ~Similar(posted[i].words, existing[j].words, 55)
  BY DEF Posts
<1>8. /\ old \in Seq(Comment) /\ Len(old) = n
      /\ \A i \in 1..n : /\ old[i].words = comments[i].words
                          /\ old[i].round = comments[i].round
                          /\ old[i].faithful = comments[i].faithful
  <2>1. ASSUME NEW c \in Comment
        PROVE  /\ [c EXCEPT !.fresh = FALSE] \in Comment
               /\ [c EXCEPT !.fresh = FALSE].words = c.words
               /\ [c EXCEPT !.fresh = FALSE].round = c.round
               /\ [c EXCEPT !.fresh = FALSE].faithful = c.faithful
    BY DEF Comment
  <2>2. \A i \in 1..n : comments[i] \in Comment
    BY <1>0, <1>1
  <2>3. ASSUME NEW i \in 1..n
        PROVE  /\ old[i] \in Comment /\ old[i].words = comments[i].words
               /\ old[i].round = comments[i].round /\ old[i].faithful = comments[i].faithful
    <3>1. PICK c \in Comment : c = comments[i]
      BY <2>2
    <3>2. old[i] = [c EXCEPT !.fresh = FALSE]
      BY <1>5, <3>1
    <3> QED BY <2>1, <3>1, <3>2
  <2>4. old \in Seq(Comment) /\ Len(old) = n
    BY <1>5, <2>3
  <2> QED BY <2>3, <2>4
<1>9. PICK m \in Nat : m = Len(posted)
  BY <1>7
<1>10. /\ comments' \in Seq(Comment) /\ Len(comments') = n + m
       /\ \A i \in 1..n : comments'[i] = old[i]
       /\ \A i \in (n + 1)..(n + m) : comments'[i] = posted[i - n] /\ i - n \in 1..m
  <2>1. /\ old \o posted \in Seq(Comment) /\ Len(old \o posted) = n + m
        /\ \A i \in 1..(n + m) : (old \o posted)[i] = IF i <= n THEN old[i] ELSE posted[i - n]
    <3>1. old \in Seq(Comment) /\ posted \in Seq(Comment) /\ Len(old) = n /\ Len(posted) = m
      BY <1>7, <1>8, <1>9
    <3> HIDE DEF Comment
    <3> QED BY <3>1, ConcatProperties
  <2> QED BY <1>6, <2>1
<1>11. CommentsTypeOK'
  <2>1. complete' \in BOOLEAN
    BY <1>6
  <2> QED BY <1>0, <1>6, <1>10, <2>1 DEF CommentsTypeOK
<1>12. FirstIsFirst'
  BY <1>0, <1>6 DEF FirstIsFirst
<1>13. complete' => complete /\ read = Whole /\ existing = comments
  <2>1. complete' => complete /\ read = Whole
    BY <1>1, <1>6 DEF Reads, Whole
  <2>2. read = Whole => existing = comments
    BY <1>0, <1>3 DEF Whole
  <2> QED BY <2>1, <2>2
<1>14. LifetimeCapHolds'
  BY <1>2, <1>7, <1>9, <1>10, <1>13, CommentsAssumption DEF LifetimeCapHolds
<1>15. CommentsFaithful'
  <2>1. \A i \in 1..n : comments[i].faithful
    BY <1>1 DEF CommentsInv, CommentsFaithful
  <2>2. \A i \in 1..(n + m) : i \in 1..n \/ i \in (n + 1)..(n + m)
    OBVIOUS
  <2> QED BY <1>7, <1>8, <1>9, <1>10, <2>1, <2>2 DEF CommentsFaithful
<1>16. NotRaisedAgain'
  <2> SUFFICES ASSUME complete', NEW i \in 1..(n + m), NEW j \in 1..(n + m),
                      Similar(comments'[i].words, comments'[j].words, 55)
               PROVE  comments'[i].round = comments'[j].round
    BY <1>10 DEF NotRaisedAgain
  <2>1. \A k \in 1..(n + m) : k \in 1..n \/ k \in (n + 1)..(n + m)
    OBVIOUS
  <2>2. complete /\ existing = comments
    BY <1>13
  <2>3. \A k \in 1..n : /\ comments'[k].words = comments[k].words
                        /\ comments'[k].round = comments[k].round
    BY <1>8, <1>10
  <2>4. \A k \in (n + 1)..(n + m) :
           /\ comments'[k].round = reviewed + 1
           /\ \A l \in 1..n : ~Similar(comments'[k].words, comments[l].words, 55)
    <3> SUFFICES ASSUME NEW k \in (n + 1)..(n + m)
                 PROVE  /\ comments'[k].round = reviewed + 1
                        /\ \A l \in 1..n : ~Similar(comments'[k].words, comments[l].words, 55)
      OBVIOUS
    <3>1. comments'[k] = posted[k - n] /\ k - n \in 1..m
      BY <1>10
    <3> QED BY <1>1, <1>7, <1>9, <2>2, <3>1
  <2>5. \A k, l \in 1..n : Similar(comments[k].words, comments[l].words, 55)
                              => comments[k].round = comments[l].round
    BY <1>1, <2>2 DEF CommentsInv, NotRaisedAgain
  <2>6. Similar(comments'[j].words, comments'[i].words, 55)
    BY SimilarBothWays
  <2> QED BY <2>1, <2>3, <2>4, <2>5, <2>6
<1> QED BY <1>11, <1>12, <1>14, <1>15, <1>16 DEF CommentsInv

-----------------------------------------------------------------------------
(* The theorems                                                            *)

\* The comments of a pull request keep their types and everything below.
THEOREM CommentsInvariant == CommentsSpec => []CommentsInv
<1>1. CommentsInit => CommentsInv
  <2> SUFFICES ASSUME CommentsInit PROVE CommentsInv
    OBVIOUS
  <2>1. comments = <<>> /\ Len(comments) = 0 /\ LifetimeCap \in Nat
    BY CommentsAssumption DEF CommentsInit
  <2>2. CommentsTypeOK
    <3>1. <<>> \in Seq(Comment)
      OBVIOUS
    <3> QED BY <3>1 DEF CommentsInit, CommentsTypeOK
  <2> QED BY <2>1, <2>2 DEF CommentsInv, FirstIsFirst, LifetimeCapHolds, NotRaisedAgain, CommentsFaithful
<1>2. CommentsInv /\ [CommentsNext]_commentVars => CommentsInv'
  <2> SUFFICES ASSUME CommentsInv, [CommentsNext]_commentVars PROVE CommentsInv'
    OBVIOUS
  <2>1. ASSUME NEW fs \in FindingLists, NEW read \in Reads, Review(fs, read)
        PROVE  CommentsInv'
    BY <2>1, ReviewInv
  <2>2. ASSUME NEW d \in Diffs, NEW by \in 0..1, NEW gone, PushHead(d, by, gone)
        PROVE  CommentsInv'
    BY <2>2, PushInv
  <2>3. CASE Reattribute
    BY <2>3, ReattributeInv
  <2>4. CASE UNCHANGED commentVars
    BY <2>4 DEF commentVars, CommentsInv, CommentsTypeOK, FirstIsFirst, LifetimeCapHolds,
                NotRaisedAgain, CommentsFaithful
  <2> QED BY <2>1, <2>2, <2>3, <2>4 DEF CommentsNext
<1> QED BY <1>1, <1>2, PTL DEF CommentsSpec

\* Whatever the diffs grow to, and wherever GitHub attributes the comments, the
\* reviews that can read their lists post no more than the lifetime cap.
THEOREM CapOfALifetime == CommentsSpec => []LifetimeCapHolds
<1>1. CommentsInv => LifetimeCapHolds
  BY DEF CommentsInv
<1> QED BY <1>1, CommentsInvariant, PTL

\* No review says, in similar words and with a similar fix, what an earlier one of
\* the pull request said, wherever the code has moved (duplicate_detector.py:140-188).
THEOREM RaisedOnce == CommentsSpec => []NotRaisedAgain
<1>1. CommentsInv => NotRaisedAgain
  BY DEF CommentsInv
<1> QED BY <1>1, CommentsInvariant, PTL

\* Every comment stands on a line of its diff, and away from the line its finding
\* names only on one that agrees with a row the finding quotes for that place, through
\* the search for an offset, the snap to a row and the added lines (diff_tools.py:111-171).
THEOREM CommentsStandOnTheirCode == CommentsSpec => []CommentsFaithful
<1>1. CommentsInv => CommentsFaithful
  BY DEF CommentsInv
<1> QED BY <1>1, CommentsInvariant, PTL

=============================================================================
