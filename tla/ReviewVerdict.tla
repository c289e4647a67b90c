----------------------------- MODULE ReviewVerdict -----------------------------
(***************************************************************************)
(* From the text an auditor submits to the verdict of the review that is   *)
(* posted (review/review_enforcer.py, _enforce_verdict), round after round *)
(* of one pull request.  The text carries JSON objects of varying quality; *)
(* the first usable one is normalized (review/normalizer.py), filtered by  *)
(* the critic, floored by the deterministic analyses, checked against the  *)
(* diff and against the bot's earlier reviews, and rendered with a hidden  *)
(* metadata comment (review/formatter.py, review/metadata.py) from which   *)
(* the next round learns what this one has found.                          *)
(*                                                                         *)
(* A finding is a member of Items.  What its text is like, as far as the   *)
(* code tells texts apart, is its trait:                                   *)
(*   sound, void ("none found"), costly (verifying it needs more than the  *)
(*   diff, or its text is implausible), nit (says it is one), tagged (low  *)
(*   confidence or NIT in a field of its own), echo (its fix repeats the   *)
(*   diff).                                                                *)
(***************************************************************************)
EXTENDS Naturals, Sequences, FiniteSets

CONSTANTS
    Items,
    Cutting,    \* items whose text or fix holds the characters that end the metadata comment
    Bodies,     \* texts submitted
    Callers,    \* events the caller asks for
    Settings,   \* what surrounds a submission: [det, diff, listed, hard, strict, bypass, stamped]
    Legacies,   \* sets of reviews the pull request may start with
    MaxRounds   \* bound of the number of submissions

Traits == {"sound", "void", "costly", "nit", "tagged", "echo"}
IssueItem == [item : Items, trait : Traits]
Verdicts == {"APPROVE", "REQUEST_CHANGES", "COMMENT"}
Grave == {"WARN", "FAIL", "ERROR"}
States == {"CHANGES_REQUESTED", "COMMENTED", "APPROVED", "DISMISSED"}

\* A decoded object: keyed when it has the keys of its schema, valid when these
\* validate, listed when it lists issues of its own.
Payload ==
    {p \in [keyed : BOOLEAN, valid : BOOLEAN, summary : BOOLEAN, listed : BOOLEAN, doubts : BOOLEAN,
            verdict : Verdicts \cup {"none", "unknown"},
            claim : SUBSET STRING, other : SUBSET STRING,
            crit : SUBSET IssueItem, minor : SUBSET IssueItem,
            found : SUBSET [item : Items, trait : Traits, low : BOOLEAN],
            cands : SUBSET [item : Items, severity : STRING, sure : BOOLEAN, judged : STRING],
            risks : SUBSET [item : Items, severe : BOOLEAN],
            res : SUBSET [item : Items, status : STRING, category : STRING, proof : STRING]] :
        p.crit \cup p.minor # {} => p.listed}

ReviewBody == [heading : STRING, blocks : Seq([form : STRING, data : Payload]), text : Payload]

\* A posted review; its metadata are whole, unreadable, or those of the stamp alone.
PostedReview == [state : States, verdict : Verdicts \cup {"none"},
                 crit : SUBSET Items, minor : SUBSET Items, risks : SUBSET Items,
                 marks : SUBSET Grave, form : {"whole", "text", "stamp"}]

ASSUME VerdictAssumption ==
    /\ Cutting \subseteq Items
    /\ Bodies \subseteq ReviewBody
    /\ Legacies \subseteq SUBSET PostedReview
    /\ MaxRounds \in Nat

VARIABLES
    earlier,    \* the bot's posted reviews
    rounds,     \* submissions so far
    last        \* the last submission and what became of it (for the properties)

verdictVars == <<earlier, rounds, last>>

NoVerdictYet == [verdict |-> "none", det |-> "missing", intended |-> FALSE,
                 grave |-> FALSE, standing |-> FALSE, unproven |-> FALSE]

VerdictInit ==
    /\ earlier \in Legacies
    /\ rounds = 0
    /\ last = NoVerdictYet

-----------------------------------------------------------------------------
(* The objects of the text: extract_json_payload                           *)

\* A block decodes to an object, to a list of findings, after its quotes were
\* repaired in the only possible way, or in pieces; or it does not decode.
Decodes(b) == b.form # "garbled"

\* A list, and the pieces of an object, are findings without a summary.
Decoded(b) ==
    IF b.form \in {"object", "repaired"} THEN b.data
    ELSE [b.data EXCEPT !.summary = FALSE, !.verdict = "none", !.res = {}, !.listed = TRUE]

FirstOf(s, Test(_)) == {i \in 1..Len(s) : Test(s[i]) /\ \A j \in 1..(i - 1) : ~Test(s[j])}

Extracted(body) == {Decoded(body.blocks[i]) : i \in FirstOf(body.blocks, Decodes)}

\* The webhook's mode is authoritative: an object of the other schema is used
\* when it has a summary, and skipped when it has none or does not validate.
Usable(p) == p.keyed /\ p.summary /\ p.valid

\* parse_text_review_to_dict: the headings and lists of the text itself.
TextObject(body) == [body.text EXCEPT !.res = {}, !.cands = {}, !.verdict = "none"]

\* At most one: the object, else the text.
Chosen(body) ==
    LET objects == {p \in Extracted(body) : Usable(p)}
    IN IF objects # {} THEN objects ELSE {p \in {TextObject(body)} : Usable(p)}

-----------------------------------------------------------------------------
(* Hunter and critic                                                       *)

EvaluateCandidate(c) ==
    /\ c.severity # "NIT"
    /\ IF c.judged = "unjudged" THEN c.sure ELSE c.judged = "verified"

Survivors(cands) == {c \in cands : EvaluateCandidate(c)}

\* The survivors count only when the object lists no issues of its own.
WithCandidates(p) ==
    IF p.listed \/ p.cands = {} THEN p
    ELSE [p EXCEPT
            !.crit = {[item |-> c.item, trait |-> "sound"] :
                        c \in {d \in Survivors(p.cands) : d.severity \in {"CRITICAL", "HIGH"}}},
            !.minor = {[item |-> c.item, trait |-> "sound"] :
                        c \in {d \in Survivors(p.cands) : d.severity \notin {"CRITICAL", "HIGH"}}}]

\* filter_issues
CriticKeeps(i) == i.trait \notin {"nit", "tagged"}

-----------------------------------------------------------------------------
(* Normalization                                                           *)

NormVerdict(v) == IF v \in Verdicts THEN v ELSE "none"

\* Only place, text, fix and window of an issue are copied: confidence and
\* severity are lost before the critic looks for them.
NormIssue(i) == IF i.trait = "tagged" THEN [i EXCEPT !.trait = "sound"] ELSE i
Cheap(i) == i.trait \notin {"void", "costly"}
NormIssues(issues) == {NormIssue(i) : i \in {j \in issues : Cheap(j)}}

\* sanitize_status: the first of these that a status mentions.
StatusOrder == <<"FAIL", "ERROR", "UNKNOWN", "WARN", "N/A", "PASS">>
SanitizeStatus(words) ==
    LET named == {i \in 1..Len(StatusOrder) : StatusOrder[i] \in words}
    IN IF named = {} THEN "UNKNOWN"
       ELSE StatusOrder[CHOOSE i \in named : \A j \in named : i <= j]

\* The item of a dimension, if the object has one.
Claimed(words) == IF words = {"absent"} THEN "absent" ELSE SanitizeStatus(words)

\* A risk named critical is an issue, unless an issue says so already.
PromotedRisks(p) ==
    {[item |-> r.item, trait |-> "sound"] :
       r \in {s \in p.risks : s.severe /\ \A i \in NormIssues(p.crit) : i.item # s.item}}

\* The findings of an update given in one list: read when the two lists are empty.
NewFindings(p, low) ==
    IF NormIssues(p.crit) # {} \/ NormIssues(p.minor) # {} THEN {}
    ELSE {[item |-> f.item, trait |-> IF f.trait = "nit" THEN "nit" ELSE "sound"] :
            f \in {g \in p.found : g.trait # "void" /\ g.low = low}}

\* Without evidence an item is dropped; a status that is not one is RESOLVED.
NormResolutions(res) ==
    {[r EXCEPT !.status = IF @ = "UNRESOLVED" THEN @ ELSE "RESOLVED"] :
       r \in {s \in res : s.proof # "none"}}

Normalized(p, mode) ==
    [sync |-> mode = "sync",
     verdict |-> NormVerdict(p.verdict),
     crit |-> NormIssues(p.crit)
                \cup (IF mode = "sync" THEN NewFindings(p, FALSE) ELSE PromotedRisks(p)),
     minor |-> NormIssues(p.minor) \cup (IF mode = "sync" THEN NewFindings(p, TRUE) ELSE {}),
     risks |-> IF mode = "sync" THEN {} ELSE {r.item : r \in p.risks},
     res |-> IF mode = "sync" THEN NormResolutions(p.res) ELSE {},
     status |-> Claimed(p.claim),
     other |-> SanitizeStatus(p.other),
     doubts |-> p.doubts]

-----------------------------------------------------------------------------
(* What an earlier review tells: metadata.py                               *)

\* render_code_review_markdown, render_sync_review_markdown, then the stamp: a
\* text that holds the end of the comment makes the metadata unreadable, and
\* the stamp then replaces it by what it adds.
Form(cut, stamped) ==
    IF ~cut THEN "whole" ELSE IF stamped THEN "stamp" ELSE "text"

Said(obj) == {i.item : i \in obj.crit \cup obj.minor} \cup obj.risks

Rendered(obj, verdict, stamped) ==
    [state |-> CASE verdict = "REQUEST_CHANGES" -> "CHANGES_REQUESTED"
                 [] verdict = "COMMENT" -> "COMMENTED"
                 [] verdict = "APPROVE" -> "APPROVED",
     verdict |-> verdict,
     crit |-> {i.item : i \in obj.crit},
     minor |-> {i.item : i \in obj.minor},
     risks |-> obj.risks,
     marks |-> {obj.status, obj.other} \cap Grave,
     form |-> Form(Said(obj) \cap Cutting # {}, stamped)]

\* parse_legacy_review_findings: the icons of FAIL and ERROR are not stripped,
\* only a WARN row is read.
LegacyFindings(r) == r.crit \cup r.minor \cup r.risks \cup (r.marks \cap {"WARN"})

\* get_actionable_findings
FindingsOf(r) ==
    CASE r.form = "whole" -> r.crit \cup r.minor \cup r.risks \cup r.marks
      [] r.form = "stamp" -> {}
      [] r.form = "text" -> LegacyFindings(r)

HasActionable_OpenOnly(r) == r.state = "CHANGES_REQUESTED"
HasActionable(r) ==
    \/ r.state = "CHANGES_REQUESTED"
    \/ r.form # "stamp" /\ r.verdict = "REQUEST_CHANGES"
    \/ FindingsOf(r) # {}

-----------------------------------------------------------------------------
(* _finalize_enforced_review                                               *)

\* The item of a dimension whose analysis is missing, when code was touched.
Deterministic(s) == IF s.det = "missing" /\ s.diff = "code" THEN "UNKNOWN" ELSE s.det

\* apply_scorecard_floor
Floor_SparesWarn(claim, det) ==
    IF det = "missing" THEN claim ELSE IF claim \in {"absent", "PASS", "N/A"} THEN det ELSE claim
Floor(claim, det) ==
    CASE det = "missing" -> claim
      [] det # "missing" /\ claim = "absent" -> det
      [] det = "FAIL" /\ claim # "absent" -> "FAIL"
      [] det \in {"WARN", "ERROR", "UNKNOWN"} /\ claim # "absent" ->
            IF claim \in {"PASS", "N/A"} THEN det ELSE claim
      [] det \in {"PASS", "N/A"} /\ claim # "absent" -> claim

\* Resolutions of findings nobody made are cleared.
AnyPriorFindings(s) == s.listed /\ \E r \in earlier : HasActionable(r)

\* verify_resolutions: a fix the diff does not show is no fix.
Verify_Unchecked(r) == r
Verify(r) == IF r.status = "RESOLVED" /\ r.proof = "absent" THEN [r EXCEPT !.status = "UNRESOLVED"] ELSE r

Resolutions(obj, s) ==
    IF ~AnyPriorFindings(s) THEN {}
    ELSE IF s.diff = "none" THEN obj.res ELSE {Verify(r) : r \in obj.res}

Finalized(obj, s) ==
    [obj EXCEPT
        !.status = Floor(obj.status, Deterministic(s)),
        !.crit = {i \in obj.crit : CriticKeeps(i)},
        !.minor = {i \in obj.minor : CriticKeeps(i)},
        !.res = Resolutions(obj, s)]

UnresolvedCritical(r) == r.status = "UNRESOLVED" /\ r.category = "CRITICAL"

\* calculate_strict_verdict and calculate_sync_verdict
Calculated_ExplicitFirst(obj) ==
    CASE obj.verdict # "none" -> obj.verdict
      [] obj.verdict = "none" /\ obj.crit # {} -> "REQUEST_CHANGES"
      [] obj.verdict = "none" /\ obj.crit = {} -> "APPROVE"
Calculated(obj) ==
    IF \/ obj.crit # {}
       \/ \E r \in obj.res : UnresolvedCritical(r)
       \/ "FAIL" \in {obj.status, obj.other}
       \/ obj.verdict = "REQUEST_CHANGES"
    THEN "REQUEST_CHANGES"
    ELSE IF \/ obj.verdict = "COMMENT"
            \/ obj.verdict = "none" /\ {obj.status, obj.other} \cap {"WARN", "UNKNOWN", "ERROR"} # {}
    THEN "COMMENT"
    ELSE "APPROVE"

\* _handle_strict_grounding_gate
Gated(verdict, s) ==
    IF s.diff # "none" /\ s.strict /\ s.hard /\ ~s.bypass /\ verdict = "APPROVE"
    THEN "COMMENT" ELSE verdict

HasFindings(obj) ==
    \/ obj.crit # {} \/ obj.minor # {} \/ obj.risks # {} \/ obj.doubts
    \/ {obj.status, obj.other} \cap (Grave \cup {"UNKNOWN"}) # {}

IntendedRequestChanges(body, caller) == "REQUEST_CHANGES" \in {body.heading, caller}

\* The safety guardrail: only ever away from APPROVE.
Guarded(verdict, obj, body, caller) ==
    IF verdict # "APPROVE" THEN verdict
    ELSE IF IntendedRequestChanges(body, caller) THEN "REQUEST_CHANGES"
    ELSE IF body.heading = "COMMENT" \/ (caller = "COMMENT" /\ HasFindings(obj)) THEN "COMMENT"
    ELSE "APPROVE"

\* The verdict the text or the caller names is used when the object has none.
WithIntent(p, body, caller) ==
    IF p.verdict # "none" THEN p
    ELSE [p EXCEPT !.verdict = IF IntendedRequestChanges(body, caller) THEN "REQUEST_CHANGES"
                               ELSE IF body.heading = "COMMENT" THEN "COMMENT" ELSE "none"]

\* filter_echo_suggestions
WithoutEchoes(obj, s) ==
    IF s.diff = "none" THEN obj ELSE [obj EXCEPT !.minor = {i \in @ : i.trait # "echo"}]

Prepared(p, body, caller, mode) == Normalized(WithCandidates(WithIntent(p, body, caller)), mode)

-----------------------------------------------------------------------------
(* A submission                                                            *)

\* state["review_mode"], else by whether the bot has reviewed before.
Modes == IF earlier = {} THEN {"initial", "sync"} ELSE {"sync"}

\* What the properties say of a submission: the reviewer reported a critical
\* issue; it named a critical finding of an earlier review unresolved, or resolved
\* by something that is not in the diff.
KnownCritical(item) == \E r \in earlier : r.form # "stamp" /\ item \in r.crit
Noted(p, body, caller, mode, s, verdict) ==
    [verdict |-> verdict, det |-> s.det,
     intended |-> IntendedRequestChanges(body, caller),
     grave |-> \E i \in p.crit : i.trait \in {"sound", "echo"},
     standing |-> /\ mode = "sync" /\ s.listed
                  /\ \E r \in p.res : UnresolvedCritical(r) /\ r.proof # "none" /\ KnownCritical(r.item),
     unproven |-> /\ mode = "sync" /\ s.listed /\ s.diff # "none"
                  /\ \E r \in p.res : /\ r.status = "RESOLVED" /\ r.category = "CRITICAL"
                                      /\ r.proof = "absent" /\ KnownCritical(r.item)]

Post(p, body, caller, mode, s) ==
    LET obj == Finalized(Prepared(p, body, caller, mode), s)
        verdict == Guarded(Gated(Calculated(obj), s), obj, body, caller)
    IN /\ earlier' = earlier \cup {Rendered(WithoutEchoes(obj, s), verdict, s.stamped)}
       /\ last' = Noted(p, body, caller, mode, s, verdict)

\* A head is reviewed once (_submit_formal_review skips a head that has a review).
Unreviewed == last.verdict = "none" /\ rounds < MaxRounds

SubmitVerdict(body, caller, mode, s) ==
    /\ rounds' = rounds + 1
    /\ \E p \in Chosen(body) : Post(p, body, caller, mode, s)

\* ValueError: the claim is released and nothing is posted.
Unparseable(body) ==
    /\ rounds' = rounds + 1
    /\ Chosen(body) = {}
    /\ last' = NoVerdictYet
    /\ UNCHANGED earlier

\* An objection is dismissed, by the bot when a later head is approved or by a
\* maintainer.
Dismiss(r) ==
    /\ r.state = "CHANGES_REQUESTED"
    /\ last.verdict = "none"
    /\ earlier' = (earlier \ {r}) \cup {[r EXCEPT !.state = "DISMISSED"]}
    /\ UNCHANGED <<rounds, last>>

\* The author pushes: there is a new head to review.
NextHead ==
    /\ last.verdict # "none"
    /\ last' = NoVerdictYet
    /\ UNCHANGED <<earlier, rounds>>

VerdictNext ==
    \/ /\ Unreviewed
       /\ \E body \in Bodies, caller \in Callers, mode \in Modes, s \in Settings :
             SubmitVerdict(body, caller, mode, s)
    \/ Unreviewed /\ \E body \in Bodies : Unparseable(body)
    \/ \E r \in earlier : Dismiss(r)
    \/ NextHead

VerdictSpec == VerdictInit /\ [][VerdictNext]_verdictVars

-----------------------------------------------------------------------------
(* Properties                                                              *)

\* A deterministic FAIL blocks, whatever the reviewer claims of the dimension,
\* whatever verdict it names and whichever object of its text is used
\* (review_enforcer.py:211-220).
FailBlocks == last.verdict # "none" /\ last.det = "FAIL" => last.verdict = "REQUEST_CHANGES"

\* A review that asks for changes, by its event or by its heading, never ends up
\* as an approval (review_enforcer.py:527-529).
NeverUpgraded == last.intended => last.verdict # "APPROVE"

\* A critical issue that is neither void nor costly nor a nit blocks, although
\* the object says APPROVE.
CriticalBlocks == last.verdict # "none" /\ last.grave => last.verdict = "REQUEST_CHANGES"

\* A critical finding of an earlier review that the reviewer reports unresolved
\* blocks, although that review was dismissed or came before the metadata: the
\* guard against made-up resolutions lets it pass (review_enforcer.py:350-367).
StandingCriticalBlocks == last.standing => last.verdict = "REQUEST_CHANGES"

\* A critical finding of an earlier review is not resolved by evidence the diff
\* does not show (grounding/resolutions.py:100-117).
UnprovenFixBlocks == last.unproven => last.verdict = "REQUEST_CHANGES"

\* "Existing keys are preserved" (metadata.py:61): the stamped review still tells
\* what it found.
StampKeepsFindings ==
    \A r \in earlier : r.crit \cup r.minor \cup r.risks \subseteq FindingsOf(r)
=============================================================================
