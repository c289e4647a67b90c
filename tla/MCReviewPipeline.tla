--------------------------- MODULE MCReviewPipeline ---------------------------
(* The verdict of a review and its inline comments, which share no state:      *)
(* subject is the one that a behaviour is about, the other stays as it is.     *)
EXTENDS ReviewVerdict, ReviewComments

VARIABLE subject

pipelineVars == <<subject, verdictVars, commentVars>>

-----------------------------------------------------------------------------
(* Texts: one unusual thing at a time, with and without an explicit verdict.   *)

Issue(x, t) == [item |-> x, trait |-> t]
Candidate(x, sev, sure, j) == [item |-> x, severity |-> sev, sure |-> sure, judged |-> j]
Resolution(x, st, cat, pr) == [item |-> x, status |-> st, category |-> cat, proof |-> pr]

Blank == [keyed |-> TRUE, valid |-> TRUE, summary |-> TRUE, listed |-> TRUE, verdict |-> "none",
          crit |-> {}, minor |-> {}, found |-> {}, cands |-> {}, risks |-> {}, res |-> {},
          claim |-> {"PASS"}, other |-> {"PASS"}, doubts |-> FALSE]
Approving == [Blank EXCEPT !.verdict = "APPROVE"]
Objecting == [Blank EXCEPT !.crit = {Issue("x", "sound")}]
NoText == [Blank EXCEPT !.keyed = FALSE]

Contents ==
    {Blank, [Blank EXCEPT !.crit = {Issue("y", "sound")}]}
    \cup {[Blank EXCEPT !.crit = {Issue("x", t)}] :
            t \in {"sound", "tagged", "nit", "void", "costly", "echo"}}
    \cup {[Blank EXCEPT !.minor = {Issue(x, t)}] : x \in {"x", "y"}, t \in {"sound", "echo"}}
    \cup {[Blank EXCEPT !.risks = {[item |-> "x", severe |-> b]}] : b \in BOOLEAN}
    \cup {[Blank EXCEPT !.found = {[item |-> "x", trait |-> t, low |-> b]}, !.minor = m] :
            b \in BOOLEAN, t \in {"sound", "nit"}, m \in {{}, {Issue("y", "sound")}}}
    \cup {[Blank EXCEPT !.listed = FALSE, !.cands = {Candidate("x", sev, su, j)}] :
            sev \in {"HIGH", "LOW"}, su \in BOOLEAN, j \in {"unjudged", "verified", "disproved"}}
    \cup {[Blank EXCEPT !.listed = b, !.cands = {Candidate("x", "NIT", TRUE, "verified")}] :
            b \in BOOLEAN}
    \cup {[Blank EXCEPT !.res = {Resolution("x", st, cat, pr)}] :
            st \in {"RESOLVED", "UNRESOLVED", "PARTIAL"}, cat \in {"CRITICAL", "SUGGESTION"},
            pr \in {"none", "absent", "diff"}}

\* What a text claims of a dimension, and the verdict it names.
Wordings == [claim : {{"PASS"}, {"PASS", "FAIL"}, {"WARN"}, {"absent"}, {"N/A"}, {}},
             verdict : {"none", "APPROVE", "COMMENT", "REQUEST_CHANGES", "unknown"}]
Plain == [claim : {{"PASS"}}, verdict : {"none", "APPROVE"}]
Worded(p, w) == [p EXCEPT !.claim = w.claim, !.verdict = w.verdict]

Payloads == {Worded(p, w) : p \in Contents, w \in Plain}
            \cup {Worded(p, w) : p \in {Blank, Objecting}, w \in Wordings}

Block(f, d) == [form |-> f, data |-> d]
Body(h, bs, t) == [heading |-> h, blocks |-> bs, text |-> t]

MCBodies ==
    {Body("none", <<Block("object", p)>>, NoText) : p \in Payloads}
    \cup {Body(h, <<Block(f, Approving)>>, t) :
            h \in {"none", "COMMENT", "REQUEST_CHANGES"},
            f \in {"garbled", "repaired", "list", "object"}, t \in {NoText, Blank, Objecting}}
    \cup {Body("none", <<Block("garbled", Blank), Block("object", q)>>, Blank) :
            q \in {NoText, [Objecting EXCEPT !.valid = FALSE], Approving}}

-----------------------------------------------------------------------------
(* What surrounds a submission, and what a pull request may start with.        *)

Usual == [det |-> "PASS", diff |-> "code", listed |-> TRUE, hard |-> FALSE, strict |-> TRUE,
          bypass |-> FALSE, stamped |-> TRUE]
MCSettings ==
    {[Usual EXCEPT !.det = d] : d \in {"missing", "PASS", "WARN", "FAIL", "UNKNOWN", "N/A"}}
    \cup {[Usual EXCEPT !.diff = d, !.det = "missing"] : d \in {"none", "docs"}}
    \cup {[Usual EXCEPT !.diff = "none", !.det = "FAIL"]}
    \cup {[Usual EXCEPT !.listed = FALSE], [Usual EXCEPT !.stamped = FALSE]}
    \cup {[Usual EXCEPT !.hard = TRUE, !.strict = a, !.bypass = ~a] : a \in BOOLEAN}
    \cup {[Usual EXCEPT !.hard = TRUE]}

Old == [state |-> "DISMISSED", verdict |-> "none", crit |-> {"x"}, minor |-> {}, risks |-> {},
        marks |-> {}, form |-> "text"]
MCLegacies == {{}, {Old}, {[Old EXCEPT !.crit = {}, !.state = "COMMENTED", !.marks = {"FAIL"}]}}

-----------------------------------------------------------------------------
(* Diffs: small and large files, noise, a file beyond the byte budget.          *)

File(noise, bytes, churn, added, text) ==
    [noise |-> noise, bytes |-> bytes, churn |-> churn, added |-> added, text |-> text]
Code == <<"import", "return", Empty, "x = 1", "returnNone", "f()", "g()", "h()">>
Module == <<"import", "x = 1">>
MCBegins == {<<"return", "returnNone">>}
MCDiffs ==
    {<<File(FALSE, 3, 40, {2, 4, 8}, Code)>>,
     <<File(FALSE, 3, 300, {1, 5, 8}, Code), File(FALSE, 3, 10, {2}, Module)>>,
     <<File(TRUE, 3, 900, {1}, Code), File(FALSE, 9, 120, {1, 2}, Module)>>}

(* Findings: plain ones; the same one with and without its fix; windows of one   *)
(* and of two rows that have moved, or that no place has; a range; echoes of the *)
(* diff; repetitions; too many.                                                  *)

About(topic) == {topic, topic \o " when", topic \o " where"}
On(file, line, topic) ==
    [file |-> file, line |-> line, start |-> 0, window |-> {}, says |-> topic,
     words |-> About(topic), remark |-> FALSE, minor |-> FALSE, code |-> <<"fixed()">>,
     codeWords |-> {"fixed", "name", "value", "other"}, valid |-> TRUE, grouped |-> FALSE]
Here(line, topic) == On(1, line, topic)
Quoting(x, rows) == [x EXCEPT !.window = {[at |-> r[1], text |-> r[2]] : r \in rows}]
Repeating(x) == [x EXCEPT !.code = <<"x = 1">>]
MCFindings ==
    {<<Here(8, "t3"), Here(2, "t4"), Here(5, "t5")>>,
     <<Quoting(Here(3, "t1"), {<<3, "returnNone">>}),
       [Quoting(Here(6, "t3"), {<<5, "x = 1">>}) EXCEPT !.valid = FALSE]>>,
     <<Quoting(Here(7, "t6"), {<<5, "returnNone">>, <<8, "k()">>}),
       [Quoting(Here(3, "t2"), {<<3, "x = 1">>}) EXCEPT !.start = 2, !.code = <<"y = 1", "z = 2">>]>>,
     <<Quoting(On(2, 1, "t2"), {<<1, "x = 1">>}),
       [Repeating(On(2, 2, "t4")) EXCEPT !.remark = TRUE], Repeating(On(2, 2, "t6"))>>,
     <<Here(2, "t1"), [Here(8, "t1") EXCEPT !.words = @ \cup {"else"}], Here(5, "t2"), Here(4, "t1")>>,
     <<Here(5, "t7"), Here(8, "t8"), Here(1, "t9"), Here(1, "t10"), Here(5, "t11"), Here(8, "t12")>>}

-----------------------------------------------------------------------------
SmallDiff == <<File(FALSE, 3, 40, {2, 4, 8}, Code)>>

PipelineInit ==
    /\ subject \in {"verdict", "comments"}
    /\ VerdictInit /\ CommentsInit
    /\ subject # "verdict" => earlier = {}
    /\ subject # "comments" => diff = SmallDiff

PipelineNext ==
    \/ subject = "verdict" /\ VerdictNext /\ UNCHANGED <<subject, commentVars>>
    \/ subject = "comments" /\ CommentsNext /\ UNCHANGED <<subject, verdictVars>>

PipelineSpec == PipelineInit /\ [][PipelineNext]_pipelineVars
=============================================================================
