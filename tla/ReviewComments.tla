---------------------------- MODULE ReviewComments ----------------------------
(***************************************************************************)
(* The inline comments of one pull request, review after review: the diff  *)
(* without its noise (analysis/diff_filter.py), how many comments a review *)
(* may post (models/review_budget.py), where a finding is anchored         *)
(* (tools/diff_tools.py, review/comment_poster.py) and which findings are  *)
(* left out as repeated or raised before (review/duplicate_detector.py).   *)
(*                                                                         *)
(* A line of code is one of a few texts, without its blanks, and Begins    *)
(* says which of them the comparison of the code takes for each other; a   *)
(* description and a fix are their words.                                  *)
(***************************************************************************)
EXTENDS Integers, Sequences, FiniteSets
Sets == INSTANCE FiniteSetsExt

CONSTANTS
    Diffs,          \* diffs of the heads: sequences of [noise, bytes, churn, added, text]
    FindingLists,   \* sequences of findings an audit may report
    Begins,         \* pairs of texts of which the first, six characters or more, begins the second
    MaxBytes,       \* byte budget of the filtered diff on the active tier
    LifetimeCap,    \* 25
    GroupThreshold, \* 3
    Proximity,      \* 2
    MaxDrift,       \* 5
    MaxReviews      \* bound of the number of reviews

\* A line that is not in a hunk has the text NotShown, an empty one the text Empty.
NotShown == ""
Empty == " "

FileType == [noise : BOOLEAN, bytes : Nat, churn : Nat, added : SUBSET Nat, text : Seq(STRING)]

\* A finding names a line, or the lines from start (0: none) to it, and may quote
\* numbered rows of the diff, its window. Its description is one line, which reads
\* says when it is taken for code and has certain words; remark, when it starts
\* like one. Its fix has no empty lines and no fence. The notes of the grouping
\* are added to it later.
Row == [at : Nat, text : STRING]
FindingType ==
    [file : Nat, line : Nat, start : Nat, window : SUBSET Row, says : STRING,
     words : SUBSET STRING, remark : BOOLEAN, minor : BOOLEAN, code : Seq(STRING),
     codeWords : SUBSET STRING, valid : BOOLEAN, grouped : BOOLEAN]

ASSUME CommentsAssumption ==
    /\ {MaxBytes, LifetimeCap, Proximity, MaxDrift, MaxReviews} \subseteq Nat
    /\ GroupThreshold \in Nat \ {0, 1}
    /\ LifetimeCap >= 5    \* a first review is not checked against it
    /\ Diffs \subseteq Seq(FileType)
    /\ FindingLists \subseteq Seq(FindingType)
    /\ Begins \subseteq STRING \X STRING
    \* the lines a diff adds are shown in it
    /\ \A d \in Diffs : \A f \in 1..Len(d) : \A n \in d[f].added :
          n \in DOMAIN d[f].text /\ d[f].text[n] # NotShown

VARIABLES
    diff,       \* the diff of the head
    reviewed,   \* reviews posted, one per head
    onHead,     \* the head has its review
    comments,   \* the bot's comments
    complete    \* every list of every review so far was read to its end (for the properties)

commentVars == <<diff, reviewed, onHead, comments, complete>>

\* A comment carries the line GitHub shows it at (NoLine when the code is gone),
\* the lines it was posted at (start is 0 for one line), the words of its body and
\* whether it offers a change to apply; fresh when GitHub attributes it to the head
\* of the last review. For the properties it keeps the words of the description
\* and the extent of the finding, its round, and whether it was faithful.
NoLine == 0

CommentsInit ==
    /\ diff \in Diffs
    /\ reviewed = 0
    /\ onHead = FALSE
    /\ comments = <<>>
    /\ complete = TRUE

-----------------------------------------------------------------------------
(* filter_review_diff                                                      *)

Kept(d) == {f \in 1..Len(d) : ~d[f].noise}

Churn(d) == Sets!MapThenSumSet(LAMBDA f : d[f].churn, Kept(d))
Bytes(d, S) == Sets!MapThenSumSet(LAMBDA f : d[f].bytes, S)

\* The kept files in order while they fit, the first one however large.
Shown(d) ==
    {f \in Kept(d) : \A g \in {h \in Kept(d) : h <= f} :
        LET before == {h \in Kept(d) : h < g}
        IN before = {} \/ Bytes(d, before \cup {g}) <= MaxBytes}

\* budget_for
BudgetFor(churn) == IF churn <= 50 THEN 2 ELSE IF churn <= 200 THEN 3 ELSE 5
InitialBudget(d) == IF Kept(d) # {} /\ Churn(d) > 0 THEN BudgetFor(Churn(d)) ELSE 0

\* filtered_diff or raw_diff
Visible(d) == IF Shown(d) # {} THEN Shown(d) ELSE 1..Len(d)

-----------------------------------------------------------------------------
(* compute_round_allowance                                                 *)

Minimum(a, b) == IF a < b THEN a ELSE b
Maximum(a, b) == IF a > b THEN a ELSE b

\* floor(basis * decay ** (round - 1)), where decay is 3 / 5.
Decayed(basis, round) ==
    Sets!Max({0} \cup {n \in 1..basis : n * 5 ^ (round - 1) <= basis * 3 ^ (round - 1)})

Allowance_Uncapped(round, previous, total, initial) ==
    IF total >= LifetimeCap THEN 0
    ELSE IF round <= 1 THEN initial
    ELSE Maximum(1, Decayed(IF previous > 0 THEN previous ELSE initial, round))
Allowance(round, previous, total, initial) ==
    IF total >= LifetimeCap THEN 0
    ELSE Minimum(LifetimeCap - total,
                 IF round <= 1 THEN initial
                 ELSE Maximum(1, Decayed(IF previous > 0 THEN previous ELSE initial, round)))

\* None: the diff could not be read.
Unlimited == 1000

\* The allowance of a review whose lists failed is that of a first review.
Budget(read) ==
    IF ~read.files THEN Unlimited
    ELSE IF ~read.reviews \/ reviewed = 0 \/ read.comments < Len(comments) THEN InitialBudget(diff)
    ELSE Allowance(reviewed + 1, Cardinality({c \in 1..Len(comments) : comments[c].fresh}),
                   Len(comments), InitialBudget(diff))

-----------------------------------------------------------------------------
(* The texts of the diff                                                   *)

TextAt(d, f, n) == IF n \in DOMAIN d[f].text THEN d[f].text[n] ELSE NotShown

\* The lines of code shown from one line to another.
CodeWithin(d, f, from, to) ==
    SelectSeq(SubSeq(d[f].text, from, Minimum(to, Len(d[f].text))),
              LAMBDA t : t \notin {NotShown, Empty})

\* A fix that repeats the range it is for, the lines up to the one it is on, or
\* those that follow.
Echoes(d, x, n) ==
    LET k == Len(x.code)
        range == CodeWithin(d, x.file, Minimum(x.start, n), Maximum(x.start, n))
        follow == CodeWithin(d, x.file, n, Len(d[x.file].text))
    IN /\ k > 0
       /\ \/ x.start \notin {0, n} /\ range = x.code
          \/ \A i \in 1..k : TextAt(d, x.file, n - k + i) = x.code[i]
          \/ k > 1 /\ Len(follow) >= k /\ SubSeq(follow, 1, k) = x.code

-----------------------------------------------------------------------------
(* Which findings the loop goes over: filter_echo_suggestions on the minor *)
(* ones, group_repeated_findings, filter_invalid_ast_suggestions           *)

\* Words in common, in per cent of all words.
Similar(a, b, percent) ==
    /\ a \cup b # {}
    /\ 100 * Cardinality(a \cap b) >= percent * Cardinality(a \cup b)

Reported(d, fs) ==
    {i \in 1..Len(fs) :
        ~(fs[i].minor /\ fs[i].file \in Visible(d) /\ Echoes(d, fs[i], fs[i].line))}

\* The places that open a cluster: their descriptions are not those of one before.
Leads(fs, places) ==
    LET SameDefect(i, j) == Similar(fs[i].words, fs[j].words, 60)
        leads[i \in 0..Len(fs)] ==
            IF i = 0 THEN {}
            ELSE LET before == leads[i - 1]
                 IN IF i \in places /\ \A j \in before : ~SameDefect(i, j)
                    THEN before \cup {i} ELSE before
    IN leads[Len(fs)]

\* Every place with the lead of its cluster, the first that it is similar to.
Clusters(fs, places) ==
    LET leads == Leads(fs, places)
        Fits(i) == {j \in places : \/ j = i
                                   \/ j < i /\ j \in leads /\ Similar(fs[i].words, fs[j].words, 60)}
    IN [i \in places |-> IF Cardinality(places) < GroupThreshold THEN i ELSE Sets!Min(Fits(i))]

\* One comment for a cluster of three; clusters in the order of their leads.
Repeated(lead, i) == Cardinality({j \in DOMAIN lead : lead[j] = lead[i]}) >= GroupThreshold
Stays(lead) == {i \in DOMAIN lead : Repeated(lead, i) => i = lead[i]}
UpTo(lead, i) == {j \in Stays(lead) : lead[j] < lead[i] \/ (lead[j] = lead[i] /\ j <= i)}
Grouped(fs, lead) ==
    [k \in 1..Cardinality(Stays(lead)) |->
        LET i == CHOOSE i \in Stays(lead) : Cardinality(UpTo(lead, i)) = k
        IN [fs[i] EXCEPT !.grouped = Repeated(lead, i)]]

ValidFix(x) == IF x.valid THEN x ELSE [x EXCEPT !.code = <<>>]
Processed(d, fs) ==
    LET g == Grouped(fs, Clusters(fs, Reported(d, fs))) IN [i \in 1..Len(g) |-> ValidFix(g[i])]

-----------------------------------------------------------------------------
(* Anchors: walk_right_side, check_window                                  *)

\* The context of a finding: its window, else its fix, else its description with
\* the note of the grouping two lines further.
GroupNote == "(Same thing in"
Rows(x) ==
    IF x.window # {} THEN x.window
    ELSE IF x.code # <<>> THEN {[at |-> x.line + i - 1, text |-> x.code[i]] : i \in 1..Len(x.code)}
    ELSE {[at |-> x.line, text |-> x.says]}
         \cup (IF x.grouped THEN {[at |-> x.line + 2, text |-> GroupNote]} ELSE {})

Agrees(want, have) == want = have \/ {<<want, have>>, <<have, want>>} \cap Begins # {}

\* The rows that claim something of a line the diff shows, read so many lines further.
Telling(d, x, offset) ==
    {r \in Rows(x) : r.text # Empty /\ TextAt(d, x.file, r.at + offset) # NotShown}
MatchesAt_SomeRow(d, x, offset) ==
    \E r \in Telling(d, x, offset) : Agrees(r.text, TextAt(d, x.file, r.at + offset))
MatchesAt(d, x, offset) ==
    /\ Telling(d, x, offset) # {}
    /\ \A r \in Telling(d, x, offset) : Agrees(r.text, TextAt(d, x.file, r.at + offset))

\* 0, 1, -1, 2, -2, ...
Distance(m, n) == IF m < n THEN n - m ELSE m - n
Offsets == (0 - MaxDrift)..MaxDrift
Sooner(o, p) == Distance(o, 0) < Distance(p, 0) \/ (Distance(o, 0) = Distance(p, 0) /\ o >= p)
WindowOffset(d, x) ==
    LET matching == {o \in Offsets : MatchesAt(d, x, o)}
    IN {o \in matching : \A p \in matching : Sooner(o, p)}

\* The quoted line nearest to a line, the first of two.
Snapped(x, offset) ==
    LET quoted == {r.at + offset : r \in Rows(x)}
        away(n) == Distance(n, x.line + offset)
    IN {n \in quoted : \A m \in quoted : away(n) < away(m) \/ (away(n) = away(m) /\ n <= m)}

\* The line of a finding: its own when the diff adds it, else that of the code it
\* quotes, when the diff adds that one.  Empty: no anchor.
Anchor(d, x) ==
    IF x.file \notin Visible(d) THEN {}
    ELSE IF x.line \in d[x.file].added THEN {x.line}
    ELSE (UNION {Snapped(x, o) : o \in WindowOffset(d, x)}) \cap d[x.file].added

-----------------------------------------------------------------------------
(* build_github_review_comments                                            *)

\* The range is kept when the diff adds its first line as well.
IsMultiline(d, x, n) == x.start # 0 /\ x.start < n /\ x.start \in d[x.file].added

\* The body as the comparison sees it: the note of the grouping is taken off its
\* end, and stays when a fix follows it.
NoteWords == {"thing", "places", "review"}
Fence(fix, multiline) == IF Len(fix) > 1 /\ ~multiline THEN "python" ELSE "suggestion"
BodyWords(x, fix, multiline) ==
    IF fix = <<>> THEN x.words
    ELSE x.words \cup x.codeWords \cup (IF x.grouped THEN NoteWords ELSE {})
         \cup {Fence(fix, multiline)}

\* On the line its finding names, or on one that agrees with a row it quotes.
Faithful(d, x, n) ==
    /\ x.file \in Visible(d) /\ n \in d[x.file].added
    /\ n # x.line => \E r \in Rows(x) : /\ n - r.at \in Offsets
                                        /\ r.text = Empty \/ Agrees(r.text, TextAt(d, x.file, n))

\* A fix that repeats the diff is left out.  The round is that of the review that
\* posts the comment.
CommentOn(d, x, n) ==
    LET fix == IF Echoes(d, x, n) THEN <<>> ELSE x.code
        multiline == IsMultiline(d, x, n)
    IN [file |-> x.file, line |-> n, orig |-> n, start |-> IF multiline THEN x.start ELSE 0,
        words |-> BodyWords(x, fix, multiline),
        suggests |-> fix # <<>> /\ Fence(fix, multiline) = "suggestion",
        fresh |-> TRUE, round |-> 0, about |-> x.words, extent |-> x.line - x.start,
        faithful |-> Faithful(d, x, n)]

\* What there is to say of a finding, before it is compared with what was said:
\* nothing when it has no anchor, or when it only remarks on a fix that repeats the diff.
Draft(d, x) ==
    {CommentOn(d, x, n) : n \in {m \in Anchor(d, x) : ~(Echoes(d, x, m) /\ x.remark)}}

ToSay(d, xs) == [i \in 1..Len(xs) |-> Draft(d, xs[i])]

\* A table of constants, which TLC computes once.
Drafts == [d \in Diffs |-> [fs \in FindingLists |-> ToSay(d, Processed(d, fs))]]

\* line or original_line
LineOf(c) == IF c.line # NoLine THEN c.line ELSE c.orig

\* Near a comment there is, or in similar words; those of the fix count as well.
Near(c, e) == e.file = c.file /\ LineOf(e) - c.line \in (0 - Proximity)..Proximity
AlreadyRaised_Near(c, existing) == \E i \in 1..Len(existing) : Near(c, existing[i])
AlreadyRaised(c, existing) ==
    \E i \in 1..Len(existing) : Near(c, existing[i]) \/ Similar(c.words, existing[i].words, 55)

\* The loop over the findings: left at the budget, otherwise one comment for each
\* finding that has one and was not raised before.
AddComment(existing, budget, posted, draft) ==
    IF Len(posted) >= budget \/ draft = {} THEN posted
    ELSE LET c == CHOOSE c \in draft : TRUE
         IN IF AlreadyRaised(c, existing) THEN posted
            ELSE Append(posted, [c EXCEPT !.round = reviewed + 1])

Comments(fs, existing, budget) ==
    LET drafts == Drafts[diff][fs]
        posted[i \in 0..Len(drafts)] ==
            IF i = 0 THEN <<>> ELSE AddComment(existing, budget, posted[i - 1], drafts[i])
    IN posted[Len(drafts)]

\* read: whether the lists of reviews and files were read, and how many comments
\* were before the listing broke.
Review(fs, read) ==
    /\ ~onHead
    /\ reviewed < MaxReviews
    /\ LET posted == Comments(fs, SubSeq(comments, 1, read.comments), Budget(read))
           old == [i \in 1..Len(comments) |-> [comments[i] EXCEPT !.fresh = FALSE]]
       IN comments' = old \o posted
    /\ reviewed' = reviewed + 1
    /\ onHead' = TRUE
    /\ complete' = (complete /\ read.files /\ read.reviews /\ read.comments = Len(comments))
    /\ UNCHANGED diff

\* A push: the code moves under the comments, some of it goes; GitHub attributes
\* the comments that still stand to the new head, some tools see them there.
Move(c, by, gone) == [c EXCEPT !.line = IF c.line \in {NoLine} \cup gone THEN NoLine ELSE c.line + by]

PushHead(d, by, gone) ==
    /\ onHead
    /\ diff' = d
    /\ onHead' = FALSE
    /\ comments' = [i \in 1..Len(comments) |-> Move(comments[i], by, gone)]
    /\ UNCHANGED <<reviewed, complete>>

\* The comments of earlier rounds that still stand follow the head.
Reattribute ==
    /\ onHead
    /\ \E i \in 1..Len(comments) : ~comments[i].fresh /\ comments[i].line # NoLine
    /\ comments' = [i \in 1..Len(comments) |->
                      [comments[i] EXCEPT !.fresh = @ \/ comments[i].line # NoLine]]
    /\ UNCHANGED <<diff, reviewed, onHead, complete>>

\* Every list is read, or one fails; one failure per pull request bounds the model.
Whole == [files |-> TRUE, reviews |-> TRUE, comments |-> Len(comments)]
Reads ==
    {Whole} \cup (IF ~complete THEN {}
                  ELSE {[Whole EXCEPT !.files = FALSE], [Whole EXCEPT !.reviews = FALSE]}
                       \cup {[Whole EXCEPT !.comments = n] : n \in 0..Len(comments)})

CommentsNext ==
    \/ \E fs \in FindingLists, read \in Reads : Review(fs, read)
    \/ \E d \in Diffs, by \in 0..1, gone \in {{}, diff[1].added} : PushHead(d, by, gone)
    \/ Reattribute

CommentsSpec == CommentsInit /\ [][CommentsNext]_commentVars

-----------------------------------------------------------------------------
(* Properties                                                              *)

\* "enforcing a lifetime cap per pull request" (review_budget.py:40): while the
\* lists can be read, the reviews of a pull request post no more than that,
\* however its diff grows and wherever GitHub attributes the comments.
LifetimeCapHolds == complete => Len(comments) <= LifetimeCap

\* What a comment says, its fix included, no later review says again in similar
\* words, although the code has moved or gone since (duplicate_detector.py:140-188).
NotRaisedAgain ==
    complete => \A i, j \in 1..Len(comments) :
        Similar(comments[i].words, comments[j].words, 55) => comments[i].round = comments[j].round

\* "suppresses duplicates from past comments" (comment_poster.py:189): the same
\* description does not come back in a later review, whatever fix comes with it.
FindingRaisedOnce ==
    complete => \A i, j \in 1..Len(comments) :
        comments[i].about = comments[j].about => comments[i].round = comments[j].round

\* A comment stands on a line its diff adds, and when that is not the line the
\* finding names, on code that agrees with a row the finding quotes for that place,
\* as far as the code compares texts: one may begin the other (comment_poster.py:232-256,
\* diff_tools.py:111-171).
CommentsFaithful == \A i \in 1..Len(comments) : comments[i].faithful

\* "multi-line changes with verified range anchors" (comment_poster.py:148): a change
\* offered for a range replaces as many lines as its finding names.
RangeKept ==
    \A i \in 1..Len(comments) :
        comments[i].suggests /\ comments[i].start # 0
            => comments[i].orig - comments[i].start = comments[i].extent
=============================================================================
