---------------------------- MODULE SlackMessage ----------------------------
(***************************************************************************)
(* What a poke says and what a digest lists (slack-message.ts): the sentence  *)
(* made of a merged batch, the message it goes out as, what later news makes    *)
(* of that message, and how a digest's rows are laid into sections.  Wording is  *)
(* kept as far as it makes a claim: who did what, to how many, and with what      *)
(* mark.  Sizes are in characters, because Slack turns down what is too long.      *)
(***************************************************************************)
EXTENDS ReviewMerge, SequencesExt

CONSTANTS
    Reviewers,  \* people who may review while a request stands, and what they may decide
    Digests     \* [team, others : sequences of widths]: the rows of a digest, oldest first

\* A row's title is cut at eighty letters, which escaping may make five each of; what else is on it (a number,
\* a repository's name, a login, two links) is as long as GitHub lets it be.
MaxRow == 1000

ASSUME DigestsAssumption ==
    \A d \in Digests : DOMAIN d = {"team", "others"} /\ {d.team, d.others} \subseteq Seq(1 .. MaxRow)

VARIABLES
    news,    \* PokeMessageState: the resolution of a sent request, and who has reviewed it
    digest   \* the rows of the digest that is sent

messageVars == <<kind, notifications, news, digest>>

NoVerb == "none"
NoNews == [resolution |-> "none", reviewers |-> <<>>]
NoDigest == [team |-> <<>>, others |-> <<>>]

----------------------------------------------------------------------------
\* The sentence: clauses, each a verb, how many it tells of and what joins it to the link.
Clause(verb, preposition) == [verb |-> verb, n |-> 1, mentioned |-> FALSE, preposition |-> preposition]

LEAD(piece) ==
    CASE piece.type = "review_requested" ->
            Clause(IF piece.team = NoTeam THEN "requested your review" ELSE "requested the team's review", "on")
      [] piece.type = "review_submitted"     -> Clause("reviewed", NoVerb)
      [] piece.type = "comment_reply"        -> Clause("replied", "on")
      [] piece.type = "pull_request_comment" -> Clause("commented", "on")
      [] piece.type = "pull_request_mention" -> [Clause("mentioned you", "on") EXCEPT !.mentioned = TRUE]

REVIEW(state) ==
    CASE state = "approved"          -> [icon |-> "tick", clause |-> Clause("approved", NoVerb)]
      [] state = "changes_requested" -> [icon |-> "cross", clause |-> Clause("requested changes", "on")]

LEAD_ICON(type) ==
    CASE type = "review_requested"                                              -> "eyes"
      [] type \in {"review_submitted", "pull_request_comment", "comment_reply"} -> "speech"
      [] OTHER                                                                  -> "none"

\* Only a submitted review has a verdict: someone mentioned in an approval is told of the mention.
hasVerdict(piece) == piece.type = "review_submitted" /\ isReviewVerdict(piece.state)

\* Mutant of commentClause: one comment alone is counted too.
commentClause_CountsOne(comments, hasReview) ==
    IF comments = NoComments THEN <<>>
    ELSE <<[verb |-> IF comments.mentioned THEN "mentioned you" ELSE "left comments", n |-> comments.count,
            mentioned |-> comments.mentioned, preposition |-> "on"]>>

\* Silent about a single comment with nothing in front of it.
commentClause(comments, hasReview) ==
    IF comments = NoComments THEN <<>>
    ELSE IF comments.count = 1 /\ ~hasReview THEN <<>>
    ELSE <<[verb |-> IF comments.mentioned THEN "mentioned you" ELSE "left comments", n |-> comments.count,
            mentioned |-> comments.mentioned, preposition |-> "on"]>>

\* Mutant of leadClauses: the counts are left out where the review decided.
leadClauses_VerdictAlone(lead, comments) ==
    IF hasVerdict(lead) THEN <<REVIEW(lead.state).clause>>
    ELSE LET rest == commentClause(comments, lead.type = "review_submitted")
         IN  IF lead.type = "review_submitted" THEN <<LEAD(lead)>> \o rest
             ELSE IF rest # <<>> THEN rest ELSE <<LEAD(lead)>>

leadClauses(lead, comments) ==
    LET first == IF hasVerdict(lead) THEN <<REVIEW(lead.state).clause>>
                 ELSE IF lead.type = "review_submitted" THEN <<LEAD(lead)>> ELSE <<>>
        rest  == commentClause(comments, first # <<>>)
    IN  IF first \o rest # <<>> THEN first \o rest ELSE <<LEAD(lead)>>

sentence(clauses) ==
    [verbs |-> [i \in DOMAIN clauses |-> [verb |-> clauses[i].verb, n |-> clauses[i].n,
                                          mentioned |-> clauses[i].mentioned]],
     preposition |-> clauses[Len(clauses)].preposition]

leadIcon(piece) == IF hasVerdict(piece) THEN REVIEW(piece.state).icon ELSE LEAD_ICON(piece.type)

----------------------------------------------------------------------------
\* The message, and what later news makes of it.
RESOLUTION(k) ==
    CASE k \in {"approved", "changes_requested"} -> [label |-> "Reviewed by", icon |-> "tick"]
      [] k = "merged"                            -> [label |-> "Merged by", icon |-> "tick"]
      [] k = "closed"                            -> [label |-> "Closed by", icon |-> "barred"]
      [] k = "removed"                           -> [label |-> "Withdrawn by", icon |-> "barred"]

reviewerMark(reviewer) == IF isReviewVerdict(reviewer.verdict) THEN REVIEW(reviewer.verdict).icon ELSE "speech"

reviewedLabel(reviewers) ==
    [label |-> "Reviewed by", icons |-> [i \in DOMAIN reviewers |-> reviewerMark(reviewers[i])]]

\* Mutant of footer: the roster wins over what settled the request.
footer_Roster(state) ==
    IF state.reviewers # <<>> THEN reviewedLabel(state.reviewers)
    ELSE IF state.resolution # "none"
         THEN [label |-> RESOLUTION(state.resolution).label, icons |-> <<RESOLUTION(state.resolution).icon>>]
    ELSE [label |-> "none", icons |-> <<>>]

footer(state) ==
    IF state.resolution # "none"
    THEN [label |-> RESOLUTION(state.resolution).label, icons |-> <<RESOLUTION(state.resolution).icon>>]
    ELSE IF state.reviewers # <<>> THEN reviewedLabel(state.reviewers)
    ELSE [label |-> "none", icons |-> <<>>]

\* The banner Slack shows instead of the blocks carries the same, the outcome in front.
buildPokeMessage(lead, excerpt, comments, state) ==
    LET settled == state.resolution # "none"
    IN  [struck  |-> settled,
         bold    |-> ~settled,
         icon    |-> leadIcon(lead),
         deed    |-> sentence(leadClauses(lead, comments)),
         excerpt |-> excerpt,
         footer  |-> footer(state),
         banner  |-> IF settled THEN <<footer(state).label, "lead">>
                     ELSE IF state.reviewers # <<>> THEN <<"lead", footer(state).label>>
                     ELSE <<"lead">>]

\* A request goes out as one of its pieces, a review as what its pieces were merged into.
Message == IF kind = "request" THEN buildPokeMessage(MergedPoke, NoWords, NoComments, news)
           ELSE buildPokeMessage(MergedPoke.lead, MergedPoke.excerpt, MergedPoke.comments, news)

----------------------------------------------------------------------------
\* The digest.
MAX_DIGEST_ROWS   == 20
MAX_SECTION_CHARS == 2800
SlackSection      == 3000   \* what Slack turns down a section over
Heading           == 13     \* "*Your team*", and what marks it in a chunk

\* Mutant of laid: a chunk is closed once it is over the limit.
laid_Late(lines) ==
    LET current[n \in DOMAIN lines] ==
            IF n = 1 THEN [from |-> 1, width |-> lines[1]]
            ELSE LET before == current[n - 1]
                 IN  IF before.width > MAX_SECTION_CHARS THEN [from |-> n, width |-> lines[n]]
                     ELSE [from |-> before.from, width |-> before.width + 1 + lines[n]]
    IN  current

\* The chunk that is current once the n-th line is in it: its first line, and its width so far.
laid(lines) ==
    LET current[n \in DOMAIN lines] ==
            IF n = 1 THEN [from |-> 1, width |-> lines[1]]
            ELSE LET before == current[n - 1]
                 IN  IF before.width + 1 + lines[n] > MAX_SECTION_CHARS THEN [from |-> n, width |-> lines[n]]
                     ELSE [from |-> before.from, width |-> before.width + 1 + lines[n]]
    IN  current

\* A chunk is pushed when the next line opens another, and the last one at the end.
chunkLines(lines) ==
    LET current == laid(lines)
    IN  {[from |-> current[n].from, to |-> n, width |-> current[n].width] :
             n \in {n \in DOMAIN lines : n = Len(lines) \/ current[n + 1].from = n + 1}}

FirstOf(rows, n) == SubSeq(rows, 1, IF Len(rows) < n THEN Len(rows) ELSE n)

\* The team is listed first, and headings are there only where there is a team to set apart.
buildDigestMessage(d) ==
    LET shownTeam   == FirstOf(d.team, MAX_DIGEST_ROWS)
        shownOthers == FirstOf(d.others, MAX_DIGEST_ROWS - Len(shownTeam))
        section(rows) == chunkLines(IF rows = <<>> THEN <<>> ELSE <<Heading>> \o rows)
    IN  [told     |-> Len(d.team) + Len(d.others),
         sections |-> IF shownTeam = <<>> THEN <<chunkLines(shownOthers)>>
                      ELSE <<section(shownTeam), section(shownOthers)>>,
         more     |-> Len(d.team) + Len(d.others) - Len(shownTeam) - Len(shownOthers)]

DigestSent == buildDigestMessage(digest)

----------------------------------------------------------------------------
\* The batch grows until it is flushed; a request that is out may be edited from then on.
Growing == Next /\ news = NoNews /\ UNCHANGED <<news, digest>>

Reviewed(reviewer) ==
    /\ kind = "request" /\ notifications # <<>> /\ news.resolution = "none"
    /\ \A i \in DOMAIN news.reviewers : news.reviewers[i].who # reviewer.who
    /\ news' = [news EXCEPT !.reviewers = Append(@, reviewer)]
    /\ UNCHANGED <<kind, notifications, digest>>

Settled(k) ==
    /\ kind = "request" /\ notifications # <<>> /\ news.resolution = "none"
    /\ news' = [news EXCEPT !.resolution = k]
    /\ UNCHANGED <<kind, notifications, digest>>

MessageInit ==
    \/ Init /\ news = NoNews /\ digest = NoDigest
    \/ kind = "digest" /\ notifications = <<>> /\ news = NoNews /\ digest \in Digests

MessageNext ==
    \/ Growing
    \/ \E reviewer \in Reviewers : Reviewed(reviewer)
    \/ \E k \in {"approved", "changes_requested", "merged", "closed", "removed"} : Settled(k)

MessageSpec == MessageInit /\ [][MessageNext]_messageVars

----------------------------------------------------------------------------
Said == Range(Message.deed.verbs)

\* The sentence that goes out accounts for everything in the batch, through both the merge and
\* the wording: a verdict on the reader's pull request opens it with its own mark, every comment
\* is counted where there is more than one, and it claims that all of them mention the reader
\* only if they do.
SaysTheWholeReview ==
    Holds /\ kind = "review" =>
        LET comments == {p \in Pieces : p.commentId # Submitted}
        IN  /\ \A p \in Pieces : hasVerdict(p) =>
                  Message.icon = REVIEW(p.state).icon /\ Message.deed.verbs[1].verb = REVIEW(p.state).clause.verb
            /\ Cardinality(comments) > 1 =>
                  \E said \in Said :
                     /\ said.n = Cardinality(comments)
                     /\ said.mentioned <=> \A p \in comments : p.type \in MENTION_TYPES

\* Which wording somebody gets does not depend on whether a webhook arrived inside the batching
\* window: one comment is told of in the same words, under the same mark, whether it came
\* alone or with the empty review GitHub wraps it in.
WordingIgnoresBatching ==
    Holds /\ kind = "review" /\ (\A p \in SubmissionsOf(notifications) : isEnvelope(p)) =>
        \A p \in Pieces : Pieces \ SubmissionsOf(notifications) = {p} =>
            Message = buildPokeMessage(p, alone(p).excerpt, NoComments, NoNews)

\* An edit is the same message and its news: the sentence, its mark and its quote are those it was
\* sent with, whatever has happened and in whichever order, and it is struck through with
\* whoever settled it under it, never with a roster.
EditsKeepTheMessage ==
    Holds /\ kind = "request" =>
        LET sent == buildPokeMessage(MergedPoke, NoWords, NoComments, NoNews)
        IN  /\ <<Message.icon, Message.deed, Message.excerpt>> = <<sent.icon, sent.deed, sent.excerpt>>
            /\ Message.struck <=> news.resolution # "none"
            /\ Message.struck => Message.footer.label = RESOLUTION(news.resolution).label
                              /\ Len(Message.footer.icons) = 1

\* A digest adds up: what it lists and what it says is left over are what it says are waiting;
\* every row is in one section and only one; no section is longer than Slack takes or a heading with none
\* of its rows; and a teammate's row is left out only for twenty teammates' rows before it.
DigestAddsUp ==
    kind = "digest" =>
        LET sections  == DigestSent.sections
            headed    == digest.team # <<>>
            lines(g)  == UNION {c.from .. c.to : c \in sections[g]}
            listed(g) == Cardinality(lines(g)) - (IF headed /\ sections[g] # {} THEN 1 ELSE 0)
            shown     == IF headed THEN listed(1) + listed(2) ELSE listed(1)
        IN  /\ shown + DigestSent.more = DigestSent.told
            /\ shown <= MAX_DIGEST_ROWS
            /\ \A g \in DOMAIN sections : \A c \in sections[g] :
                  /\ \A d \in sections[g] : c = d \/ c.to < d.from \/ d.to < c.from
                  /\ c.width <= SlackSection
                  /\ headed /\ c.from = 1 => c.to > 1
            /\ headed => \/ listed(1) = Len(digest.team)
                         \/ listed(1) = MAX_DIGEST_ROWS /\ Len(digest.team) > MAX_DIGEST_ROWS

\* A message tells the whole of what it was merged from, in words that do not show how it arrived, and
\* goes on telling it through every edit (buildPokeMessage).
TellsTheWhole == SaysTheWholeReview /\ WordingIgnoresBatching /\ EditsKeepTheMessage
=============================================================================
