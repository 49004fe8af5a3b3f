---------------------------- MODULE ReviewMerge ----------------------------
(***************************************************************************)
(* What several pieces of one review, or of one review request, become when *)
(* their batch is closed: the pure half of ReviewBatchService (pieceOf,      *)
(* merge and the helpers under it).  A batch grows by one arrival at a time, *)
(* in any order, because GitHub promises none; every state of the module is  *)
(* a batch that could be flushed, and the properties are about the poke that *)
(* flushing it then would send.                                              *)
(*                                                                           *)
(* A piece carries only what merging tells apart.  Its words are not spelled *)
(* out: an excerpt is named by the id of the piece it was written in.        *)
(***************************************************************************)
EXTENDS NotificationTypes, FiniteSets, FiniteSetsExt, Functions

CONSTANTS
    CommentIds,   \* ids GitHub gave the inline comments; a larger id is a later comment
    AskedTeams    \* teams a review can be asked of

ASSUME CommentIdsAssumption == CommentIds \in SUBSET (Nat \ {0})

VARIABLES
    kind,         \* "review" or "request": which of the two GitHub is delivering in pieces
    notifications \* the pieces held so far, in the order their webhooks landed

vars == <<kind, notifications>>

----------------------------------------------------------------------------
Submitted == 0      \* a piece that carries no comment id: the submission
NoWords   == -1     \* no excerpt
NoComments == [count |-> 0, mentioned |-> FALSE]

CommentTypes    == {"comment_reply", "pull_request_comment", "pull_request_mention"}
SubmissionTypes == {"review_submitted", "pull_request_mention"}
MENTION_TYPES   == {"pull_request_mention", "issue_mention"}
REVIEW_VERDICTS == {"approved", "changes_requested"}

InlineComments == [type: CommentTypes, commentId: CommentIds, words: BOOLEAN, state: {"none"}]
Submissions == [type: SubmissionTypes, commentId: {Submitted}, words: BOOLEAN,
                state: REVIEW_VERDICTS \cup {"commented"}]
Requests == [type: {"review_requested"}, team: AskedTeams \cup {NoTeam}]

----------------------------------------------------------------------------
\* The first of a sequence's elements that no other element outranks: what a
\* stable sort by comparePriority puts in front.
FirstByPriority(s) ==
    s[CHOOSE i \in DOMAIN s :
        \A j \in DOMAIN s \ {i} :
            LET order == comparePriority(s[i].type, s[j].type) IN order < 0 \/ (order = 0 /\ i < j)]

\* Mutant of CommentsOf: the comments are left in the order their webhooks landed.
CommentsOf_Unsorted(s) ==
    LET held == SelectSeq(s, LAMBDA p : p.commentId # Submitted) IN held

\* The comments among the pieces, in the order they were written.
CommentsOf(s) ==
    LET ids == {s[i].commentId : i \in DOMAIN s} \ {Submitted}
    IN  [n \in 1 .. Cardinality(ids) |->
            LET id == CHOOSE x \in ids : Cardinality({y \in ids : y < x}) = n - 1
            IN  s[CHOOSE i \in DOMAIN s : s[i].commentId = id]]

SubmissionsOf(s) == {s[i] : i \in {j \in DOMAIN s : s[j].commentId = Submitted}}

isReviewVerdict(state) == state \in REVIEW_VERDICTS

\* Mutant of isEnvelope: wordless is enough, whatever was decided.
isEnvelope_Wordless(submission) == ~submission.words

\* A review that said nothing and decided nothing: all it holds is the comments.
isEnvelope(submission) == ~submission.words /\ ~isReviewVerdict(submission.state)

\* Whose words the poke quotes: the review's own, else the earliest comment's that has any.
excerptOf(s) ==
    LET spoken == {i \in DOMAIN s : s[i].words}
    IN  IF spoken = {} THEN NoWords ELSE s[Min(spoken)].commentId

\* Mutant of count: one mention is enough to say that all of them were.
count_AnyMention(comments) ==
    IF comments = <<>> THEN NoComments
    ELSE [count     |-> Len(comments),
          mentioned |-> \E i \in DOMAIN comments : comments[i].type \in MENTION_TYPES]

count(comments) ==
    IF comments = <<>> THEN NoComments
    ELSE [count     |-> Len(comments),
          mentioned |-> \A i \in DOMAIN comments : comments[i].type \in MENTION_TYPES]

mergeReview(s) ==
    LET comments   == CommentsOf(s)
        enveloped  == \E sub \in SubmissionsOf(s) : isEnvelope(sub)
        candidates == IF enveloped /\ comments # <<>> THEN comments ELSE s
        spoken     == {sub \in SubmissionsOf(s) : sub.words}
    IN  [lead     |-> FirstByPriority(candidates),
         excerpt  |-> IF spoken # {} THEN Submitted ELSE excerptOf(comments),
         comments |-> count(comments)]

pickRequest(s) ==
    LET direct == {i \in DOMAIN s : s[i].team = NoTeam}
    IN  IF direct # {} THEN s[Min(direct)] ELSE s[1]

\* A batch of one is sent as it came: nobody should be able to tell it was ever a batch.
alone(piece) == [lead |-> piece,
                 excerpt |-> IF piece.words THEN piece.commentId ELSE NoWords,
                 comments |-> NoComments]

merge(s) == IF kind = "request" THEN pickRequest(s)
            ELSE IF Len(s) = 1 THEN alone(s[1])
            ELSE mergeReview(s)

----------------------------------------------------------------------------
Init == /\ kind \in {"review", "request"}
        /\ notifications = <<>>

\* One webhook of the review.  GitHub sends a review one submission and each inline
\* comment once, so no two pieces of a batch share a comment id.
ReviewPieceArrives(piece) ==
    /\ kind = "review"
    /\ \A i \in DOMAIN notifications : notifications[i].commentId # piece.commentId
    /\ notifications' = Append(notifications, piece)
    /\ UNCHANGED kind

\* One webhook asking for the review, of a team or of the reader by name.
RequestPieceArrives(piece) ==
    /\ kind = "request"
    /\ piece \notin Range(notifications)
    /\ notifications' = Append(notifications, piece)
    /\ UNCHANGED kind

Next == \/ \E piece \in InlineComments \cup Submissions : ReviewPieceArrives(piece)
        \/ \E piece \in Requests : RequestPieceArrives(piece)

Spec == Init /\ [][Next]_vars

----------------------------------------------------------------------------
Pieces == Range(notifications)
Holds  == notifications # <<>>
MergedPoke == merge(notifications)

\* The words a poke quotes are decided by what the review says and not by the order its
\* webhooks landed in: the submission's own, else those of the earliest comment that has
\* some.  A batch of one and a batch of many agree on it.
WordsIgnoreArrivalOrder ==
    Holds /\ kind = "review" =>
        LET spoken == {p \in Pieces : p.words}
        IN  MergedPoke.excerpt = IF spoken = {} THEN NoWords
                           ELSE Min({p.commentId : p \in spoken})

\* An author is never left to find out a verdict for themselves: whatever else the review
\* held and however its pieces landed, the poke leads with the submission that decided.
NeverHidesVerdict ==
    Holds /\ kind = "review" =>
        \A p \in Pieces :
            p.type = "review_submitted" /\ isReviewVerdict(p.state) => MergedPoke.lead = p

\* A poke that has comments to tell of never leads with the empty envelope around them,
\* which would render as the bare word "reviewed".
NeverLeadsWithEnvelope ==
    Holds /\ kind = "review" /\ (\E p \in Pieces : p.commentId # Submitted) =>
        ~(/\ MergedPoke.lead.commentId = Submitted
          /\ ~MergedPoke.lead.words
          /\ MergedPoke.lead.state \notin REVIEW_VERDICTS)

\* Somebody asked both by name and through a team hears the direct ask, whichever of the
\* webhooks was first; asked only through teams, they hear the first of them.
DirectAskWins ==
    Holds /\ kind = "request" =>
        IF \E p \in Pieces : p.team = NoTeam THEN MergedPoke.team = NoTeam
        ELSE MergedPoke = Head(notifications)

\* What a batch is merged into does not depend on which of its webhooks was first: the words it
\* quotes, the verdict it leads with, the envelope it passes over and the way somebody was asked
\* (merge, mergeReview, pickRequest).
MergedInAnyOrder == WordsIgnoreArrivalOrder /\ NeverHidesVerdict /\ NeverLeadsWithEnvelope /\ DirectAskWins

============================================================================
