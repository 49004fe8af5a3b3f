-------------------------- MODULE Webhooks_proofs --------------------------
(***************************************************************************)
(* What becomes of a webhook: the handler that pokes (Routing), those that       *)
(* settle what was poked (PokeResolution), and the message a batch of pokes goes   *)
(* out as (ReviewMerge, SlackMessage).  The three share no variable.              *)
(*                                                                           *)
(* Routing, for any accounts, users, teams, threads, settings and webhooks.  The *)
(* inductive invariant is in three parts: what the candidates are at each stage, *)
(* as a function of the payload and of what the handler was answered; what has   *)
(* become of each reader the loop is through with; and what the reader in hand   *)
(* has been put through so far.  That the candidates are exactly whom the event  *)
(* concerns is a fact about the operators, and comes first.                      *)
(*                                                                           *)
(* PokeResolution, for any pokes, readers, webhooks and interleavings.  A job    *)
(* goes on from the row it read first, so the inductive invariant says of each   *)
(* job how far that copy may be from the row there is: the row only ever gains   *)
(* names, it is never filed twice, and with one handler at a time it is the copy. *)
(*                                                                           *)
(* A batch and its message, for any comments, teams, reviewers and arrivals.  That  *)
(* the pieces of a batch are distinct is inductive; what they are merged into and     *)
(* worded as are then facts about the operators.  They rest on two about sorting:    *)
(* that the places of the comments enumerate them (a set of ids has as many ids as    *)
(* places, so none is left over), and that something is foremost of a sequence.       *)
(*                                                                           *)
(* A digest, for any rows of a length a row may have.  Its lines are laid by recursion,     *)
(* of which everything is shown by the least line at which it would fail.                   *)
(***************************************************************************)
EXTENDS Routing, PokeResolution, SlackMessage, FiniteSetTheorems, WellFoundedInduction, TLAPS


\* What is left of the payload's candidates once a GitHub App's chatter is suppressed.
Spoken(type) == read.chatter = "yes" \/ type \notin BOT_CHATTER_TYPES
Raised == {p \in resolve : Spoken(p.type)}

Expanded ==
    {p \in Raised : p.by # "team"} \cup
        UNION {{toMember(p, a) : a \in TeamMembers[p.to]} :
                   p \in {p \in Raised : p.by = "team" /\ p.to \in read.teams}}

Replies == {p \in Expanded : p.by = "thread"}

Resolved ==
    (Expanded \ Replies)
        \cup toEach(Replies, read.thread)
        \cup (IF read.starter = Nobody THEN {}
              ELSE {toStarter(p, read.starter) : p \in Replies})

Grouped == withoutAuthorReviewRequests(Resolved)

----------------------------------------------------------------------------
(* Whom the payload is about. *)

LEMMA TypesKnown ==
    NotificationType = {"review_requested", "pull_request_merged", "auto_merge_enabled",
                        "review_submitted", "comment_reply", "pull_request_comment",
                        "issue_comment", "pull_request_mention", "issue_mention"}
BY DEF NotificationType, PRIORITY

\* What the author of the pull request or issue is told of, and where mentions are read.
TellsAuthor(type) ==
    \/ type = "pull_request_merged" /\ e.event = "pull_request" /\ e.action = "closed" /\ e.merged
    \/ type = "auto_merge_enabled" /\ e.event = "pull_request" /\ e.action = "auto_merge_enabled"
    \/ type = "review_submitted" /\ e.event = "pull_request_review" /\ e.action = "submitted"
    \/ /\ type = "pull_request_comment" /\ e.action = "created"
       /\ \/ e.event = "pull_request_review_comment"
          \/ e.event = "issue_comment" /\ e.isPullRequest
    \/ /\ type = "issue_comment" /\ e.action = "created"
       /\ e.event = "issue_comment" /\ ~e.isPullRequest

Mentions(type) ==
    \/ /\ type = "pull_request_mention"
       /\ \/ e.event = "pull_request" /\ e.action = "opened"
          \/ e.event = "pull_request_review" /\ e.action = "submitted"
          \/ e.event = "pull_request_review_comment" /\ e.action = "created"
          \/ e.event = "issue_comment" /\ e.action = "created" /\ e.isPullRequest
    \/ /\ type = "issue_mention"
       /\ \/ e.event = "issues" /\ e.action = "opened"
          \/ e.event = "issue_comment" /\ e.action = "created" /\ ~e.isPullRequest

Asks == e.event = "pull_request" /\ e.action = "review_requested"
Replied == /\ e.event = "pull_request_review_comment" /\ e.action = "created"
           /\ e.replyTo # NoComment

\* The six kinds of candidate a payload can have.
AsksPerson(p) == Asks /\ e.reviewer # Nobody /\ p = Poke("id", e.reviewer, "review_requested", NoTeam)
AsksTeam(p) ==
    /\ Asks /\ e.reviewer = Nobody /\ e.reviewTeam # NoTeam /\ e.org
    /\ p = Poke("team", e.reviewTeam, "review_requested", e.reviewTeam)
ForAuthor(p) ==
    /\ e.author # Nobody
    /\ \E type \in NotificationType :
          TellsAuthor(type) /\ p = Poke("id", e.author, type, NoTeam)
ForThread(p) == Replied /\ p = Poke("thread", e.replyTo, "comment_reply", NoTeam)
ForLogin(p) ==
    \E type \in NotificationType, login \in e.logins :
        Mentions(type) /\ p = Poke("login", login, type, NoTeam)
ForTeam(p) ==
    \E type \in NotificationType, team \in e.teams :
        Mentions(type) /\ p = Poke("team", team, type, team)

LEMMA ResolveIs ==
    ASSUME NEW p
    PROVE  p \in resolve <=> \/ AsksPerson(p) \/ AsksTeam(p) \/ ForAuthor(p)
                             \/ ForThread(p) \/ ForLogin(p) \/ ForTeam(p)
<1> USE DEF toAuthor, mentionPokes, AsksPerson, AsksTeam, ForAuthor, ForThread, ForLogin, ForTeam,
            TellsAuthor, Mentions, Asks, Replied
<1>1. CASE e.event = "pull_request"
  <2>0. resolve = resolvePullRequest
    BY <1>1 DEF resolve
  <2>1. CASE e.action = "review_requested"
    BY <1>1, <2>0, <2>1, TypesKnown DEF resolvePullRequest, requestPokes
  <2>2. CASE e.action = "closed"
    BY <1>1, <2>0, <2>2, TypesKnown DEF resolvePullRequest
  <2>3. CASE e.action = "auto_merge_enabled"
    BY <1>1, <2>0, <2>3, TypesKnown DEF resolvePullRequest
  <2>4. CASE e.action = "opened"
    BY <1>1, <2>0, <2>4, TypesKnown DEF resolvePullRequest
  <2>5. CASE e.action \notin {"review_requested", "closed", "auto_merge_enabled", "opened"}
    BY <1>1, <2>0, <2>5 DEF resolvePullRequest
  <2> QED BY <2>1, <2>2, <2>3, <2>4, <2>5
<1>2. CASE e.event = "pull_request_review"
  BY <1>2, TypesKnown DEF resolve, resolvePullRequestReview
<1>3. CASE e.event = "pull_request_review_comment"
  BY <1>3, TypesKnown DEF resolve, resolvePullRequestReviewComment
<1>4. CASE e.event = "issue_comment"
  BY <1>4, TypesKnown DEF resolve, resolveIssueComment
<1>5. CASE e.event = "issues"
  BY <1>5, TypesKnown DEF resolve, resolveIssues
<1>6. CASE e.event \notin {"pull_request", "pull_request_review", "pull_request_review_comment",
                          "issue_comment", "issues"}
  BY <1>6 DEF resolve
<1> QED BY <1>1, <1>2, <1>3, <1>4, <1>5, <1>6

\* The kinds of candidate there are once teams and threads are people.
MemberAsked(p) ==
    /\ Asks /\ e.reviewer = Nobody /\ e.reviewTeam # NoTeam /\ e.org
    /\ e.reviewTeam \in read.teams
    /\ \E a \in TeamMembers[e.reviewTeam] :
          p = Poke("id", a, "review_requested", e.reviewTeam)
MemberNamed(p) ==
    \E type \in NotificationType : \E team \in e.teams \cap read.teams :
        \E a \in TeamMembers[team] : Mentions(type) /\ p = Poke("id", a, type, team)
ForStarter(p) ==
    /\ Replied /\ read.starter # Nobody
    /\ p = [by |-> "id", to |-> read.starter, type |-> "comment_reply", via |-> NoTeam,
            starter |-> TRUE]
ForOthers(p) ==
    Replied /\ \E a \in read.thread : p = Poke("id", a, "comment_reply", NoTeam)

LEMMA ToMemberIs ==
    ASSUME NEW b, NEW t, NEW type, NEW via, NEW a
    PROVE  toMember(Poke(b, t, type, via), a) = Poke("id", a, type, via)
BY DEF toMember, Poke

LEMMA ExpandedIs ==
    ASSUME NEW p
    PROVE  p \in Expanded <=>
             Spoken(p.type) /\ \/ AsksPerson(p) \/ MemberAsked(p) \/ ForAuthor(p)
                               \/ ForThread(p) \/ ForLogin(p) \/ MemberNamed(p)
<1> DEFINE F(q) == \E r \in Raised : /\ r.by = "team" /\ r.to \in read.teams
                                     /\ \E a \in TeamMembers[r.to] : q = toMember(r, a)
<1>1. p \in Expanded <=> (p \in Raised /\ p.by # "team") \/ F(p)
  BY DEF Expanded
<1>2. p \in Raised /\ p.by # "team" <=>
        Spoken(p.type) /\ \/ AsksPerson(p) \/ ForAuthor(p) \/ ForThread(p) \/ ForLogin(p)
  BY ResolveIs DEF Raised, AsksPerson, AsksTeam, ForAuthor, ForThread, ForLogin, ForTeam, Poke
<1>3. ASSUME F(p) PROVE Spoken(p.type) /\ (MemberAsked(p) \/ MemberNamed(p))
  <2>1. PICK r \in Raised : /\ r.by = "team" /\ r.to \in read.teams
                            /\ \E a \in TeamMembers[r.to] : p = toMember(r, a)
    BY <1>3
  <2>2. PICK a \in TeamMembers[r.to] : p = toMember(r, a)
    BY <2>1
  <2>3. Spoken(r.type) /\ (AsksTeam(r) \/ ForTeam(r))
    BY <2>1, ResolveIs DEF Raised, AsksPerson, ForAuthor, ForThread, ForLogin, Poke
  <2>4. CASE AsksTeam(r)
    <3>1. p = Poke("id", a, "review_requested", e.reviewTeam) /\ r.to = e.reviewTeam
      BY <2>2, <2>4, ToMemberIs DEF AsksTeam, Poke
    <3> QED BY <2>1, <2>3, <2>4, <3>1 DEF MemberAsked, AsksTeam, Poke
  <2>5. CASE ForTeam(r)
    <3>1. PICK type \in NotificationType, team \in e.teams :
             Mentions(type) /\ r = Poke("team", team, type, team)
      BY <2>5 DEF ForTeam
    <3>2. p = Poke("id", a, type, team) /\ r.to = team /\ r.type = type
      BY <2>2, <3>1, ToMemberIs DEF Poke
    <3> QED BY <2>1, <2>3, <3>1, <3>2 DEF MemberNamed, Poke
  <2> QED BY <2>3, <2>4, <2>5
<1>4. ASSUME Spoken(p.type), MemberAsked(p) PROVE F(p)
  <2> DEFINE r == Poke("team", e.reviewTeam, "review_requested", e.reviewTeam)
  <2>1. PICK a \in TeamMembers[e.reviewTeam] :
           p = Poke("id", a, "review_requested", e.reviewTeam)
    BY <1>4 DEF MemberAsked
  <2>2. r.by = "team" /\ r.to = e.reviewTeam /\ r.type = "review_requested" /\ p.type = r.type
    BY <2>1 DEF Poke
  <2>3. p = toMember(r, a)
    BY <2>1, ToMemberIs
  <2>4. AsksTeam(r)
    BY <1>4 DEF MemberAsked, AsksTeam
  <2> HIDE DEF r
  <2>5. r \in Raised
    BY <1>4, <2>2, <2>4, ResolveIs DEF Raised
  <2> QED BY <1>4, <2>2, <2>3, <2>5 DEF MemberAsked
<1>5. ASSUME Spoken(p.type), MemberNamed(p) PROVE F(p)
  <2>1. PICK type \in NotificationType, team \in e.teams \cap read.teams :
           \E a \in TeamMembers[team] : Mentions(type) /\ p = Poke("id", a, type, team)
    BY <1>5 DEF MemberNamed
  <2>2. PICK a \in TeamMembers[team] : Mentions(type) /\ p = Poke("id", a, type, team)
    BY <2>1
  <2> DEFINE r == Poke("team", team, type, team)
  <2>3. r.by = "team" /\ r.to = team /\ r.type = type /\ p.type = r.type
    BY <2>2 DEF Poke
  <2>4. p = toMember(r, a)
    BY <2>2, ToMemberIs
  <2>5. ForTeam(r)
    BY <2>2 DEF ForTeam
  <2> HIDE DEF r
  <2>6. r \in Raised
    BY <1>5, <2>3, <2>5, ResolveIs DEF Raised
  <2> QED BY <2>3, <2>4, <2>6
<1> HIDE DEF F
<1> QED BY <1>1, <1>2, <1>3, <1>4, <1>5

LEMMA ResolvedIs ==
    ASSUME NEW p
    PROVE  p \in Resolved <=>
             /\ Spoken(p.type)
             /\ \/ AsksPerson(p) \/ MemberAsked(p) \/ ForAuthor(p) \/ ForLogin(p)
                \/ MemberNamed(p) \/ ForStarter(p) \/ ForOthers(p)
<1> DEFINE reply == Poke("thread", e.replyTo, "comment_reply", NoTeam)
           opened == read.starter # Nobody /\ \E r \in Replies : p = toStarter(r, read.starter)
           joined == \E r \in Replies, a \in read.thread : p = toMember(r, a)
<1>1. \A r : r \in Replies <=> Replied /\ r = reply /\ Spoken("comment_reply")
  BY ExpandedIs DEF Replies, AsksPerson, MemberAsked, ForAuthor, ForThread, ForLogin, MemberNamed, Poke
<1>2. p \in Expanded \ Replies <=>
        /\ Spoken(p.type)
        /\ AsksPerson(p) \/ MemberAsked(p) \/ ForAuthor(p) \/ ForLogin(p) \/ MemberNamed(p)
  BY ExpandedIs DEF Replies, AsksPerson, MemberAsked, ForAuthor, ForThread, ForLogin, MemberNamed, Poke
<1>3. p \in Resolved <=> p \in Expanded \ Replies \/ joined \/ opened
  BY DEF Resolved, toEach
<1>4. joined <=> Spoken(p.type) /\ ForOthers(p)
  <2>1. \A a : toMember(reply, a) = Poke("id", a, "comment_reply", NoTeam)
    BY ToMemberIs
  <2>2. \A a : Poke("id", a, "comment_reply", NoTeam).type = "comment_reply"
    BY DEF Poke
  <2> QED BY <1>1, <2>1, <2>2 DEF ForOthers
<1>5. opened <=> Spoken(p.type) /\ ForStarter(p)
  <2>1. \A a : toStarter(reply, a) = [by |-> "id", to |-> a, type |-> "comment_reply",
                                      via |-> NoTeam, starter |-> TRUE]
    BY DEF toStarter, Poke
  <2>2. p = toStarter(reply, read.starter) <=>
          p = [by |-> "id", to |-> read.starter, type |-> "comment_reply", via |-> NoTeam,
               starter |-> TRUE]
    BY <2>1
  <2>3. ASSUME p = toStarter(reply, read.starter) PROVE p.type = "comment_reply"
    BY <2>2, <2>3
  <2> HIDE DEF reply
  <2>4. opened <=> /\ read.starter # Nobody /\ Replied /\ Spoken("comment_reply")
                   /\ p = toStarter(reply, read.starter)
    BY <1>1
  <2> QED BY <2>2, <2>3, <2>4 DEF ForStarter
<1> HIDE DEF opened, joined
<1> QED BY <1>2, <1>3, <1>4, <1>5

LEMMA NothingRaised == Raised = {} => Grouped = {}
BY DEF Grouped, withoutAuthorReviewRequests, Resolved, Replies, Expanded, toEach

LEMMA GroupedIs ==
    ASSUME NEW p
    PROVE  p \in Grouped <=>
             /\ p \in Resolved
             /\ p.type # "review_requested" \/ e.author = Nobody \/ p.to # e.author
BY DEF Grouped, withoutAuthorReviewRequests

\* What the webhook and the handler's reads are made of.
Asked == {"unasked", "yes", "no", "unknown", "public"}
Answers == [chatter: {"yes", "no"}, teams: SUBSET Teams, starter: Accounts \cup {Nobody},
            thread: SUBSET Accounts,
            preferences: [Users -> NotificationPreferences \cup {NoSubscription}],
            access: [Users -> Asked]]

Typed ==
    /\ e \in Payload
    /\ read.teams \subseteq IF e.org THEN OwnTeams ELSE {}
    /\ read \in Answers
    /\ preferences \in [Users -> NotificationPreferences \cup {NoSubscription}]
    /\ ~Replied => read.starter = Nobody /\ read.thread = {}

WellFormed(p) == /\ p.by \in {"id", "login", "team", "thread"} /\ p.type \in NotificationType
                 /\ p.via \in Teams \cup {NoTeam} /\ p.starter \in BOOLEAN

LEMMA CandidatesWellFormed ==
    Typed => /\ \A p \in Raised \cup Expanded \cup Resolved \cup Grouped : WellFormed(p)
             /\ \A p \in Resolved \cup Grouped : p.by \in {"id", "login"}
<1> SUFFICES ASSUME Typed
             PROVE  /\ \A p \in Raised \cup Expanded \cup Resolved \cup Grouped : WellFormed(p)
                    /\ \A p \in Resolved \cup Grouped : p.by \in {"id", "login"}
  OBVIOUS
<1> DEFINE Vias == Teams \cup {NoTeam}
<1>0. /\ e.reviewTeam \in Teams \cup {NoTeam} /\ e.teams \subseteq Teams
      /\ read.teams \subseteq Teams
  BY TeamsAssumption DEF Typed, Payload
<1>1. \A t : \A b \in {"id", "login", "team", "thread"}, type \in NotificationType, via \in Vias :
            WellFormed(Poke(b, t, type, via)) /\ Poke(b, t, type, via).by = b
  BY DEF Poke, WellFormed
<1>11. /\ "review_requested" \in NotificationType /\ "comment_reply" \in NotificationType
       /\ NoTeam \in Vias /\ \A team \in Teams : team \in Vias
  BY TypesKnown
<1> HIDE DEF Vias
<1>2. ASSUME NEW p, AsksPerson(p) \/ ForAuthor(p) \/ ForLogin(p) \/ ForOthers(p)
                    \/ MemberAsked(p) \/ MemberNamed(p)
      PROVE  WellFormed(p) /\ p.by \in {"id", "login"}
  <2>1. CASE AsksPerson(p)
    BY <1>1, <1>11, <2>1 DEF AsksPerson
  <2>2. CASE ForAuthor(p)
    BY <1>1, <1>11, <2>2 DEF ForAuthor
  <2>3. CASE ForLogin(p)
    BY <1>1, <1>11, <2>3 DEF ForLogin
  <2>4. CASE ForOthers(p)
    BY <1>1, <1>11, <2>4 DEF ForOthers
  <2>5. CASE MemberAsked(p)
    BY <1>0, <1>1, <1>11, <2>5 DEF MemberAsked, Vias
  <2>6. CASE MemberNamed(p)
    BY <1>0, <1>1, <1>11, <2>6 DEF MemberNamed
  <2> QED BY <1>2, <2>1, <2>2, <2>3, <2>4, <2>5, <2>6
<1>3. ASSUME NEW p, ForStarter(p) PROVE WellFormed(p) /\ p.by \in {"id", "login"}
  BY <1>3, <1>11 DEF ForStarter, WellFormed
<1>4. ASSUME NEW p, AsksTeam(p) \/ ForThread(p) \/ ForTeam(p) PROVE WellFormed(p)
  <2>1. CASE AsksTeam(p)
    BY <1>0, <1>1, <1>11, <2>1 DEF AsksTeam, Vias
  <2>2. CASE ForThread(p)
    BY <1>1, <1>11, <2>2 DEF ForThread
  <2>3. CASE ForTeam(p)
    BY <1>0, <1>1, <1>11, <2>3 DEF ForTeam
  <2> QED BY <1>4, <2>1, <2>2, <2>3
<1>5. \A p \in Raised : WellFormed(p)
  BY <1>2, <1>4, ResolveIs DEF Raised
<1>6. \A p \in Expanded : WellFormed(p)
  BY <1>2, <1>4, ExpandedIs
<1>7. \A p \in Resolved : WellFormed(p) /\ p.by \in {"id", "login"}
  BY <1>2, <1>3, ResolvedIs
<1>8. \A p \in Grouped : p \in Resolved
  BY GroupedIs
<1> QED BY <1>5, <1>6, <1>7, <1>8

\* A candidate's reader is somebody the event concerns.
LEMMA CandidateConcerned ==
    ASSUME Typed, NEW p \in Grouped, NEW u \in Users, readRecipient(p) = u
    PROVE  Concerns(u, p.type) /\ Spoken(p.type)
<1> USE UsersAssumption, HolderAssumption, TeamsAssumption
<1>1. /\ p \in Resolved
      /\ p.type # "review_requested" \/ e.author = Nobody \/ p.to # e.author
  BY GroupedIs
<1>2. Spoken(p.type)
  BY <1>1, ResolvedIs
<1>3. u # Nobody
  OBVIOUS
<1>4. CASE AsksPerson(p)
  <2>1. p.by = "id" /\ p.to = e.reviewer /\ p.type = "review_requested"
    BY <1>4 DEF AsksPerson, Poke
  <2>2. u = e.reviewer
    BY <1>3, <2>1 DEF readRecipient
  <2> QED BY <1>1, <1>2, <1>3, <1>4, <2>1, <2>2 DEF AsksPerson, Asks, Concerns
<1>5. CASE MemberAsked(p)
  <2>1. PICK a \in TeamMembers[e.reviewTeam] :
           p = Poke("id", a, "review_requested", e.reviewTeam)
    BY <1>5 DEF MemberAsked
  <2>2. p.by = "id" /\ p.to = a /\ p.type = "review_requested"
    BY <2>1 DEF Poke
  <2>3. u = a
    BY <1>3, <2>2 DEF readRecipient
  <2> QED BY <1>1, <1>2, <1>3, <1>5, <2>2, <2>3 DEF MemberAsked, Asks, Concerns
<1>6. CASE ForAuthor(p)
  <2>1. PICK type \in NotificationType :
           TellsAuthor(type) /\ p = Poke("id", e.author, type, NoTeam)
    BY <1>6 DEF ForAuthor
  <2>2. p.by = "id" /\ p.to = e.author /\ p.type = type
    BY <2>1 DEF Poke
  <2>3. u = e.author
    BY <1>3, <2>2 DEF readRecipient
  <2> QED BY <1>2, <2>1, <2>2, <2>3 DEF TellsAuthor, Concerns
<1>7. CASE ForLogin(p)
  <2>1. PICK type \in NotificationType, login \in e.logins :
           Mentions(type) /\ p = Poke("login", login, type, NoTeam)
    BY <1>7 DEF ForLogin
  <2>2. p.by = "login" /\ p.to = login /\ p.type = type
    BY <2>1 DEF Poke
  <2>3. NamedIn(u)
    BY <2>2 DEF readRecipient, NamedIn
  <2> QED BY <1>2, <2>1, <2>2, <2>3 DEF Mentions, Concerns
<1>8. CASE MemberNamed(p)
  <2>1. PICK type \in NotificationType, team \in e.teams \cap read.teams :
           \E a \in TeamMembers[team] : Mentions(type) /\ p = Poke("id", a, type, team)
    BY <1>8 DEF MemberNamed
  <2>2. PICK a \in TeamMembers[team] : Mentions(type) /\ p = Poke("id", a, type, team)
    BY <2>1
  <2>3. p.by = "id" /\ p.to = a /\ p.type = type
    BY <2>2 DEF Poke
  <2>4. u = a
    BY <1>3, <2>3 DEF readRecipient
  <2>5. NamedIn(u)
    BY <2>4 DEF NamedIn
  <2> QED BY <1>2, <2>2, <2>3, <2>5 DEF Mentions, Concerns
<1>9. CASE ForStarter(p)
  <2>1. p.by = "id" /\ p.to = read.starter /\ p.type = "comment_reply"
    BY <1>9 DEF ForStarter
  <2>2. u = read.starter
    BY <1>3, <2>1 DEF readRecipient
  <2> QED BY <1>2, <1>9, <2>1, <2>2 DEF ForStarter, Replied, Concerns
<1>10. CASE ForOthers(p)
  <2>1. PICK a \in read.thread : p = Poke("id", a, "comment_reply", NoTeam)
    BY <1>10 DEF ForOthers
  <2>2. p.by = "id" /\ p.to = a /\ p.type = "comment_reply"
    BY <2>1 DEF Poke
  <2>3. u = a
    BY <1>3, <2>2 DEF readRecipient
  <2> QED BY <1>2, <1>10, <2>2, <2>3 DEF ForOthers, Replied, Concerns
<1> QED BY <1>1, <1>4, <1>5, <1>6, <1>7, <1>8, <1>9, <1>10, ResolvedIs

\* And whoever the event concerns is behind a candidate of it.
LEMMA ConcernedCandidate ==
    ASSUME Typed, NEW u \in Users, NEW type \in NotificationType, Concerns(u, type), Spoken(type)
    PROVE  \E p \in Grouped : readRecipient(p) = u /\ p.type = type
<1> USE UsersAssumption, HolderAssumption, TeamsAssumption
<1> DEFINE ask(via) == Poke("id", u, type, via)
<1>0. u # Nobody /\ u \in Accounts
  OBVIOUS
<1>1. \A via : readRecipient(ask(via)) = u /\ ask(via).type = type /\ ask(via).to = u
  BY DEF Poke, readRecipient
<1>2. CASE type = "review_requested"
  <2>1. Asks /\ u # e.author
    BY <1>2 DEF Concerns, Asks
  <2>2. CASE u = e.reviewer
    <3>1. AsksPerson(ask(NoTeam))
      BY <1>0, <1>2, <2>1, <2>2 DEF AsksPerson
    <3> QED BY <1>1, <2>1, <3>1, ResolvedIs, GroupedIs
  <2>3. CASE u # e.reviewer
    <3>1. e.reviewTeam \in read.teams /\ u \in TeamMembers[e.reviewTeam]
      BY <1>2, <2>3 DEF Concerns
    <3>2. e.reviewTeam # NoTeam /\ e.reviewer = Nobody
      BY <1>0, <3>1, TeamsAssumption DEF Typed, Payload
    <3>3. e.org
      BY <3>1 DEF Typed
    <3>4. MemberAsked(ask(e.reviewTeam))
      BY <1>2, <2>1, <3>1, <3>2, <3>3 DEF MemberAsked
    <3> QED BY <1>1, <2>1, <3>4, ResolvedIs, GroupedIs
  <2> QED BY <2>2, <2>3
<1>3. CASE TellsAuthor(type) /\ u = e.author
  <2>1. ForAuthor(ask(NoTeam)) /\ type # "review_requested"
    BY <1>0, <1>3 DEF ForAuthor, TellsAuthor
  <2> QED BY <1>1, <2>1, ResolvedIs, GroupedIs
<1>4. CASE /\ type = "comment_reply"
           /\ e.event = "pull_request_review_comment" /\ e.action = "created"
           /\ u = read.starter \/ u \in read.thread
  <2>1. Replied
    BY <1>4, <1>0 DEF Typed, Replied
  <2>2. CASE u = read.starter
    <3> DEFINE p == [by |-> "id", to |-> read.starter, type |-> "comment_reply",
                     via |-> NoTeam, starter |-> TRUE]
    <3>1. ForStarter(p) /\ p.type = type /\ readRecipient(p) = u
      BY <1>0, <1>4, <2>1, <2>2 DEF ForStarter, readRecipient
    <3> HIDE DEF p
    <3> QED BY <1>4, <3>1, ResolvedIs, GroupedIs
  <2>3. CASE u \in read.thread
    <3>1. ForOthers(ask(NoTeam))
      BY <1>4, <2>1, <2>3 DEF ForOthers
    <3> QED BY <1>1, <1>4, <3>1, ResolvedIs, GroupedIs
  <2> QED BY <1>4, <2>2, <2>3
<1>5. CASE Mentions(type) /\ NamedIn(u)
  <2>1. type # "review_requested"
    BY <1>5 DEF Mentions
  <2>2. CASE \E login \in e.logins : HolderOf[login] = u
    <3>1. PICK login \in e.logins : HolderOf[login] = u
      BY <2>2
    <3> DEFINE p == Poke("login", login, type, NoTeam)
    <3>2. ForLogin(p)
      BY <1>5, <3>1 DEF ForLogin
    <3>3. p.type = type /\ readRecipient(p) = u
      BY <3>1 DEF Poke, readRecipient
    <3> HIDE DEF p
    <3> QED BY <2>1, <3>2, <3>3, ResolvedIs, GroupedIs
  <2>3. CASE \E team \in e.teams \cap read.teams : u \in TeamMembers[team]
    <3>1. PICK team \in e.teams \cap read.teams : u \in TeamMembers[team]
      BY <2>3
    <3>2. MemberNamed(ask(team))
      BY <1>5, <3>1 DEF MemberNamed
    <3> QED BY <1>1, <2>1, <3>2, ResolvedIs, GroupedIs
  <2> QED BY <1>5, <2>2, <2>3 DEF NamedIn
<1> QED BY <1>2, <1>3, <1>4, <1>5, TypesKnown DEF Concerns, TellsAuthor, Mentions


\* What a reader's gates let through, by the subscription they were read with.
Allowed(u) == {c \in candidatesOf(u) : Listens(u, c.type)}
Kept(u) == {c \in Allowed(u) : botDropReason(found[u], c.type) = "null"}

\* What the gates ask of a candidate is what its reader chose.
GatesListen ==
    \A v \in Users : read.preferences[v] \in NotificationPreferences =>
        \A type : Listens(v, type) <=> /\ ~isPokeTypeMuted(found[v], type)
                                      /\ isNotificationAllowed(read.preferences[v], type)

LEMMA GateIsListening == GatesListen
BY NoSubscriptionAssumption
   DEF GatesListen, Listens, isPokeTypeMuted, isNotificationAllowed, NotificationPreferences

LEMMA BotGateIsMayAct ==
    ASSUME NEW u \in Users, NEW type
    PROVE  botDropReason(found[u], type) = "null" <=> MayActOn(u, type)
<1>1. \A a : isBotFor(found[u], a) <=> MachineTo(u, a)
  BY DEF isBotFor, isAllowed, isBlocked, looksLikeBot, MachineTo
<1>2. isBlocked(found[u], e.sender) /\ found[u].botMode = "all"
         <=> found[u].botMode = "all" /\ e.sender \in found[u].blockedBots
  BY DEF isBlocked
<1> QED BY <1>1, <1>2 DEF botDropReason, MayActOn

\* What a reader is due is what their gates keep.
LEMMA DueIsKept ==
    ASSUME Typed, pokes = Grouped, NEW u \in Users, NEW type
    PROVE  type \in Due(u) <=> \E c \in Kept(u) : c.type = type
<1>1. ASSUME type \in Due(u) PROVE \E c \in Kept(u) : c.type = type
  <2>1. /\ type \in NotificationType /\ Concerns(u, type) /\ Listens(u, type)
        /\ MayActOn(u, type) /\ Spoken(type)
    BY <1>1 DEF Due, Spoken
  <2>2. PICK p \in Grouped : readRecipient(p) = u /\ p.type = type
    BY <2>1, ConcernedCandidate
  <2> QED BY <2>1, <2>2, BotGateIsMayAct DEF Kept, Allowed, candidatesOf
<1>2. ASSUME NEW c \in Kept(u), c.type = type PROVE type \in Due(u)
  <2>1. /\ c \in Grouped /\ readRecipient(c) = u /\ Listens(u, type)
        /\ botDropReason(found[u], type) = "null"
    BY <1>2 DEF Kept, Allowed, candidatesOf
  <2>2. Concerns(u, type) /\ Spoken(type)
    BY <1>2, <2>1, CandidateConcerned
  <2>3. type \in NotificationType
    BY <2>2, TypesKnown DEF Concerns
  <2> QED BY <2>1, <2>2, <2>3, BotGateIsMayAct DEF Due, Spoken
<1> QED BY <1>1, <1>2

----------------------------------------------------------------------------
(* The inductive invariant. *)

\* The candidates at every stage.
Stages ==
    /\ pc = "expand" => pokes = Raised
    /\ pc = "replies" => pokes = Expanded
    /\ pc = "group" => pokes = Resolved
    /\ pc = "loop" \/ sent # {} => pokes = Grouped
    /\ pc = "done" /\ e.installation => pokes = Grouped

\* Nobody has had a turn.
Idle == /\ waiting = {} /\ current = Nobody /\ wanted = {} /\ sent = {} /\ counted = {}
        /\ read.preferences = [u \in Users |-> NoSubscription]

\* What the handler has been answered, and what it has done, before it is anybody's turn.
NotYet ==
    /\ pc \in {"remember", "suppress"} => read.chatter = "yes" /\ pokes = {}
    /\ pc \in {"remember", "suppress", "expand"} => read.teams = {}
    /\ pc \in {"remember", "suppress", "expand", "replies"} =>
          read.starter = Nobody /\ read.thread = {}
    /\ pc \in {"remember", "suppress", "expand", "replies", "group"} => Idle
    /\ pc = "done" => waiting = {} /\ current = Nobody

\* The starter and the others in a thread are different people, and its writer not one of the others.
ThreadRead == read.starter \notin read.thread /\ e.sender \notin read.thread

\* The best of what the gates of a reader let through.
Best(u, type) ==
    /\ \E c \in Kept(u) : c.type = type
    /\ \A d \in Kept(u) : comparePriority(type, d.type) <= 0

Cleared(u) == e.private => read.access[u] = "yes"

Untouched(u) ==
    /\ read.preferences[u] = NoSubscription
    /\ \A p \in sent : p.to # u
    /\ \A outcome \in {"reached", "held"} : <<u, outcome>> \notin counted

\* Nobody who has not had their turn has been asked about, poked or counted; nor has whoever
\* sent the event, ever.
TurnsToCome ==
    /\ current # e.sender
    /\ e.sender \in Users => Untouched(e.sender)
    /\ \A v \in waiting : Untouched(v)
    /\ current # Nobody /\ step = "preferences" => Untouched(current)

\* What the reader in hand has been put through.
InHand ==
    current # Nobody =>
        /\ pc \in {"loop", "failed"}
        /\ step # "record" => \A p \in sent : p.to # current
        /\ step \in {"access", "submit"} => wanted = Kept(current) /\ wanted # {}
        /\ step \in {"submit", "record"} =>
              Cleared(current) /\ read.access[current] \notin {"no", "unknown"}
        /\ step = "record" => pc = "loop" /\ \E p \in sent : p.to = current
        /\ <<current, "reached">> \notin counted

SentWell ==
    /\ OnePokeEach
    /\ \A p \in sent : Cleared(p.to) /\ Best(p.to, p.type)

\* Whoever is behind a candidate and is neither waiting nor in hand was served.
Served(u) ==
    \/ u = e.sender
    \/ Kept(u) = {}
    \/ read.access[u] \in {"no", "unknown"}
    \/ \E p \in sent : p.to = u

Through ==
    pc = "loop" \/ (pc = "done" /\ e.installation) =>
        \A p \in pokes : readRecipient(p) \in Users \ (waiting \cup {current}) =>
            Served(readRecipient(p))

\* Being a machine is all that a reader's pokes were lost for.
Silenced(v) == Allowed(v) # {} /\ Kept(v) = {}

Tally ==
    \A v \in Users :
        /\ <<v, "reached">> \in counted => \E p \in sent : p.to = v
        /\ (\E p \in sent : p.to = v) /\ v # current => <<v, "reached">> \in counted
        /\ <<v, "held">> \in counted <=> Silenced(v)

IInv == /\ RoutingTypeOK /\ Typed /\ Stages /\ NotYet /\ ThreadRead /\ TurnsToCome /\ InHand
        /\ SentWell /\ Through /\ Tally

----------------------------------------------------------------------------
(* What a step leaves as it was. *)

LEMMA LearnIs ==
    ASSUME read \in Answers, NEW v
    PROVE  /\ Learn("chatter", v) => /\ read'.chatter = v /\ read'.teams = read.teams
                                     /\ read'.starter = read.starter /\ read'.thread = read.thread
                                     /\ read'.preferences = read.preferences
                                     /\ v \in {"yes", "no"} => read' \in Answers
           /\ Learn("teams", v) => /\ read'.chatter = read.chatter /\ read'.teams = v
                                   /\ read'.starter = read.starter /\ read'.thread = read.thread
                                   /\ read'.preferences = read.preferences
                                   /\ v \in SUBSET Teams => read' \in Answers
           /\ Learn("preferences", v) => /\ read'.chatter = read.chatter
                                         /\ read'.teams = read.teams
                                         /\ read'.starter = read.starter
                                         /\ read'.thread = read.thread
                                         /\ read'.preferences = v /\ read'.access = read.access
                                         /\ v \in [Users -> NotificationPreferences \cup {NoSubscription}]
                                               => read' \in Answers
           /\ Learn("access", v) => /\ read'.chatter = read.chatter /\ read'.teams = read.teams
                                    /\ read'.starter = read.starter /\ read'.thread = read.thread
                                    /\ read'.preferences = read.preferences /\ read'.access = v
                                    /\ v \in [Users -> Asked] => read' \in Answers
<1>1. ASSUME Learn("chatter", v)
      PROVE  /\ read'.chatter = v /\ read'.teams = read.teams
             /\ read'.starter = read.starter /\ read'.thread = read.thread
             /\ read'.preferences = read.preferences
             /\ v \in {"yes", "no"} => read' \in Answers
  BY <1>1, Zenon DEF Learn, Answers
<1>2. ASSUME Learn("teams", v)
      PROVE  /\ read'.chatter = read.chatter /\ read'.teams = v
             /\ read'.starter = read.starter /\ read'.thread = read.thread
             /\ read'.preferences = read.preferences
             /\ v \in SUBSET Teams => read' \in Answers
  BY <1>2, Zenon DEF Learn, Answers
<1>3. ASSUME Learn("preferences", v)
      PROVE  /\ read'.chatter = read.chatter /\ read'.teams = read.teams
             /\ read'.starter = read.starter /\ read'.thread = read.thread
             /\ read'.preferences = v /\ read'.access = read.access
             /\ v \in [Users -> NotificationPreferences \cup {NoSubscription}] => read' \in Answers
  BY <1>3, Zenon DEF Learn, Answers
<1>4. ASSUME Learn("access", v)
      PROVE  /\ read'.chatter = read.chatter /\ read'.teams = read.teams
             /\ read'.starter = read.starter /\ read'.thread = read.thread
             /\ read'.preferences = read.preferences /\ read'.access = v
             /\ v \in [Users -> Asked] => read' \in Answers
  BY <1>4, Zenon DEF Learn, Answers
<1> QED BY <1>1, <1>2, <1>3, <1>4

LEMMA LearnThreadIs ==
    ASSUME read \in Answers, NEW v, NEW w, LearnThread(v, w)
    PROVE  /\ read'.chatter = read.chatter /\ read'.teams = read.teams
           /\ read'.starter = v /\ read'.thread = w /\ read'.preferences = read.preferences
           /\ v \in Accounts \cup {Nobody} /\ w \subseteq Accounts => read' \in Answers
BY Zenon DEF LearnThread, Answers

LEMMA ResolveStays == ASSUME e' = e PROVE resolve' = resolve
BY DEF resolve, resolvePullRequest, requestPokes, resolvePullRequestReview,
       resolvePullRequestReviewComment, resolveIssueComment, resolveIssues, toAuthor, mentionPokes

LEMMA StagesStay ==
    ASSUME e' = e, read'.chatter = read.chatter
    PROVE  /\ Raised' = Raised
           /\ read'.teams = read.teams => Expanded' = Expanded
           /\ read'.teams = read.teams /\ read'.starter = read.starter /\ read'.thread = read.thread
                => Resolved' = Resolved /\ Grouped' = Grouped
<1>1. Raised' = Raised
  BY ResolveStays DEF Raised, Spoken
<1>2. ASSUME read'.teams = read.teams PROVE Expanded' = Expanded
  BY <1>1, <1>2 DEF Expanded
<1>3. ASSUME read'.teams = read.teams, read'.starter = read.starter, read'.thread = read.thread
      PROVE  Resolved' = Resolved /\ Grouped' = Grouped
  <2>1. Replies' = Replies
    BY <1>2, <1>3 DEF Replies
  <2>2. Resolved' = Resolved
    BY <1>2, <1>3, <2>1 DEF Resolved
  <2> QED BY <2>2 DEF Grouped, withoutAuthorReviewRequests
<1> QED BY <1>1, <1>2, <1>3

LEMMA KeptStays ==
    ASSUME e' = e, pokes' = pokes, found' = found, NEW u \in Users,
           read'.preferences[u] = read.preferences[u]
    PROVE  Allowed(u)' = Allowed(u) /\ Kept(u)' = Kept(u)
<1>1. \A type : Listens(u, type)' <=> Listens(u, type)
  BY DEF Listens
<1>2. \A type : botDropReason(found[u], type)' = botDropReason(found[u], type)
  BY DEF botDropReason, isBotFor, isAllowed, isBlocked
<1>3. candidatesOf(u)' = candidatesOf(u)
  BY DEF candidatesOf, readRecipient
<1>4. Allowed(u)' = Allowed(u)
  BY <1>1, <1>3 DEF Allowed
<1> QED BY <1>2, <1>4 DEF Kept

LEMMA IdleIsFine == e \in Payload /\ Idle => TurnsToCome /\ InHand /\ SentWell /\ Tally
<1> SUFFICES ASSUME e \in Payload, Idle PROVE TurnsToCome /\ InHand /\ SentWell /\ Tally
  OBVIOUS
<1>1. e.sender \in Accounts
  BY DEF Payload
<1>2. TurnsToCome
  BY <1>1, UsersAssumption DEF Idle, TurnsToCome, Untouched
<1>3. InHand /\ SentWell
  BY DEF Idle, InHand, SentWell, OnePokeEach
<1>4. \A u \in Users : Allowed(u) = {}
  BY DEF Idle, Allowed, Listens
<1>5. Tally
  BY <1>4 DEF Idle, Tally, Silenced
<1> QED BY <1>2, <1>3, <1>5

LEMMA InitIInv == RoutingInit => IInv
<1> SUFFICES ASSUME RoutingInit PROVE IInv
  OBVIOUS
<1>1. PICK w \in Worlds : /\ e \in w.events
                          /\ settings \in [Users -> w.settings]
                          /\ preferences \in [Users -> w.preferences]
  BY DEF RoutingInit
<1>2. /\ w.settings \subseteq SettingsChoices /\ w.preferences \subseteq PreferenceChoices
      /\ w.events \subseteq Payload
      /\ w.preferences \subseteq NotificationPreferences \cup {NoSubscription}
  BY WorldsAssumption DEF SettingsChoices, PreferenceChoices
<1>3. read \in Answers /\ read.preferences = [u \in Users |-> NoSubscription] /\ read.chatter = "yes"
      /\ read.teams = {} /\ read.starter = Nobody /\ read.thread = {}
  <2> DEFINE P == [u \in Users |-> NoSubscription]
             A == [u \in Users |-> "unasked"]
  <2>1. read = [chatter |-> "yes", teams |-> {}, starter |-> Nobody, thread |-> {},
                preferences |-> P, access |-> A]
    BY DEF RoutingInit
  <2>2. P \in [Users -> NotificationPreferences \cup {NoSubscription}] /\ A \in [Users -> Asked]
    BY DEF Asked
  <2> HIDE DEF P, A
  <2>3. read \in Answers
    BY <2>1, <2>2 DEF Answers
  <2> QED BY <2>1, <2>3 DEF P
<1>4. Idle
  BY <1>3 DEF RoutingInit, Idle
<1>5. RoutingTypeOK
  <2>1. \A by : pokes = Candidate(by)
    BY DEF RoutingInit, Candidate
  <2> QED BY <1>1, <1>2, <2>1, UsersAssumption DEF RoutingInit, RoutingTypeOK
<1>6. Typed
  <2>1. preferences \in [Users -> NotificationPreferences \cup {NoSubscription}]
    BY <1>1, <1>2
  <2> QED BY <1>1, <1>2, <1>3, <2>1 DEF Typed
<1>7. Stages /\ NotYet /\ ThreadRead /\ Through
  BY <1>3, <1>4, <1>6, UsersAssumption
     DEF RoutingInit, Stages, NotYet, ThreadRead, Through, Typed, Payload
<1> QED BY <1>4, <1>5, <1>6, <1>7, IdleIsFine DEF IInv, Typed

LEMMA RememberIInv == IInv /\ rememberComment => IInv'
<1> SUFFICES ASSUME IInv, rememberComment PROVE IInv'
  OBVIOUS
<1> USE DEF rememberComment
<1>1. Idle /\ Typed /\ RoutingTypeOK /\ NotYet /\ pc = "remember"
  BY DEF IInv, NotYet
<1>2. Typed' /\ Idle'
  BY <1>1 DEF Typed, Replied, Idle
<1>3. RoutingTypeOK'
  <2>1. spoken' \in [Comments -> SUBSET Accounts]
    BY <1>1 DEF Typed, Payload, RoutingTypeOK
  <2>2. pokes' = Candidate({"id", "login", "team", "thread"})'
    BY <1>1 DEF RoutingTypeOK, Candidate
  <2> QED BY <1>1, <2>1, <2>2 DEF RoutingTypeOK
<1>4. Stages' /\ NotYet' /\ ThreadRead' /\ Through'
  BY <1>1, <1>2 DEF IInv, Stages, NotYet, ThreadRead, Through, Idle
<1>5. TurnsToCome' /\ InHand' /\ SentWell' /\ Tally'
  BY <1>2, IdleIsFine, PTL DEF Typed
<1> QED BY <1>2, <1>3, <1>4, <1>5 DEF IInv

LEMMA SuppressIInv == IInv /\ suppressBotChatter => IInv'
<1> SUFFICES ASSUME IInv, suppressBotChatter PROVE IInv'
  OBVIOUS
<1>1. /\ Idle /\ Typed /\ RoutingTypeOK /\ ThreadRead
      /\ read.chatter = "yes" /\ read.teams = {} /\ read.starter = Nobody /\ read.thread = {}
  BY DEF IInv, NotYet, suppressBotChatter
<1>2. /\ e' = e /\ UNCHANGED <<settings, preferences, spoken, changes, found, waiting, current,
                               step, wanted, sent, dropped, counted>>
      /\ pc' = IF pokes' = {} \/ ~e.installation THEN "done" ELSE "expand"
  BY DEF suppressBotChatter
<1>3. /\ pokes' = Raised' /\ believed' \in {"none", "yes", "no"} /\ read' \in Answers
      /\ read'.teams = {} /\ read'.starter = Nobody /\ read'.thread = {}
      /\ read'.preferences = read.preferences
  <2>1. resolve' = resolve
    BY <1>2, ResolveStays
  <2>2. CASE pokes' = resolve /\ UNCHANGED <<believed, read>>
    BY <1>1, <2>1, <2>2 DEF Raised, Spoken, RoutingTypeOK, Typed
  <2>3. CASE \E answer \in {IF allowedByAnybody THEN "yes" ELSE "no"} \cup ({believed} \ {"none"}) :
               /\ believed' = answer
               /\ pokes' = IF answer = "yes" THEN resolve
                           ELSE {p \in resolve : p.type \notin BOT_CHATTER_TYPES}
               /\ Learn("chatter", answer)
    <3>1. PICK answer \in {"yes", "no"} :
               /\ believed' = answer
               /\ pokes' = IF answer = "yes" THEN resolve
                           ELSE {p \in resolve : p.type \notin BOT_CHATTER_TYPES}
               /\ Learn("chatter", answer)
      BY <1>1, <2>3 DEF RoutingTypeOK
    <3>2. /\ read'.chatter = answer /\ read' \in Answers
          /\ read'.teams = {} /\ read'.starter = Nobody /\ read'.thread = {}
          /\ read'.preferences = read.preferences
      BY <1>1, <3>1, LearnIs DEF Typed
    <3>3. pokes' = Raised'
      BY <2>1, <3>1, <3>2 DEF Raised, Spoken
    <3> QED BY <3>1, <3>2, <3>3
  <2> QED BY <2>2, <2>3 DEF suppressBotChatter
<1>4. Typed' /\ Idle'
  BY <1>1, <1>2, <1>3 DEF Typed, Replied, Idle
<1>5. RoutingTypeOK'
  <2>1. (\A p \in Raised \cup Expanded \cup Resolved \cup Grouped : WellFormed(p))'
    BY <1>4, CandidatesWellFormed, PTL
  <2>2. pokes' = Candidate({"id", "login", "team", "thread"})'
    BY <1>3, <2>1 DEF WellFormed, Candidate
  <2>3. wanted' \subseteq pokes'
    BY <1>4 DEF Idle
  <2> QED BY <1>1, <1>2, <1>3, <2>2, <2>3 DEF RoutingTypeOK
<1>6. Stages' /\ NotYet'
  <2>1. (Raised = {} => Grouped = {})'
    BY NothingRaised, PTL
  <2> QED BY <1>2, <1>3, <1>4, <2>1 DEF Stages, NotYet, Idle
<1>7. ThreadRead' /\ Through'
  BY <1>1, <1>2, <1>3, <1>4 DEF Through, ThreadRead, Idle
<1>8. TurnsToCome' /\ InHand' /\ SentWell' /\ Tally'
  BY <1>4, IdleIsFine, PTL DEF Typed
<1> QED BY <1>4, <1>5, <1>6, <1>7, <1>8 DEF IInv

LEMMA ExpandIInv == IInv /\ expandTeamRecipients => IInv'
<1> SUFFICES ASSUME IInv, expandTeamRecipients PROVE IInv'
  OBVIOUS
<1>1. /\ Idle /\ Typed /\ RoutingTypeOK /\ ThreadRead /\ pokes = Raised
      /\ read.teams = {} /\ read.starter = Nobody /\ read.thread = {}
  BY DEF IInv, NotYet, Stages, expandTeamRecipients
<1>2. /\ UNCHANGED <<e, settings, preferences, spoken, believed, changes, found, waiting, current,
                     step, wanted, sent, dropped, counted>>
      /\ pc' = "replies"
  BY DEF expandTeamRecipients, world
<1>3. PICK answered \in SUBSET (IF e.org THEN OwnTeams ELSE {}) :
        /\ pokes' = {p \in pokes : p.by # "team"} \cup
                       UNION {{toMember(p, a) : a \in TeamMembers[p.to]} :
                                p \in {p \in pokes : p.by = "team" /\ p.to \in answered}}
        /\ Learn("teams", answered)
  BY DEF expandTeamRecipients
<1>4. /\ read'.chatter = read.chatter /\ read'.teams = answered
      /\ read'.starter = Nobody /\ read'.thread = {} /\ read'.preferences = read.preferences
      /\ read' \in Answers
  BY <1>1, <1>3, LearnIs, TeamsAssumption DEF Typed
<1>5. pokes' = Expanded'
  <2>1. Raised' = Raised
    BY <1>2, <1>4, StagesStay
  <2> QED BY <1>1, <1>3, <1>4, <2>1 DEF Expanded
<1>6. Typed' /\ Idle'
  BY <1>1, <1>2, <1>3, <1>4 DEF Typed, Replied, Idle
<1>7. RoutingTypeOK'
  <2>1. (\A p \in Raised \cup Expanded \cup Resolved \cup Grouped : WellFormed(p))'
    BY <1>6, CandidatesWellFormed, PTL
  <2>2. pokes' = Candidate({"id", "login", "team", "thread"})'
    BY <1>5, <2>1 DEF WellFormed, Candidate
  <2> QED BY <1>1, <1>2, <1>6, <2>2 DEF RoutingTypeOK, Idle
<1>8. Stages' /\ NotYet' /\ ThreadRead' /\ Through'
  BY <1>2, <1>4, <1>5, <1>6 DEF Stages, NotYet, ThreadRead, Through, Idle
<1>9. TurnsToCome' /\ InHand' /\ SentWell' /\ Tally'
  BY <1>6, IdleIsFine, PTL DEF Typed
<1> QED BY <1>6, <1>7, <1>8, <1>9 DEF IInv

LEMMA RepliesIInv == IInv /\ resolveReplyTargets => IInv'
<1> SUFFICES ASSUME IInv, resolveReplyTargets PROVE IInv'
  OBVIOUS
<1>1. /\ Idle /\ Typed /\ RoutingTypeOK /\ pokes = Expanded
      /\ read.starter = Nobody /\ read.thread = {}
  BY DEF IInv, NotYet, Stages, resolveReplyTargets
<1>2. /\ UNCHANGED <<e, settings, preferences, spoken, believed, changes, found, waiting, current,
                     step, wanted, sent, dropped, counted>>
      /\ pc' = "group"
  BY DEF resolveReplyTargets, world
<1>3. PICK starter \in {AuthorOf[p.to] : p \in replies} \cup {Nobody} :
        /\ pokes' = (pokes \ replies)
                       \cup toEach(replies, spokenThere \ {starter, e.sender})
                       \cup (IF starter = Nobody THEN {}
                             ELSE {toStarter(p, starter) : p \in replies})
        /\ LearnThread(starter, spokenThere \ {starter, e.sender})
  BY DEF resolveReplyTargets
<1>31. replies = Replies
  BY <1>1 DEF replies, Replies
<1> DEFINE others == spokenThere \ {starter, e.sender}
<1>4. \A p \in Replies : p.to \in Comments /\ Replied
  <2>1. \A p \in Replies : ForThread(p)
    BY ExpandedIs DEF Replies, AsksPerson, MemberAsked, ForAuthor, ForLogin, MemberNamed, Poke
  <2> QED BY <1>1, <2>1 DEF ForThread, Replied, Poke, Typed, Payload
<1>5. starter \in Accounts \cup {Nobody} /\ others \subseteq Accounts
  BY <1>1, <1>31, <1>4, AuthorAssumption DEF RoutingTypeOK, spokenThere
<1>6. /\ read'.chatter = read.chatter /\ read'.teams = read.teams
      /\ read'.starter = starter /\ read'.thread = others
      /\ read'.preferences = read.preferences /\ read' \in Answers
  BY <1>1, <1>3, <1>5, LearnThreadIs DEF Typed
<1>7. pokes' = Resolved'
  <2>1. Expanded' = Expanded
    BY <1>2, <1>6, StagesStay
  <2>2. Replies' = Replies
    BY <2>1 DEF Replies
  <2> QED BY <1>1, <1>3, <1>31, <1>6, <2>1, <2>2 DEF Resolved
<1>8. Typed' /\ Idle' /\ ThreadRead'
  <2>1. ~Replied => starter = Nobody /\ others = {}
    BY <1>3, <1>31, <1>4 DEF spokenThere
  <2>2. starter \notin others /\ e.sender \notin others
    OBVIOUS
  <2> HIDE DEF others
  <2>4. ThreadRead'
    BY <1>2, <1>6, <2>2 DEF ThreadRead
  <2>3. Replied' = Replied
    BY <1>2 DEF Replied
  <2> QED BY <1>1, <1>2, <1>6, <2>1, <2>3, <2>4 DEF Typed, Idle
<1>9. RoutingTypeOK'
  <2>1. (/\ \A p \in Raised \cup Expanded \cup Resolved \cup Grouped : WellFormed(p)
         /\ \A p \in Resolved \cup Grouped : p.by \in {"id", "login"})'
    BY <1>8, CandidatesWellFormed, PTL
  <2>2. \A p \in pokes' : WellFormed(p)' /\ p.by \in {"id", "login"}
    BY <1>7, <2>1
  <2>3. pokes' = Candidate({"id", "login", "team", "thread"})' /\ pokes' = Candidate({"id", "login"})'
    BY <2>2 DEF WellFormed, Candidate
  <2> QED BY <1>1, <1>2, <1>8, <2>3 DEF RoutingTypeOK, Idle
<1>10. Stages' /\ NotYet' /\ Through'
  BY <1>2, <1>6, <1>7, <1>8 DEF Stages, NotYet, Through, Idle
<1>11. TurnsToCome' /\ InHand' /\ SentWell' /\ Tally'
  BY <1>8, IdleIsFine, PTL DEF Typed
<1> QED BY <1>8, <1>9, <1>10, <1>11 DEF IInv

LEMMA GroupIInv == IInv /\ groupByUser => IInv'
<1> SUFFICES ASSUME IInv, groupByUser PROVE IInv'
  OBVIOUS
<1>1. Idle /\ Typed /\ RoutingTypeOK /\ ThreadRead /\ pokes = Resolved
  BY DEF IInv, NotYet, Stages, groupByUser
<1>2. /\ UNCHANGED <<e, settings, preferences, spoken, believed, changes, current, step, wanted,
                     sent, dropped, counted, read>>
      /\ pokes' = withoutAuthorReviewRequests(pokes)
      /\ waiting' = {readRecipient(p) : p \in pokes'} \ {Nobody}
      /\ found' = settings
      /\ pc' = IF waiting' = {} THEN "done" ELSE "loop"
  BY DEF groupByUser, world
<1>3. pokes' = Grouped'
  <2>1. Resolved' = Resolved
    BY <1>2, StagesStay
  <2> QED BY <1>1, <1>2, <2>1 DEF Grouped, withoutAuthorReviewRequests
<1>4. Typed' /\ ThreadRead'
  BY <1>1, <1>2 DEF Typed, Replied, ThreadRead
<1>5. \A p \in pokes' : WellFormed(p) /\ p.by \in {"id", "login"} /\ readRecipient(p) \in Users \cup {Nobody}
  <2>1. \A p \in pokes' : p \in Resolved
    BY <1>1, <1>2 DEF withoutAuthorReviewRequests
  <2>2. \A p \in Resolved : WellFormed(p) /\ p.by \in {"id", "login"}
    BY <1>1, CandidatesWellFormed
  <2>3. \A p \in Resolved : p.by = "login" => p.to \in Logins
    BY <1>1, ResolvedIs DEF AsksPerson, MemberAsked, ForAuthor, ForLogin, MemberNamed, ForStarter,
                            ForOthers, Poke, Typed, Payload
  <2> QED BY <2>1, <2>2, <2>3, HolderAssumption DEF readRecipient
<1>6. RoutingTypeOK'
  <2>1. pokes' = Candidate({"id", "login", "team", "thread"})' /\ pokes' = Candidate({"id", "login"})'
    BY <1>5 DEF WellFormed, Candidate
  <2>2. waiting' \subseteq Users /\ current' \notin waiting' /\ wanted' \subseteq pokes'
    BY <1>1, <1>2, <1>5 DEF Idle
  <2> QED BY <1>1, <1>2, <2>1, <2>2 DEF RoutingTypeOK
<1>7. Stages' /\ NotYet'
  BY <1>1, <1>2, <1>3 DEF Stages, NotYet, Idle
<1>8. Through'
  <2>1. \A p \in pokes' : readRecipient(p) \in Users => readRecipient(p) \in waiting'
    BY <1>2, UsersAssumption
  <2> QED BY <2>1 DEF Through, readRecipient
<1>9. \A u \in Users : Allowed(u)' = {}
  BY <1>1, <1>2 DEF Idle, Allowed, Listens
<1>10. TurnsToCome'
  BY <1>1, <1>2, <1>6, UsersAssumption
     DEF Idle, TurnsToCome, Untouched, Typed, Payload, RoutingTypeOK
<1>11. InHand' /\ SentWell' /\ Tally'
  BY <1>1, <1>2, <1>9 DEF Idle, InHand, SentWell, OnePokeEach, Tally, Silenced
<1> QED BY <1>4, <1>6, <1>7, <1>8, <1>10, <1>11 DEF IInv

\* What every step of the loop leaves as it was.
LEMMA LoopStays ==
    ASSUME IInv, pc = "loop", pc' \in {"loop", "done"},
           e' = e, preferences' = preferences, pokes' = pokes, found' = found,
           read' \in Answers, read'.chatter = read.chatter, read'.teams = read.teams,
           read'.starter = read.starter, read'.thread = read.thread
    PROVE  /\ Typed' /\ Stages' /\ ThreadRead' /\ pokes = Grouped
           /\ pokes' = Candidate({"id", "login", "team", "thread"})'
           /\ pokes' = Candidate({"id", "login"})'
<1>1. Typed /\ ThreadRead /\ RoutingTypeOK /\ pokes = Grouped
  BY DEF IInv, Stages
<1>2. Grouped' = Grouped
  BY StagesStay
<1>3. Typed' /\ ThreadRead'
  BY <1>1 DEF Typed, Replied, ThreadRead
<1>4. Stages'
  BY <1>1, <1>2 DEF Stages
<1>5. pokes' = Candidate({"id", "login", "team", "thread"})' /\ pokes' = Candidate({"id", "login"})'
  BY <1>1 DEF RoutingTypeOK, Candidate
<1> QED BY <1>1, <1>3, <1>4, <1>5

LEMMA AllKeptStay ==
    ASSUME e' = e, pokes' = pokes, found' = found, read'.preferences = read.preferences
    PROVE  \A u \in Users : Allowed(u)' = Allowed(u) /\ Kept(u)' = Kept(u)
BY KeptStays

LEMMA TakeIInv == ASSUME NEW u \in Users, IInv, takeNext(u) PROVE IInv'
<1>1. /\ RoutingTypeOK /\ Typed /\ TurnsToCome /\ SentWell /\ Through /\ Tally
      /\ pc = "loop" /\ current = Nobody /\ u \in waiting
  BY DEF IInv, takeNext
<1>2. /\ UNCHANGED <<e, settings, preferences, spoken, believed, pokes, found, wanted, sent, counted,
                     read>>
      /\ waiting' = waiting \ {u}
      /\ \/ /\ u = e.sender /\ pc' = (IF waiting' = {} THEN "done" ELSE "loop")
            /\ UNCHANGED <<current, step>>
         \/ u # e.sender /\ current' = u /\ step' = "preferences" /\ pc' = pc
  BY DEF takeNext, world
<1>3. /\ Typed' /\ Stages' /\ ThreadRead' /\ pokes = Grouped
      /\ pokes' = Candidate({"id", "login", "team", "thread"})'
      /\ pokes' = Candidate({"id", "login"})'
  BY <1>1, <1>2, LoopStays DEF Typed
<1>4. \A v \in Users : Allowed(v)' = Allowed(v) /\ Kept(v)' = Kept(v)
  BY <1>2, AllKeptStay
<1>5. RoutingTypeOK'
  BY <1>1, <1>2, <1>3, UsersAssumption DEF RoutingTypeOK
<1>6. NotYet'
  BY <1>1, <1>2 DEF NotYet
<1>7. \A v : Untouched(v)' <=> Untouched(v)
  BY <1>2 DEF Untouched
<1>8. TurnsToCome'
  BY <1>1, <1>2, <1>7 DEF TurnsToCome
<1>9. InHand'
  BY <1>1, <1>2 DEF InHand, TurnsToCome, Untouched
<1>10. \A p \in sent : p.to \in Users
  BY <1>1 DEF RoutingTypeOK
<1>11. SentWell'
  BY <1>1, <1>2, <1>4, <1>10 DEF SentWell, OnePokeEach, Cleared, Best
<1>12. Through'
  <2>1. \A v \in Users : Served(v)' <=> Served(v)
    BY <1>2, <1>4 DEF Served
  <2>2. ASSUME NEW p \in pokes', readRecipient(p) \in Users \ (waiting' \cup {current'})
        PROVE  Served(readRecipient(p))
    <3>1. CASE readRecipient(p) = u
      BY <1>2, <2>2, <3>1 DEF Served
    <3>2. CASE readRecipient(p) # u
      BY <1>1, <1>2, <2>2, <3>2, UsersAssumption DEF Through
    <3> QED BY <3>1, <3>2
  <2>3. \A p : readRecipient(p)' = readRecipient(p)
    BY DEF readRecipient
  <2> QED BY <2>1, <2>2, <2>3 DEF Through
<1>13. Tally'
  <2>1. \A v \in Users : (\E p \in sent : p.to = v) => <<v, "reached">> \in counted
    BY <1>1, UsersAssumption DEF Tally
  <2>2. \A v \in Users : Silenced(v)' <=> Silenced(v)
    BY <1>4 DEF Silenced
  <2>3. sent' = sent /\ counted' = counted
    BY <1>2
  <2> QED BY <1>1, <2>1, <2>2, <2>3, Zenon DEF Tally
<1> QED BY <1>3, <1>5, <1>6, <1>8, <1>9, <1>11, <1>12, <1>13 DEF IInv

\* Whoever is through stays served, and the reader in hand is when the loop moves on.
LEMMA ThroughStays ==
    ASSUME IInv, pc = "loop", pokes' = pokes, waiting' = waiting, NEW u \in Users, current = u,
           current' \in {u, Nobody}, current' = Nobody => Served(u)',
           \A v \in Users \ {u} : Served(v) => Served(v)'
    PROVE  Through'
<1>1. ASSUME NEW p \in pokes', readRecipient(p) \in Users \ (waiting' \cup {current'})
      PROVE  Served(readRecipient(p))'
  <2>1. CASE readRecipient(p) = u
    BY <1>1, <2>1, UsersAssumption
  <2>2. CASE readRecipient(p) # u
    BY <1>1, <2>2, UsersAssumption DEF IInv, Through
  <2> QED BY <2>1, <2>2
<1>2. \A p : readRecipient(p)' = readRecipient(p)
  BY DEF readRecipient
<1> QED BY <1>1, <1>2 DEF Through

LEMMA GatesIInv == ASSUME NEW u \in Users, IInv, gates(u) PROVE IInv'
<1> DEFINE p == preferences[u]
           allowed == {c \in candidatesOf(u) :
                         ~isPokeTypeMuted(found[u], c.type) /\ isNotificationAllowed(p, c.type)}
           kept == {c \in allowed : botDropReason(found[u], c.type) = "null"}
           moves == /\ current' = Nobody /\ step' = "next" /\ wanted' = wanted
                    /\ pc' = IF waiting = {} THEN "done" ELSE "loop"
<1>1. /\ RoutingTypeOK /\ Typed /\ TurnsToCome /\ InHand /\ SentWell /\ Through /\ Tally
      /\ pc = "loop" /\ current = u /\ step = "preferences" /\ u # e.sender /\ Untouched(u)
      /\ u \notin waiting
  BY UsersAssumption DEF IInv, gates, TurnsToCome, RoutingTypeOK
<1>2. /\ UNCHANGED <<e, settings, preferences, spoken, believed, pokes, found, waiting, sent>>
      /\ Learn("preferences", [read.preferences EXCEPT ![u] = p])
  BY DEF gates, world, Drop
<1>3. \/ p = NoSubscription /\ moves /\ counted' = counted
      \/ p # NoSubscription /\ allowed = {} /\ moves /\ counted' = counted
      \/ p # NoSubscription /\ allowed # {} /\ kept = {} /\ moves
           /\ counted' = counted \cup {<<u, "held">>}
      \/ /\ p # NoSubscription /\ kept # {} /\ wanted' = kept /\ step' = "access" /\ pc' = pc
         /\ current' = current /\ counted' = counted
  BY DEF gates, Drop
<1> HIDE DEF kept, allowed, moves
<1>4. /\ read'.chatter = read.chatter /\ read'.teams = read.teams /\ read'.starter = read.starter
      /\ read'.thread = read.thread /\ read' \in Answers /\ read'.access = read.access
      /\ read'.preferences = [read.preferences EXCEPT ![u] = p]
  <2>1. read.preferences \in [Users -> NotificationPreferences \cup {NoSubscription}]
    BY <1>1 DEF Typed, Answers
  <2> QED BY <1>1, <1>2, <2>1, LearnIs DEF Typed
<1>5. /\ Typed' /\ Stages' /\ ThreadRead' /\ pokes = Grouped
      /\ pokes' = Candidate({"id", "login", "team", "thread"})'
      /\ pokes' = Candidate({"id", "login"})'
  BY <1>1, <1>2, <1>3, <1>4, LoopStays DEF moves
<1>6. read'.preferences[u] = p /\ \A v \in Users \ {u} : read'.preferences[v] = read.preferences[v]
  BY <1>1, <1>4 DEF Typed, Answers
<1>7. \A v \in Users \ {u} : Allowed(v)' = Allowed(v) /\ Kept(v)' = Kept(v)
  BY <1>2, <1>6, KeptStays
<1>8. /\ p = NoSubscription => Allowed(u)' = {}
      /\ p # NoSubscription => Allowed(u)' = allowed /\ Kept(u)' = kept
  <2>1. p \in NotificationPreferences \cup {NoSubscription}
    BY <1>1 DEF Typed
  <2>2. GatesListen'
    BY GateIsListening, PTL
  <2>3. candidatesOf(u)' = candidatesOf(u)
    BY <1>2 DEF candidatesOf, readRecipient
  <2>4. ASSUME p = NoSubscription PROVE Allowed(u)' = {}
    BY <1>6, <2>4 DEF Allowed, Listens
  <2>5. ASSUME p # NoSubscription PROVE Allowed(u)' = allowed
    <3>1. \A type : Listens(u, type)' <=> /\ ~isPokeTypeMuted(found[u], type)
                                         /\ isNotificationAllowed(p, type)
      BY <1>2, <1>6, <2>1, <2>2, <2>5 DEF GatesListen, isPokeTypeMuted, isNotificationAllowed
    <3> QED BY <2>3, <3>1 DEF Allowed, allowed
  <2>6. ASSUME p # NoSubscription PROVE Kept(u)' = kept
    <3>1. \A type : botDropReason(found[u], type)' = botDropReason(found[u], type)
      BY <1>2 DEF botDropReason, isBotFor, isAllowed, isBlocked
    <3> QED BY <2>5, <2>6, <3>1 DEF Kept, kept
  <2> QED BY <2>4, <2>5, <2>6
<1>9. /\ Silenced(u)' <=> <<u, "held">> \in counted'
      /\ moves => Kept(u)' = {}
      /\ ~moves => /\ Kept(u)' # {} /\ wanted' = Kept(u)' /\ step' = "access" /\ pc' = pc
                   /\ current' = u /\ counted' = counted
      /\ counted' \subseteq counted \cup {<<u, "held">>} /\ counted \subseteq counted'
  <2>1. <<u, "held">> \notin counted
    BY <1>1 DEF Untouched
  <2>2. Kept(u)' \subseteq Allowed(u)'
    BY DEF Kept
  <2>3. kept \subseteq allowed
    BY DEF kept
  <2>4. moves => current' = Nobody
    BY DEF moves
  <2> QED BY <1>1, <1>3, <1>8, <2>1, <2>2, <2>3, <2>4, UsersAssumption DEF Silenced
<1>10. RoutingTypeOK'
  <2>1. wanted' \subseteq pokes'
    BY <1>1, <1>2, <1>9 DEF RoutingTypeOK, moves, Kept, Allowed, candidatesOf
  <2>2. /\ pc' \in {"loop", "done"} /\ step' \in {"next", "access"}
        /\ current' \in Users \cup {Nobody} /\ current' \notin waiting'
        /\ (current' = Nobody) = (step' = "next")
    BY <1>1, <1>2, <1>9, UsersAssumption DEF RoutingTypeOK, moves
  <2>3. counted' \subseteq Users \X {"reached", "held"}
    BY <1>1, <1>9 DEF RoutingTypeOK
  <2>4. /\ settings' \in [Users -> SettingsChoices] /\ found' \in [Users -> SettingsChoices]
        /\ preferences' \in [Users -> PreferenceChoices]
        /\ spoken' \in [Comments -> SUBSET Accounts]
        /\ believed' \in {"none", "yes", "no"} /\ waiting' \subseteq Users
        /\ sent' \subseteq [to: Users, type: NotificationType, via: Teams \cup {NoTeam},
                           starter: BOOLEAN]
    BY <1>1, <1>2 DEF RoutingTypeOK
  <2>5. /\ pc' \in {"remember", "suppress", "expand", "replies", "group", "loop", "done", "failed"}
        /\ step' \in {"next", "preferences", "access", "submit", "record"}
    BY <2>2
  <2> QED BY <1>5, <2>1, <2>2, <2>3, <2>4, <2>5, Zenon DEF RoutingTypeOK
<1>11. NotYet'
  BY <1>1, <1>2, <1>9 DEF NotYet, moves
<1>12. TurnsToCome'
  <2>1. \A v \in Users \ {u} : Untouched(v) => Untouched(v)'
    BY <1>2, <1>6, <1>9 DEF Untouched
  <2>2. e.sender # Nobody
    BY <1>1, UsersAssumption DEF Typed, Payload
  <2>3. current' \in {u, Nobody} /\ (current' # Nobody => step' = "access")
    BY <1>9 DEF moves
  <2>4. waiting \subseteq Users \ {u}
    BY <1>1 DEF RoutingTypeOK
  <2> QED BY <1>1, <1>2, <2>1, <2>2, <2>3, <2>4 DEF TurnsToCome
<1>13. InHand'
  <2>1. <<u, "reached">> \notin counted'
    BY <1>1, <1>9 DEF Untouched
  <2> QED BY <1>1, <1>2, <1>9, <2>1 DEF InHand, moves, Untouched
<1>14. SentWell'
  <2>1. \A q \in sent : q.to \in Users \ {u}
    BY <1>1 DEF RoutingTypeOK, Untouched
  <2> QED BY <1>1, <1>2, <1>4, <1>7, <2>1 DEF SentWell, OnePokeEach, Cleared, Best
<1>15. Through'
  <2>1. \A v \in Users \ {u} : Served(v) => Served(v)'
    BY <1>2, <1>4, <1>7 DEF Served
  <2>2. current' \in {u, Nobody} /\ (current' = Nobody => Served(u)')
    BY <1>9, UsersAssumption DEF moves, Served
  <2> QED BY <1>1, <1>2, <2>1, <2>2, ThroughStays
<1>16. Tally'
  <2>1. \A v \in Users \ {u} : Silenced(v)' <=> Silenced(v)
    BY <1>7 DEF Silenced
  <2>2. \A q \in sent : q.to # u
    BY <1>1 DEF Untouched
  <2>3. \A v, o : v # u \/ o = "reached" => (<<v, o>> \in counted' <=> <<v, o>> \in counted)
    BY <1>9
  <2>4. sent' = sent
    BY <1>2
  <2>5. ASSUME NEW v \in Users
        PROVE  /\ <<v, "reached">> \in counted' => \E q \in sent' : q.to = v
               /\ (\E q \in sent' : q.to = v) /\ v # current' => <<v, "reached">> \in counted'
               /\ <<v, "held">> \in counted' <=> Silenced(v)'
    <3>1. CASE v = u
      <4>1. <<u, "reached">> \notin counted
        BY <1>1 DEF Untouched
      <4>2. <<u, "reached">> \notin counted' /\ ~\E q \in sent' : q.to = u
        BY <2>2, <2>3, <2>4, <4>1
      <4>3. Silenced(u)' <=> <<u, "held">> \in counted'
        BY <1>9
      <4> QED BY <3>1, <4>2, <4>3, Zenon
    <3>2. CASE v # u
      <4>1. /\ <<v, "reached">> \in counted => \E q \in sent : q.to = v
            /\ (\E q \in sent : q.to = v) => <<v, "reached">> \in counted
            /\ <<v, "held">> \in counted <=> Silenced(v)
        BY <1>1, <3>2, Zenon DEF Tally
      <4> QED BY <2>1, <2>3, <2>4, <3>2, <4>1
    <3> QED BY <3>1, <3>2
  <2> QED BY <2>5, Zenon DEF Tally
<1> QED BY <1>5, <1>10, <1>11, <1>12, <1>13, <1>14, <1>15, <1>16 DEF IInv

LEMMA AccessIInv == ASSUME NEW u \in Users, IInv, maySeeRepository(u) PROVE IInv'
<1>1. /\ RoutingTypeOK /\ Typed /\ TurnsToCome /\ InHand /\ SentWell /\ Through /\ Tally
      /\ pc = "loop" /\ current = u /\ step = "access" /\ u # e.sender /\ u \notin waiting
      /\ \A q \in sent : q.to \in Users \ {u}
      /\ wanted = Kept(u) /\ wanted # {} /\ <<u, "reached">> \notin counted
  BY UsersAssumption DEF IInv, maySeeRepository, TurnsToCome, RoutingTypeOK, InHand
<1>2. UNCHANGED <<e, settings, preferences, spoken, believed, pokes, found, waiting, sent, wanted,
                  counted>>
  BY DEF maySeeRepository, world, Drop
<1>3. PICK answer \in IF e.private THEN {"yes", "no", "unknown"} ELSE {"public"} :
        /\ Learn("access", [read.access EXCEPT ![u] = answer])
        /\ IF answer \in {"yes", "public"}
           THEN step' = "submit" /\ pc' = "loop" /\ current' = u
           ELSE /\ current' = Nobody /\ step' = "next"
                /\ pc' = IF waiting = {} THEN "done" ELSE "loop"
  BY <1>1 DEF maySeeRepository, Drop
<1>4. /\ read'.chatter = read.chatter /\ read'.teams = read.teams /\ read'.starter = read.starter
      /\ read'.thread = read.thread /\ read' \in Answers /\ read'.preferences = read.preferences
      /\ read'.access[u] = answer /\ \A v \in Users \ {u} : read'.access[v] = read.access[v]
  <2>1. read.access \in [Users -> Asked] /\ answer \in Asked
    BY <1>1, <1>3 DEF Typed, Answers, Asked
  <2>2. read'.access = [read.access EXCEPT ![u] = answer]
    BY <1>1, <1>3, LearnIs DEF Typed
  <2> QED BY <1>1, <1>3, <2>1, <2>2, LearnIs DEF Typed
<1>5. /\ Typed' /\ Stages' /\ ThreadRead' /\ pokes = Grouped
      /\ pokes' = Candidate({"id", "login", "team", "thread"})'
      /\ pokes' = Candidate({"id", "login"})'
  BY <1>1, <1>2, <1>3, <1>4, LoopStays
<1>6. \A v \in Users : Allowed(v)' = Allowed(v) /\ Kept(v)' = Kept(v)
  BY <1>2, <1>4, AllKeptStay
<1>7. RoutingTypeOK'
  <2>1. /\ pc' \in {"remember", "suppress", "expand", "replies", "group", "loop", "done", "failed"}
        /\ step' \in {"next", "preferences", "access", "submit", "record"}
        /\ current' \in Users \cup {Nobody} /\ current' \notin waiting'
        /\ (current' = Nobody) = (step' = "next")
    BY <1>1, <1>2, <1>3, UsersAssumption DEF RoutingTypeOK
  <2> QED BY <1>1, <1>2, <1>5, <2>1 DEF RoutingTypeOK
<1>8. NotYet'
  BY <1>1, <1>2, <1>3 DEF NotYet
<1>9. TurnsToCome'
  <2>1. \A v : Untouched(v)' <=> Untouched(v)
    BY <1>2, <1>4 DEF Untouched
  <2>2. e.sender # Nobody
    BY <1>1, UsersAssumption DEF Typed, Payload
  <2>3. current' \in {u, Nobody} /\ (current' # Nobody => step' = "submit")
    BY <1>3
  <2> QED BY <1>1, <1>2, <2>1, <2>2, <2>3 DEF TurnsToCome
<1>10. InHand'
  <2>1. current' # Nobody =>
          /\ pc' = "loop" /\ step' = "submit" /\ current' = u
          /\ answer \in {"yes", "public"} /\ (e.private => answer = "yes")
    BY <1>3
  <2> QED BY <1>1, <1>2, <1>4, <1>6, <2>1 DEF InHand, Cleared
<1>11. SentWell'
  BY <1>1, <1>2, <1>4, <1>6 DEF SentWell, OnePokeEach, Cleared, Best
<1>12. Through'
  <2>1. \A v \in Users \ {u} : Served(v) => Served(v)'
    BY <1>2, <1>4, <1>6 DEF Served
  <2>2. current' \in {u, Nobody} /\ (current' = Nobody => Served(u)')
    BY <1>3, <1>4, UsersAssumption DEF Served
  <2> QED BY <1>1, <1>2, <2>1, <2>2, ThroughStays
<1>13. Tally'
  <2>1. \A v \in Users : Silenced(v)' <=> Silenced(v)
    BY <1>6 DEF Silenced
  <2>2. sent' = sent /\ counted' = counted
    BY <1>2
  <2>3. \A v \in Users : (\E p \in sent : p.to = v) => <<v, "reached">> \in counted
    BY <1>1 DEF Tally
  <2> QED BY <1>1, <2>1, <2>2, <2>3, Zenon DEF Tally
<1> QED BY <1>5, <1>7, <1>8, <1>9, <1>10, <1>11, <1>12, <1>13 DEF IInv

LEMMA SubmitIInv == ASSUME NEW u \in Users, IInv, submit(u) PROVE IInv'
<1>1. /\ RoutingTypeOK /\ Typed /\ TurnsToCome /\ InHand /\ SentWell /\ Through /\ Tally
      /\ pc = "loop" /\ current = u /\ step = "submit" /\ u # e.sender /\ u \notin waiting /\ u # Nobody
      /\ \A q \in sent : q.to \in Users \ {u}
      /\ wanted = Kept(u) /\ wanted # {} /\ <<u, "reached">> \notin counted /\ Cleared(u)
      /\ read.access[u] \notin {"no", "unknown"}
  BY UsersAssumption DEF IInv, submit, TurnsToCome, RoutingTypeOK, InHand
<1>2. /\ UNCHANGED <<e, settings, preferences, spoken, believed, pokes, found, waiting, wanted,
                     counted, read, pc, current>>
      /\ step' = "record"
  BY DEF submit, world
<1>3. PICK c \in wanted :
        /\ \A d \in wanted : comparePriority(c.type, d.type) <= 0
        /\ sent' = sent \cup
             {[to |-> u, type |-> c.type, via |-> c.via, starter |-> c.starter]}
  BY DEF submit
<1> DEFINE new == [to |-> u, type |-> c.type, via |-> c.via, starter |-> c.starter]
<1>4. /\ Typed' /\ Stages' /\ ThreadRead' /\ pokes = Grouped
      /\ pokes' = Candidate({"id", "login", "team", "thread"})'
      /\ pokes' = Candidate({"id", "login"})'
  BY <1>1, <1>2, LoopStays DEF Typed
<1>5. \A v \in Users : Allowed(v)' = Allowed(v) /\ Kept(v)' = Kept(v)
  BY <1>2, AllKeptStay
<1>6. new.to = u /\ new.type = c.type
  OBVIOUS
<1>7. new \in [to: Users, type: NotificationType, via: Teams \cup {NoTeam}, starter: BOOLEAN]
  <2>1. c \in Grouped
    BY <1>1, <1>3, <1>4 DEF RoutingTypeOK
  <2>2. WellFormed(c)
    BY <1>1, <2>1, CandidatesWellFormed
  <2> QED BY <2>2 DEF WellFormed
<1> HIDE DEF new
<1>8. RoutingTypeOK'
  <2>1. sent' \subseteq [to: Users, type: NotificationType, via: Teams \cup {NoTeam}, starter: BOOLEAN]
    BY <1>1, <1>3, <1>7 DEF RoutingTypeOK, new
  <2> QED BY <1>1, <1>2, <1>4, <2>1 DEF RoutingTypeOK
<1>9. NotYet'
  BY <1>1, <1>2 DEF NotYet
<1>10. TurnsToCome'
  <2>1. \A v : v # u /\ Untouched(v) => Untouched(v)'
    BY <1>2, <1>3, <1>6 DEF Untouched, new
  <2> QED BY <1>1, <1>2, <2>1 DEF TurnsToCome
<1>11. InHand'
  <2>1. \E p \in sent' : p.to = u
    BY <1>3, <1>6 DEF new
  <2> QED BY <1>1, <1>2, <2>1 DEF InHand, Cleared
<1>12. SentWell'
  <2>1. \A v \in Users : Cleared(v)' <=> Cleared(v)
    BY <1>2 DEF Cleared
  <2>2. \A v \in Users : \A type : Best(v, type)' <=> Best(v, type)
    BY <1>5 DEF Best
  <2>3. Best(u, c.type)
    BY <1>1, <1>3 DEF Best
  <2>4. \A p \in sent' : p \in sent \/ p = new
    BY <1>3 DEF new
  <2>5. OnePokeEach'
    BY <1>1, <1>6, <2>4 DEF SentWell, OnePokeEach
  <2>6. \A p \in sent' : Cleared(p.to)' /\ Best(p.to, p.type)'
    BY <1>1, <1>6, <2>1, <2>2, <2>3, <2>4 DEF SentWell
  <2> QED BY <2>5, <2>6 DEF SentWell
<1>13. Through'
  <2>1. \A v \in Users : Served(v) => Served(v)'
    BY <1>2, <1>3, <1>5 DEF Served
  <2> QED BY <1>1, <1>2, <2>1, ThroughStays
<1>14. Tally'
  <2>1. \A v \in Users : Silenced(v)' <=> Silenced(v)
    BY <1>5 DEF Silenced
  <2>2. \A v : v # u => ((\E p \in sent' : p.to = v) <=> (\E p \in sent : p.to = v))
    BY <1>3, <1>6 DEF new
  <2>3. counted' = counted /\ current' = u
    BY <1>1, <1>2
  <2> QED BY <1>1, <2>1, <2>2, <2>3, Zenon DEF Tally
<1> QED BY <1>4, <1>8, <1>9, <1>10, <1>11, <1>12, <1>13, <1>14 DEF IInv

LEMMA RecordIInv == ASSUME NEW u \in Users, IInv, record(u) PROVE IInv'
<1>1. /\ RoutingTypeOK /\ Typed /\ TurnsToCome /\ InHand /\ SentWell /\ Through /\ Tally
      /\ pc = "loop" /\ current = u /\ step = "record" /\ u # e.sender /\ u \notin waiting /\ u # Nobody
      /\ \E p \in sent : p.to = u
  BY UsersAssumption DEF IInv, record, TurnsToCome, RoutingTypeOK, InHand
<1>2. /\ UNCHANGED <<e, settings, preferences, spoken, believed, pokes, found, waiting, wanted, sent,
                     read>>
      /\ current' = Nobody /\ step' = "next" /\ pc' = (IF waiting = {} THEN "done" ELSE "loop")
      /\ counted' = counted \cup {<<u, "reached">>}
  BY DEF record, world
<1>3. /\ Typed' /\ Stages' /\ ThreadRead' /\ pokes = Grouped
      /\ pokes' = Candidate({"id", "login", "team", "thread"})'
      /\ pokes' = Candidate({"id", "login"})'
  BY <1>1, <1>2, LoopStays DEF Typed
<1>4. \A v \in Users : Allowed(v)' = Allowed(v) /\ Kept(v)' = Kept(v)
  BY <1>2, AllKeptStay
<1>5. RoutingTypeOK'
  BY <1>1, <1>2, <1>3, UsersAssumption DEF RoutingTypeOK
<1>6. NotYet'
  BY <1>1, <1>2 DEF NotYet
<1>7. TurnsToCome'
  <2>1. \A v : v # u /\ Untouched(v) => Untouched(v)'
    BY <1>2 DEF Untouched
  <2>2. e.sender # Nobody
    BY <1>1, UsersAssumption DEF Typed, Payload
  <2> QED BY <1>1, <1>2, <2>1, <2>2 DEF TurnsToCome
<1>8. InHand'
  BY <1>2 DEF InHand
<1>9. \A p \in sent : p.to \in Users
  BY <1>1 DEF RoutingTypeOK
<1>10. SentWell'
  BY <1>1, <1>2, <1>4, <1>9 DEF SentWell, OnePokeEach, Cleared, Best
<1>11. Through'
  <2>1. \A v \in Users : Served(v) => Served(v)'
    BY <1>2, <1>4 DEF Served
  <2>2. Served(u)'
    BY <1>1, <1>2 DEF Served
  <2> QED BY <1>1, <1>2, <2>1, <2>2, ThroughStays
<1>12. Tally'
  <2>1. \A v \in Users : Silenced(v)' <=> Silenced(v)
    BY <1>4 DEF Silenced
  <2>2. \A v, o : <<v, o>> \in counted' <=> <<v, o>> \in counted \/ (v = u /\ o = "reached")
    BY <1>2
  <2>3. sent' = sent /\ "held" # "reached"
    BY <1>2
  <2> QED BY <1>1, <2>1, <2>2, <2>3, Zenon DEF Tally
<1> QED BY <1>3, <1>5, <1>6, <1>7, <1>8, <1>10, <1>11, <1>12 DEF IInv

\* Only where the handler is may have changed, and only to where it fails.
LEMMA HandlerStays ==
    ASSUME IInv, pc' \in {pc, "failed"}, e' = e,
           UNCHANGED <<pokes, found, waiting, current, step, wanted, sent, dropped, counted, read>>,
           current # Nobody => pc = "loop" \/ pc' = pc,
           current # Nobody /\ step = "record" => pc' = pc
    PROVE  /\ Stages' /\ NotYet' /\ ThreadRead' /\ TurnsToCome' /\ InHand' /\ SentWell' /\ Through'
           /\ Tally' /\ Candidate({"id", "login", "team", "thread"})' =
                          Candidate({"id", "login", "team", "thread"})
           /\ Candidate({"id", "login"})' = Candidate({"id", "login"})
<1>1. Raised' = Raised /\ Expanded' = Expanded /\ Resolved' = Resolved /\ Grouped' = Grouped
  BY StagesStay
<1>2. \A v \in Users : Allowed(v)' = Allowed(v) /\ Kept(v)' = Kept(v)
  BY AllKeptStay
<1>3. \A p \in sent : p.to \in Users
  BY DEF IInv, RoutingTypeOK
<1>4. Stages' /\ NotYet' /\ ThreadRead'
  BY <1>1 DEF IInv, Stages, NotYet, ThreadRead, Idle
<1>5. TurnsToCome'
  <2>1. \A v : Untouched(v)' <=> Untouched(v)
    BY DEF Untouched
  <2> QED BY <2>1 DEF IInv, TurnsToCome
<1>6. InHand'
  BY <1>2 DEF IInv, InHand, Cleared, RoutingTypeOK
<1>7. SentWell'
  BY <1>2, <1>3 DEF IInv, SentWell, OnePokeEach, Cleared, Best
<1>8. Through'
  <2>1. \A v \in Users : Served(v)' <=> Served(v)
    BY <1>2 DEF Served
  <2>2. \A p : readRecipient(p)' = readRecipient(p)
    BY DEF readRecipient
  <2> QED BY <2>1, <2>2 DEF IInv, Through
<1>9. Tally'
  <2>1. \A v \in Users : Silenced(v)' <=> Silenced(v)
    BY <1>2 DEF Silenced
  <2> QED BY <2>1, Zenon DEF IInv, Tally
<1>10. /\ Candidate({"id", "login", "team", "thread"})' = Candidate({"id", "login", "team", "thread"})
       /\ Candidate({"id", "login"})' = Candidate({"id", "login"})
  BY DEF Candidate
<1> QED BY <1>4, <1>5, <1>6, <1>7, <1>8, <1>9, <1>10

LEMMA ThrowsIInv == IInv /\ Throws => IInv'
<1> SUFFICES ASSUME IInv, Throws PROVE IInv'
  OBVIOUS
<1>1. /\ UNCHANGED <<e, settings, preferences, spoken, believed, pokes, found, waiting, current, step,
                     wanted, sent, dropped, counted, read>>
      /\ pc' = "failed"
      /\ current # Nobody => pc = "loop"
      /\ current # Nobody => step # "record"
  BY DEF Throws, world, IInv, InHand, NotYet, Idle
<1>2. Typed'
  BY <1>1 DEF IInv, Typed, Replied
<1>3. RoutingTypeOK'
  BY <1>1, HandlerStays DEF IInv, RoutingTypeOK
<1> QED BY <1>1, <1>2, <1>3, HandlerStays DEF IInv

LEMMA ChangeIInv == IInv /\ Change => IInv'
<1> SUFFICES ASSUME IInv, Change PROVE IInv'
  OBVIOUS
<1>1. UNCHANGED <<e, believed, pc, pokes, found, waiting, current, step, wanted, sent, dropped,
                  counted, read>>
  BY DEF Change, handler
<1>2. /\ settings' \in [Users -> SettingsChoices]
      /\ preferences' \in [Users -> PreferenceChoices]
      /\ spoken' \in [Comments -> SUBSET Accounts]
  BY DEF Change, IInv, RoutingTypeOK
<1>3. PreferenceChoices \subseteq NotificationPreferences \cup {NoSubscription}
  BY WorldsAssumption DEF PreferenceChoices
<1>4. Typed'
  BY <1>1, <1>2, <1>3 DEF IInv, Typed, Replied
<1>5. RoutingTypeOK'
  BY <1>1, <1>2, HandlerStays DEF IInv, RoutingTypeOK
<1> QED BY <1>1, <1>4, <1>5, HandlerStays DEF IInv

LEMMA NextIInv == IInv /\ [RoutingNext]_routingVars => IInv'
<1> SUFFICES ASSUME IInv, [RoutingNext]_routingVars PROVE IInv'
  OBVIOUS
<1>1. CASE rememberComment
  BY <1>1, RememberIInv
<1>2. CASE suppressBotChatter
  BY <1>2, SuppressIInv
<1>3. CASE expandTeamRecipients
  BY <1>3, ExpandIInv
<1>4. CASE resolveReplyTargets
  BY <1>4, RepliesIInv
<1>5. CASE groupByUser
  BY <1>5, GroupIInv
<1>6. ASSUME NEW u \in Users, takeNext(u) PROVE IInv'
  BY <1>6, TakeIInv
<1>7. ASSUME NEW u \in Users, gates(u) PROVE IInv'
  BY <1>7, GatesIInv
<1>8. ASSUME NEW u \in Users, maySeeRepository(u) PROVE IInv'
  BY <1>8, AccessIInv
<1>9. ASSUME NEW u \in Users, submit(u) PROVE IInv'
  BY <1>9, SubmitIInv
<1>10. ASSUME NEW u \in Users, record(u) PROVE IInv'
  BY <1>10, RecordIInv
<1>11. CASE Throws
  BY <1>11, ThrowsIInv
<1>12. CASE Change
  BY <1>12, ChangeIInv
<1>13. CASE UNCHANGED routingVars
  <2>1. UNCHANGED <<e, settings, preferences, spoken, believed, pc, pokes, found, waiting, current,
                    step, wanted, sent, dropped, counted, read>>
    BY <1>13 DEF routingVars, world, handler
  <2>2. Typed'
    BY <2>1 DEF IInv, Typed, Replied
  <2>3. RoutingTypeOK'
    BY <2>1, HandlerStays DEF IInv, RoutingTypeOK
  <2> QED BY <2>1, <2>2, <2>3, HandlerStays DEF IInv
<1> QED BY <1>1, <1>2, <1>3, <1>4, <1>5, <1>6, <1>7, <1>8, <1>9, <1>10, <1>11, <1>12, <1>13
        DEF RoutingNext, route

\* The invariant the promises below follow from holds of every handler.
THEOREM Invariance == RoutingSpec => []IInv
<1>1. RoutingInit => IInv
  BY InitIInv
<1>2. IInv /\ [RoutingNext]_routingVars => IInv'
  BY NextIInv
<1> QED BY <1>1, <1>2, PTL DEF RoutingSpec

----------------------------------------------------------------------------
(* What follows from it. *)

\* Of a webhook that reaches anybody, what somebody is due is what their gates kept.
LEMMA OthersAreServed ==
    ASSUME IInv, pc = "done", e.installation, NEW u \in Users \ {e.sender}, Kept(u) # {},
           read.access[u] \notin {"no", "unknown"}
    PROVE  \E p \in sent : p.to = u
<1>1. PICK c \in pokes : readRecipient(c) = u
  BY DEF Kept, Allowed, candidatesOf
<1>2. waiting = {} /\ current = Nobody
  BY DEF IInv, NotYet
<1>3. Served(u)
  BY <1>1, <1>2, UsersAssumption DEF IInv, Through
<1> QED BY <1>3 DEF Served

LEMMA NothingUnaskedHolds == IInv => NothingUnasked
<1> SUFFICES ASSUME IInv PROVE NothingUnasked
  OBVIOUS
<1>1. Typed /\ RoutingTypeOK /\ SentWell /\ TurnsToCome /\ Stages
  BY DEF IInv
<1>2. ASSUME NEW p \in sent
      PROVE  /\ p.to # e.sender
             /\ e.private => read.access[p.to] = "yes"
             /\ p.type \in Due(p.to)
             /\ \A type \in Due(p.to) : comparePriority(p.type, type) <= 0
  <2>1. p.to \in Users /\ Cleared(p.to) /\ Best(p.to, p.type)
    BY <1>1 DEF RoutingTypeOK, SentWell
  <2>2. pokes = Grouped
    BY <1>1 DEF Stages
  <2>3. p.to # e.sender
    BY <1>1, <2>1 DEF TurnsToCome, Untouched
  <2>4. \A type : type \in Due(p.to) <=> \E c \in Kept(p.to) : c.type = type
    BY <1>1, <2>1, <2>2, DueIsKept
  <2>5. p.type \in Due(p.to)
    BY <2>1, <2>4 DEF Best
  <2>6. \A type \in Due(p.to) : comparePriority(p.type, type) <= 0
    BY <2>1, <2>4 DEF Best
  <2> QED BY <2>1, <2>3, <2>5, <2>6 DEF Cleared
<1> QED BY <1>1, <1>2 DEF NothingUnasked, SentWell

LEMMA NothingLostHolds == IInv => NothingLost
<1> SUFFICES ASSUME IInv, pc = "done", e.installation, NEW u \in Users \ {e.sender},
                    Due(u) # {}, read.access[u] \notin {"no", "unknown"}
             PROVE  \E p \in sent : p.to = u
  BY DEF NothingLost
<1>1. Typed /\ pokes = Grouped
  BY DEF IInv, Stages
<1>2. PICK type \in Due(u) : TRUE
  OBVIOUS
<1>3. Kept(u) # {}
  BY <1>1, <1>2, DueIsKept
<1> QED BY <1>3, OthersAreServed

LEMMA ThreadToldOnceHolds == IInv => ThreadToldOnce
<1> SUFFICES ASSUME IInv, pc \in {"group", "loop"} PROVE ThreadToldOnce
  BY DEF ThreadToldOnce
<1>1. ThreadRead /\ \A p \in pokes : p \in Resolved
  BY GroupedIs DEF IInv, Stages
<1>2. ASSUME NEW p \in Resolved, p.type = "comment_reply" PROVE ForStarter(p) \/ ForOthers(p)
  BY <1>2, ResolvedIs DEF AsksPerson, MemberAsked, ForAuthor, TellsAuthor, ForLogin, MemberNamed,
                          Mentions, Poke
<1>3. \A p : ForStarter(p) => p.to = read.starter /\ p.starter
  BY DEF ForStarter
<1>4. \A p : ForOthers(p) => p.to \in read.thread /\ p = Poke("id", p.to, "comment_reply", NoTeam)
  <2>1. \A a : Poke("id", a, "comment_reply", NoTeam).to = a
    BY DEF Poke
  <2> QED BY <2>1 DEF ForOthers
<1>5. \A p, q : ForStarter(p) /\ ForStarter(q) => p = q
  BY DEF ForStarter
<1>6. \A p, q : ForOthers(p) /\ ForOthers(q) /\ p.to = q.to => p = q
  BY <1>4
<1> QED BY <1>1, <1>2, <1>3, <1>4, <1>5, <1>6 DEF ThreadRead, ThreadToldOnce

LEMMA CountsAgreeHolds == IInv => CountsAgree
<1> SUFFICES ASSUME IInv, pc \in {"done", "failed"}, NEW u \in Users
             PROVE  /\ <<u, "reached">> \in counted <=> \E p \in sent : p.to = u
                    /\ <<u, "held">> \in counted <=>
                         /\ u # e.sender /\ MachineTo(u, e.sender)
                         /\ \E p \in pokes : readRecipient(p) = u /\ Listens(u, p.type)
                         /\ \A p \in pokes :
                               readRecipient(p) = u /\ Listens(u, p.type) => ~MayActOn(u, p.type)
  BY Zenon DEF CountsAgree
<1>1. Tally /\ TurnsToCome
  BY DEF IInv
<1>2. <<u, "reached">> \in counted <=> \E p \in sent : p.to = u
  <2>1. u = current => \A p \in sent : p.to # u
    BY UsersAssumption DEF IInv, NotYet, InHand
  <2> QED BY <1>1, <2>1, Zenon DEF Tally
<1>3. <<u, "held">> \in counted <=> Silenced(u)
  BY <1>1, Zenon DEF Tally
<1>4. \A p : p \in Allowed(u) <=> p \in pokes /\ readRecipient(p) = u /\ Listens(u, p.type)
  BY DEF Allowed, candidatesOf
<1>5. \A p : p \in Kept(u) <=> p \in Allowed(u) /\ MayActOn(u, p.type)
  BY BotGateIsMayAct DEF Kept
<1>6. ASSUME NEW type, ~MayActOn(u, type) PROVE MachineTo(u, e.sender)
  BY <1>6 DEF MayActOn
<1>7. Allowed(u) # {} => u # e.sender
  BY <1>1, <1>4 DEF TurnsToCome, Untouched, Listens
<1>8. Silenced(u) <=>
         /\ u # e.sender /\ MachineTo(u, e.sender)
         /\ \E p \in pokes : readRecipient(p) = u /\ Listens(u, p.type)
         /\ \A p \in pokes :
               readRecipient(p) = u /\ Listens(u, p.type) => ~MayActOn(u, p.type)
  <2> DEFINE toBeTold(p) == readRecipient(p) = u /\ Listens(u, p.type)
  <2>1. Allowed(u) # {} <=> \E p \in pokes : toBeTold(p)
    BY <1>4
  <2>2. Kept(u) = {} <=> \A p \in pokes : toBeTold(p) => ~MayActOn(u, p.type)
    BY <1>4, <1>5
  <2>3. (\E p \in pokes : toBeTold(p)) /\ (\A p \in pokes : toBeTold(p) => ~MayActOn(u, p.type))
           => MachineTo(u, e.sender)
    BY <1>6
  <2> HIDE DEF toBeTold
  <2>4. Silenced(u) <=> /\ u # e.sender /\ MachineTo(u, e.sender)
                        /\ \E p \in pokes : toBeTold(p)
                        /\ \A p \in pokes : toBeTold(p) => ~MayActOn(u, p.type)
    BY <1>7, <2>1, <2>2, <2>3, Zenon DEF Silenced
  <2> QED BY <2>4, Zenon DEF toBeTold
<1> QED BY <1>2, <1>3, <1>8

\* Nobody is poked for what they did themselves, muted, did not subscribe to, may not see or do
\* not take from machines; and of what is left they hear of the most specific, once.
THEOREM NobodyIsPokedUnasked == RoutingSpec => []NothingUnasked
BY Invariance, NothingUnaskedHolds, PTL

\* Whoever is due a poke gets one unless the handler fails or the repository is not theirs to
\* see; a thread's opener and its others are told of a reply once; the sender counts say so.
THEOREM WhoeverIsDueHears == RoutingSpec => []DueHearOnce
<1>1. IInv => DueHearOnce
  BY NothingLostHolds, ThreadToldOnceHolds, CountsAgreeHolds DEF DueHearOnce, IInv
<1> QED BY <1>1, Invariance, PTL

\* The candidates the loop works through are exactly whom the event concerns, kind by kind:
\* resolving teams, threads, handles and the author loses nobody and adds nobody.
FoundAsConcerned ==
    pc = "loop" =>
        \A u \in Users, type \in NotificationType :
            (\E p \in pokes : readRecipient(p) = u /\ p.type = type)
                <=> Concerns(u, type) /\ (read.chatter = "yes" \/ type \notin BOT_CHATTER_TYPES)

\* Whoever an event concerns, and nobody else, is a candidate of its handler.
THEOREM CandidatesAreTheConcerned == RoutingSpec => []FoundAsConcerned
<1>1. IInv => FoundAsConcerned
  <2> SUFFICES ASSUME IInv, pc = "loop", NEW u \in Users, NEW type \in NotificationType
               PROVE  (\E p \in pokes : readRecipient(p) = u /\ p.type = type)
                          <=> Concerns(u, type) /\ Spoken(type)
    BY DEF FoundAsConcerned, Spoken
  <2>1. Typed /\ pokes = Grouped
    BY DEF IInv, Stages
  <2>2. ASSUME NEW p \in pokes, readRecipient(p) = u, p.type = type
        PROVE  Concerns(u, type) /\ Spoken(type)
    BY <2>1, <2>2, CandidateConcerned
  <2>3. ASSUME Concerns(u, type), Spoken(type)
        PROVE  \E p \in pokes : readRecipient(p) = u /\ p.type = type
    BY <2>1, <2>3, ConcernedCandidate
  <2> QED BY <2>2, <2>3
<1> QED BY <1>1, Invariance, PTL

----------------------------------------------------------------------------
\* Resolution: what is on a review-request message is what it should say.

\* Whom a line names, and that it names nobody twice.
Who(line)  == {line[i].who : i \in DOMAIN line}
Once(line) == \A i, j \in DOMAIN line : line[i].who = line[j].who => i = j

Alone == "overlap" \notin scenario.faults

Job == [message: Messages, event: Events, seen: Seq(Entry), pc: Steps]

\* Before its first write of a row.
Early == {"keptStanding", "strikeWorkspace", "nameWorkspace", "setVerdict", "addToSet"}

ResolutionTyped ==
    /\ scenario \in Scenarios
    /\ delivery \in [Messages -> {"coming", "posted", "done"}]
    /\ slack \in [Messages -> [shown: {"unsent", "open", "struck", "gone"}, line: Seq(Entry)]]
    /\ rows \in [Messages -> Seq(Entry) \cup {NoRow}]
    /\ handled \subseteq scenario.events
    /\ jobs \subseteq Job
    /\ workspace \in {"live", "revoked"}
    /\ struckBy \in [Messages -> SUBSET Events]
    /\ heard \in [Events -> SUBSET Messages]

\* A message before its row is filed is as it was posted, and it is filed once.
Filed ==
    \A m \in Messages :
        /\ rows[m] # NoRow \/ struckBy[m] # {} => delivery[m] = "done"
        /\ delivery[m] = "coming" <=> slack[m].shown = "unsent"
        /\ delivery[m] # "done" => slack[m].line = <<>>

Named ==
    \A m \in Messages :
        /\ slack[m].shown = "open" /\ rows[m] # NoRow => Who(slack[m].line) \subseteq Who(rows[m])
        /\ Alone => Once(slack[m].line) /\ (rows[m] # NoRow => Once(rows[m]))

\* What a job knows of its message's row, and why it is doing what it does.
JobFine(j) ==
    LET m == j.message
    IN  /\ j.event \in handled /\ delivery[m] = "done"
        /\ rows[m] # NoRow => /\ Who(j.seen) \subseteq Who(rows[m])
                              /\ j.pc \in {"show", "strayShow"} => j.event.actor \in Who(rows[m])
        /\ j.pc \in {"strikeWorkspace", "strike", "strayStrike"} => Entitled(m, j.event)
        /\ j.pc = "keptStanding" => j.event.kind \in Verdicts
        /\ Alone => /\ Once(j.seen)
                    /\ j.pc \in Early => rows[m] \in {NoRow, j.seen}
                    /\ j.pc = "nameWorkspace" => ~nothingNew(j.seen, j.event)
                    /\ j.pc = "addToSet" /\ rows[m] # NoRow => j.event.actor \notin Who(rows[m])

JobsFine == \A j \in jobs : JobFine(j)

\* One handler at a time is one job for a message, beside edits nobody waits for; and there are such
\* edits only where answers are lost or the process stops.
OneJobEach ==
    /\ Alone => \A j, k \in jobs : j.message = k.message => j = k \/ j.pc \in Stray \/ k.pc \in Stray
    /\ (\E j \in jobs : j.pc \in Stray) => scenario.faults \cap {"crash", "answers"} # {}

\* A merge has struck, or is about to strike, every message it found.
Merging ==
    scenario.faults \subseteq {"overlap"} =>
        /\ workspace = "live"
        /\ \A m \in Messages : slack[m].shown # "gone"
        /\ \A ev \in Events : ev.kind \in {"merged", "closed"} =>
              \A m \in heard[ev] :
                  \/ ev \in struckBy[m]
                  \/ \E j \in jobs : /\ j.message = m /\ j.event = ev
                                     /\ j.pc \in {"strikeWorkspace", "strike"}

\* A struck message's row is gone, or going before anything else happens to it.
StaysSettled ==
    Alone /\ scenario.faults \cap {"database", "crash", "answers"} = {} =>
        \A m \in Messages : struckBy[m] # {} =>
            /\ slack[m].shown \in {"struck", "gone"}
            /\ \A j \in jobs : j.message = m => j.pc = "delete"
            /\ rows[m] = NoRow \/ \E j \in jobs : j.message = m

ResolutionInv == /\ ResolutionTyped /\ Filed /\ Named /\ JobsFine /\ OneJobEach /\ StruckOnlyWhenEntitled
        /\ Merging /\ StaysSettled

----------------------------------------------------------------------------
(* Lines of reviewers. *)

LEMMA ReviewerIsEntry ==
    ASSUME NEW ev \in Events
    PROVE  reviewer(ev) \in Entry /\ reviewer(ev).who = ev.actor
BY EventsAssumption DEF reviewer, Entry, Verdict, Verdicts, NoVerdict

LEMMA AppendNames ==
    ASSUME NEW line \in Seq(Entry), NEW x \in Entry
    PROVE  /\ Append(line, x) \in Seq(Entry)
           /\ Who(Append(line, x)) = Who(line) \cup {x.who}
           /\ Once(line) /\ x.who \notin Who(line) => Once(Append(line, x))
<1>1. /\ Append(line, x) \in Seq(Entry) /\ DOMAIN line = 1 .. Len(line)
      /\ DOMAIN Append(line, x) = 1 .. (Len(line) + 1) /\ Len(line) \in Nat
      /\ \A i \in 1 .. Len(line) : Append(line, x)[i] = line[i]
      /\ Append(line, x)[Len(line) + 1] = x
  OBVIOUS
<1>2. \A i \in 1 .. (Len(line) + 1) : i \in 1 .. Len(line) \/ i = Len(line) + 1
  BY <1>1
<1>3. Who(Append(line, x)) = Who(line) \cup {x.who}
  BY <1>1, <1>2 DEF Who
<1>4. Once(line) /\ x.who \notin Who(line) => Once(Append(line, x))
  BY <1>1, <1>2 DEF Who, Once
<1> QED BY <1>1, <1>3, <1>4

LEMMA VerdictNames ==
    ASSUME NEW line \in Seq(Entry), NEW i, NEW v \in Verdicts \cup {NoVerdict}
    PROVE  /\ withVerdict(line, i, v) \in Seq(Entry)
           /\ Who(withVerdict(line, i, v)) = Who(line)
           /\ Once(line) => Once(withVerdict(line, i, v))
<1> DEFINE w == withVerdict(line, i, v)
           entry == [who |-> line[i].who, verdict |-> v]
<1>1. /\ line \in [1 .. Len(line) -> Entry] /\ Len(line) \in Nat /\ DOMAIN line = 1 .. Len(line)
  OBVIOUS
<1>2. w = [line EXCEPT ![i] = entry]
  BY DEF withVerdict
<1>3. i \in DOMAIN line => entry \in Entry
  BY <1>1 DEF Entry
<1>4. entry.who = line[i].who
  OBVIOUS
<1> HIDE DEF entry, w
<1>5. /\ w \in [1 .. Len(line) -> Entry] /\ DOMAIN w = DOMAIN line
      /\ \A k \in DOMAIN line : w[k].who = line[k].who
  BY <1>1, <1>2, <1>3, <1>4
<1>6. w \in Seq(Entry)
  BY <1>1, <1>5
<1>7. Who(w) = Who(line)
  BY <1>5 DEF Who
<1>8. Once(line) => Once(w)
  BY <1>5 DEF Once
<1> QED BY <1>6, <1>7, <1>8 DEF w

LEMMA ShownNames ==
    ASSUME NEW line \in Seq(Entry), NEW ev \in Events
    PROVE  /\ lineWith(line, ev) \in Seq(Entry)
           /\ Who(lineWith(line, ev)) = Who(line) \cup {ev.actor}
           /\ Once(line) => Once(lineWith(line, ev))
<1>1. CASE \E i \in DOMAIN line : line[i].who = ev.actor
  <2> DEFINE w == [i \in DOMAIN line |-> IF line[i].who = ev.actor THEN reviewer(ev) ELSE line[i]]
  <2>1. lineWith(line, ev) = w
    BY <1>1 DEF lineWith
  <2>2. line \in [1 .. Len(line) -> Entry] /\ Len(line) \in Nat /\ DOMAIN line = 1 .. Len(line)
    OBVIOUS
  <2>3. /\ w \in [1 .. Len(line) -> Entry] /\ DOMAIN w = DOMAIN line
        /\ \A k \in DOMAIN line : w[k].who = line[k].who
    BY <2>2, ReviewerIsEntry
  <2> HIDE DEF w
  <2>4. w \in Seq(Entry)
    BY <2>2, <2>3
  <2>5. Who(w) = Who(line) \cup {ev.actor}
    BY <1>1, <2>3 DEF Who
  <2>6. Once(line) => Once(w)
    BY <2>3 DEF Once
  <2> QED BY <2>1, <2>4, <2>5, <2>6
<1>2. CASE ~\E i \in DOMAIN line : line[i].who = ev.actor
  <2>1. lineWith(line, ev) = Append(line, reviewer(ev))
    BY <1>2 DEF lineWith
  <2>2. ev.actor \notin Who(line)
    BY <1>2 DEF Who
  <2> QED BY <2>1, <2>2, ReviewerIsEntry, AppendNames
<1> QED BY <1>1, <1>2

LEMMA EmptyNames == <<>> \in Seq(Entry) /\ Who(<<>>) = {} /\ Once(<<>>)
BY DEF Who, Once

----------------------------------------------------------------------------
(* Jobs. *)

LEMMA MoveIs ==
    ASSUME NEW j, NEW next
    PROVE  /\ moveTo(j, next).message = j.message /\ moveTo(j, next).event = j.event
           /\ moveTo(j, next).seen = j.seen /\ moveTo(j, next).pc = next
           /\ j \in Job /\ next \in Steps => moveTo(j, next) \in Job
BY DEF moveTo, Job

LEMMA AdvanceIs ==
    ASSUME jobs \subseteq Job, NEW j \in jobs, NEW next \in Steps \cup {"end"}, Advance(j, next)
    PROVE  /\ jobs' \subseteq Job
           /\ \A k \in jobs' : k \in jobs \ {j} \/ (k = moveTo(j, next) /\ next # "end")
           /\ \A k \in jobs \ {j} : k \in jobs'
           /\ next # "end" => moveTo(j, next) \in jobs'
<1>1. \A k \in Job : k.pc # "end"
  BY DEF Job, Steps, Stray
<1> QED BY <1>1, MoveIs DEF Advance, Underway

LEMMA JobHas == ASSUME ResolutionInv, NEW j \in jobs
                PROVE  /\ j.message \in Messages /\ j.event \in Events /\ j.seen \in Seq(Entry)
                       /\ j.pc \in Steps /\ JobFine(j)
BY DEF ResolutionInv, ResolutionTyped, Job, JobsFine

\* A job moves on and nothing else happens.
LEMMA OnlyMoves ==
    ASSUME ResolutionInv, NEW j \in jobs, NEW next \in Steps \cup {"end"}, Advance(j, next),
           UNCHANGED <<scenario, delivery, slack, rows, handled, workspace, struckBy, heard>>,
           next # "end" => JobFine(moveTo(j, next)),
           j.pc \in {"strikeWorkspace", "strike"} /\ scenario.faults \subseteq {"overlap"} =>
               next \in {"strikeWorkspace", "strike"},
           j.pc # "delete" \/ "database" \in scenario.faults,
           j.pc \in Stray => next \in Stray \cup {"end"},
           next \in Stray => scenario.faults \cap {"crash", "answers"} # {}
    PROVE  ResolutionInv'
<1>1. /\ jobs' \subseteq Job
      /\ \A k \in jobs' : k \in jobs \ {j} \/ (k = moveTo(j, next) /\ next # "end")
      /\ \A k \in jobs \ {j} : k \in jobs'
      /\ next # "end" => moveTo(j, next) \in jobs'
  BY AdvanceIs DEF ResolutionInv, ResolutionTyped
<1>2. /\ moveTo(j, next).message = j.message /\ moveTo(j, next).event = j.event
      /\ moveTo(j, next).pc = next
  BY MoveIs
<1>3. \A k : JobFine(k)' <=> JobFine(k)
  BY DEF JobFine, Alone
<1>4. ResolutionTyped'
  BY <1>1 DEF ResolutionInv, ResolutionTyped
<1>5. Filed' /\ Named' /\ StruckOnlyWhenEntitled'
  BY DEF ResolutionInv, Filed, Named, Alone, StruckOnlyWhenEntitled
<1>6. JobsFine'
  BY <1>1, <1>3 DEF ResolutionInv, JobsFine
<1>7. OneJobEach'
  BY <1>1, <1>2 DEF ResolutionInv, OneJobEach, Alone, Stray
<1>8. Merging'
  <2> SUFFICES ASSUME scenario.faults \subseteq {"overlap"},
                      NEW ev \in Events, ev.kind \in {"merged", "closed"},
                      NEW m \in heard[ev], ev \notin struckBy[m]
               PROVE  \E k \in jobs' : /\ k.message = m /\ k.event = ev
                                       /\ k.pc \in {"strikeWorkspace", "strike"}
    BY DEF ResolutionInv, Merging
  <2>1. PICK k \in jobs : /\ k.message = m /\ k.event = ev
                          /\ k.pc \in {"strikeWorkspace", "strike"}
    BY DEF ResolutionInv, Merging
  <2> QED BY <1>1, <1>2, <2>1
<1>9. StaysSettled'
  BY <1>1, <1>2 DEF ResolutionInv, StaysSettled, Alone
<1> QED BY <1>4, <1>5, <1>6, <1>7, <1>8, <1>9 DEF ResolutionInv

\* A job writes a row: whoever was on it stays, and the event's actor is.
LEMMA RowWritten ==
    ASSUME ResolutionInv, NEW j \in jobs, Advance(j, "show"), j.pc \in {"setVerdict", "addToSet"},
           NEW new \in Seq(Entry), rows[j.message] # NoRow,
           rows' = [rows EXCEPT ![j.message] = new],
           Who(rows[j.message]) \subseteq Who(new), j.event.actor \in Who(new), Alone => Once(new),
           UNCHANGED <<scenario, delivery, slack, handled, workspace, struckBy, heard>>
    PROVE  ResolutionInv'
<1> DEFINE m == j.message
           moved == moveTo(j, "show")
<1>1. /\ jobs' \subseteq Job /\ \A k \in jobs' : k \in jobs \ {j} \/ k = moved
      /\ \A k \in jobs \ {j} : k \in jobs'
  BY AdvanceIs DEF ResolutionInv, ResolutionTyped, Steps
<1>2. moved.message = m /\ moved.event = j.event /\ moved.seen = j.seen /\ moved.pc = "show"
  BY MoveIs
<1>3. m \in Messages /\ JobFine(j) /\ rows \in [Messages -> Seq(Entry) \cup {NoRow}]
  BY JobHas DEF ResolutionInv, ResolutionTyped
<1>4. rows'[m] = new /\ (\A n \in Messages \ {m} : rows'[n] = rows[n]) /\ new # NoRow
  BY <1>3, NoRowAssumption
<1>5. ResolutionTyped'
  BY <1>1, <1>3 DEF ResolutionInv, ResolutionTyped
<1>6. Filed' /\ StruckOnlyWhenEntitled'
  BY <1>3, <1>4 DEF ResolutionInv, Filed, StruckOnlyWhenEntitled
<1>7. Named'
  BY <1>3, <1>4 DEF ResolutionInv, Named, Alone
<1>8. JobsFine'
  <2>1. ASSUME NEW k \in jobs \ {j} PROVE JobFine(k)'
    <3>1. JobFine(k) /\ k.message \in Messages /\ (Alone /\ k.pc \notin Stray => k.message # m)
      BY JobHas DEF ResolutionInv, OneJobEach, Stray
    <3>2. CASE k.message # m
      BY <1>4, <3>1, <3>2 DEF JobFine, Alone
    <3>3. CASE k.message = m
      BY <1>4, <3>1, <3>3 DEF JobFine, Alone, Early, Stray
    <3> QED BY <3>2, <3>3
  <2>2. JobFine(moved)'
    <3> HIDE DEF moved
    <3>1. rows'[moved.message] = new
      BY <1>2, <1>4
    <3> QED BY <1>2, <1>3, <1>4, <3>1 DEF JobFine, Alone, Early
  <2> QED BY <1>1, <2>1, <2>2 DEF JobsFine
<1>9. OneJobEach'
  BY <1>1, <1>2 DEF ResolutionInv, OneJobEach, Alone, Stray
<1>10. Merging'
  <2> SUFFICES ASSUME scenario.faults \subseteq {"overlap"},
                      NEW ev \in Events, ev.kind \in {"merged", "closed"},
                      NEW n \in heard[ev], ev \notin struckBy[n]
               PROVE  \E k \in jobs' : /\ k.message = n /\ k.event = ev
                                       /\ k.pc \in {"strikeWorkspace", "strike"}
    BY DEF ResolutionInv, Merging
  <2> QED BY <1>1 DEF ResolutionInv, Merging
<1>11. StaysSettled'
  BY <1>1, <1>2, <1>4 DEF ResolutionInv, StaysSettled, Alone
<1> QED BY <1>5, <1>6, <1>7, <1>8, <1>9, <1>10, <1>11 DEF ResolutionInv

LEMMA KeptStandingResolution ==
    ASSUME ResolutionInv, NEW j \in jobs, keptStanding(j), UNCHANGED scenario PROVE ResolutionInv'
<1> DEFINE next == IF Reader[j.message] \in KeepsRequest THEN nameFrom(j.message, j.event, j.seen)
                   ELSE "strikeWorkspace"
<1>1. JobFine(j) /\ j.pc = "keptStanding" /\ next \in {"nameWorkspace", "strikeWorkspace", "end"}
  BY JobHas DEF keptStanding, nameFrom
<1>2. next \in Steps \cup {"end"}
  BY <1>1 DEF Steps
<1>3. next = "nameWorkspace" => ~nothingNew(j.seen, j.event)
  BY DEF nameFrom
<1>4. next = "strikeWorkspace" => Entitled(j.message, j.event)
  BY <1>1 DEF JobFine, Entitled, nameFrom
<1>5. Advance(j, next)
  BY DEF keptStanding
<1> HIDE DEF next
<1>6. JobFine(moveTo(j, next))
  BY <1>1, <1>3, <1>4, MoveIs DEF JobFine, Early
<1> QED BY <1>1, <1>2, <1>5, <1>6, OnlyMoves DEF keptStanding, Stray

LEMMA ReadLiveResolution ==
    ASSUME ResolutionInv, NEW j \in jobs, readLiveWithToken(j), UNCHANGED scenario PROVE ResolutionInv'
<1> DEFINE next == IF workspace = "revoked" THEN "delete"
                   ELSE IF j.pc = "strikeWorkspace" THEN "strike"
                   ELSE IF Verdict(j.event) = NoVerdict THEN "addToSet" ELSE "setVerdict"
<1>1. /\ JobFine(j) /\ j.pc \in {"strikeWorkspace", "nameWorkspace"} /\ Advance(j, next)
      /\ UNCHANGED <<delivery, slack, rows, handled, workspace, struckBy, heard>>
      /\ j.seen \in Seq(Entry) /\ j.message \in Messages
  BY JobHas DEF readLiveWithToken
<1>2. /\ next \in Steps /\ next \in {"delete", "strike", "addToSet", "setVerdict"}
      /\ next = "strike" => j.pc = "strikeWorkspace"
      /\ next = "addToSet" => j.pc = "nameWorkspace" /\ Verdict(j.event) = NoVerdict
      /\ next = "setVerdict" => j.pc = "nameWorkspace"
      /\ j.pc = "strikeWorkspace" /\ scenario.faults \subseteq {"overlap"} => next = "strike"
  BY <1>1 DEF Steps, ResolutionInv, Merging
<1> HIDE DEF next
<1>3. next = "addToSet" /\ Alone /\ rows[j.message] # NoRow =>
         j.event.actor \notin Who(rows[j.message])
  <2> SUFFICES ASSUME next = "addToSet", Alone, rows[j.message] # NoRow
               PROVE  j.event.actor \notin Who(j.seen)
    BY <1>1, <1>2 DEF JobFine, Early
  <2>1. ~nothingNew(j.seen, j.event)
    BY <1>1, <1>2 DEF JobFine
  <2> QED BY <1>2, <2>1 DEF nothingNew, Who
<1>4. JobFine(moveTo(j, next))
  BY <1>1, <1>2, <1>3, MoveIs DEF JobFine, Early
<1> QED BY <1>1, <1>2, <1>4, OnlyMoves DEF Stray

LEMMA SetVerdictResolution ==
    ASSUME ResolutionInv, NEW j \in jobs, setVerdict(j), UNCHANGED scenario PROVE ResolutionInv'
<1> DEFINE m == j.message
           at == IF rows[m] = NoRow THEN {} ELSE {i \in DOMAIN rows[m] : rows[m][i].who = j.event.actor}
<1>1. /\ JobFine(j) /\ j.pc = "setVerdict" /\ m \in Messages /\ j.event \in Events
      /\ UNCHANGED <<delivery, slack, handled, workspace, struckBy, heard>>
      /\ rows[m] # NoRow => rows[m] \in Seq(Entry)
  BY JobHas DEF setVerdict, ResolutionInv, ResolutionTyped
<1>2. CASE at = {}
  <2>1. Advance(j, "addToSet") /\ UNCHANGED rows
    BY <1>2 DEF setVerdict
  <2>2. rows[m] # NoRow => j.event.actor \notin Who(rows[m])
    BY <1>2 DEF Who
  <2>3. JobFine(moveTo(j, "addToSet"))
    BY <1>1, <2>2, MoveIs DEF JobFine, Early
  <2> QED BY <1>1, <2>1, <2>3, OnlyMoves DEF Steps, Stray
<1>3. CASE at # {}
  <2> DEFINE new == withVerdict(rows[m], Min(at), Verdict(j.event))
  <2>1. Advance(j, "show") /\ rows' = [rows EXCEPT ![m] = new]
    BY <1>3 DEF setVerdict
  <2>2. rows[m] # NoRow /\ j.event.actor \in Who(rows[m])
    BY <1>3 DEF Who
  <2>3. Verdict(j.event) \in Verdicts \cup {NoVerdict}
    BY DEF Verdict
  <2> HIDE DEF at
  <2>4. new \in Seq(Entry) /\ Who(new) = Who(rows[m]) /\ (Once(rows[m]) => Once(new))
    BY <1>1, <2>2, <2>3, VerdictNames
  <2>5. Alone => Once(rows[m])
    BY <1>1, <2>2 DEF ResolutionInv, Named
  <2> HIDE DEF new
  <2> QED BY <1>1, <2>1, <2>2, <2>4, <2>5, RowWritten
<1> QED BY <1>2, <1>3

LEMMA AddToSetResolution ==
    ASSUME ResolutionInv, NEW j \in jobs, addToSet(j), UNCHANGED scenario PROVE ResolutionInv'
<1> DEFINE m == j.message
<1>1. /\ JobFine(j) /\ j.pc = "addToSet" /\ m \in Messages /\ j.event \in Events
      /\ UNCHANGED <<delivery, slack, handled, workspace, struckBy, heard>> /\ Advance(j, "show")
      /\ rows[m] # NoRow => rows[m] \in Seq(Entry)
  BY JobHas DEF addToSet, ResolutionInv, ResolutionTyped
<1>2. reviewer(j.event) \in Entry /\ reviewer(j.event).who = j.event.actor
  BY <1>1, ReviewerIsEntry
<1>3. CASE rows[m] = NoRow \/ Contains(rows[m], reviewer(j.event))
  <2>1. UNCHANGED rows
    BY <1>3 DEF addToSet
  <2>2. rows[m] # NoRow => j.event.actor \in Who(rows[m])
    BY <1>1, <1>2, <1>3 DEF Who, Contains
  <2>3. JobFine(moveTo(j, "show"))
    BY <1>1, <2>2, MoveIs DEF JobFine, Early
  <2> QED BY <1>1, <2>1, <2>3, OnlyMoves DEF Steps, Stray
<1>4. CASE rows[m] # NoRow /\ ~Contains(rows[m], reviewer(j.event))
  <2> DEFINE new == Append(rows[m], reviewer(j.event))
  <2>1. rows' = [rows EXCEPT ![m] = new]
    BY <1>4 DEF addToSet
  <2>2. /\ new \in Seq(Entry) /\ Who(new) = Who(rows[m]) \cup {j.event.actor}
        /\ Once(rows[m]) /\ j.event.actor \notin Who(rows[m]) => Once(new)
    BY <1>1, <1>2, <1>4, AppendNames
  <2>3. Alone => Once(rows[m]) /\ j.event.actor \notin Who(rows[m])
    BY <1>1, <1>4 DEF ResolutionInv, Named, JobFine
  <2> HIDE DEF new
  <2> QED BY <1>1, <1>4, <2>1, <2>2, <2>3, RowWritten
<1> QED BY <1>3, <1>4

\* The message is shown with the line the job made of what it read, whoever waits for that.
LEMMA NameApplied ==
    ASSUME ResolutionInv, NEW j \in jobs, j.pc \in {"show", "strayShow"}, applyName(j), Advance(j, "end"),
           UNCHANGED <<scenario, delivery, rows, handled, workspace, heard>>
    PROVE  ResolutionInv'
<1> DEFINE m == j.message
           line == lineWith(j.seen, j.event)
<1>1. /\ JobFine(j) /\ j.pc \in {"show", "strayShow"} /\ m \in Messages /\ j.event \in Events /\ j.seen \in Seq(Entry)
      /\ UNCHANGED <<delivery, rows, handled, workspace, struckBy, heard>>
      /\ slack' = [slack EXCEPT ![m] = [shown |-> "open", line |-> line]]
      /\ Advance(j, "end")
  BY JobHas DEF applyName
<1>2. /\ line \in Seq(Entry) /\ Who(line) = Who(j.seen) \cup {j.event.actor}
      /\ Once(j.seen) => Once(line)
  BY <1>1, ShownNames
<1> HIDE DEF line
<1>3. /\ jobs' \subseteq jobs \ {j} /\ jobs \ {j} \subseteq jobs'
  BY <1>1, AdvanceIs DEF ResolutionInv, ResolutionTyped
<1>4. /\ slack'[m].shown = "open" /\ slack'[m].line = line
      /\ \A n \in Messages \ {m} : slack'[n] = slack[n]
      /\ slack' \in [Messages -> [shown: {"unsent", "open", "struck", "gone"}, line: Seq(Entry)]]
  BY <1>1, <1>2 DEF ResolutionInv, ResolutionTyped
<1>5. ResolutionTyped'
  BY <1>1, <1>3, <1>4 DEF ResolutionInv, ResolutionTyped
<1>6. Filed' /\ StruckOnlyWhenEntitled'
  BY <1>1, <1>4 DEF ResolutionInv, Filed, StruckOnlyWhenEntitled, JobFine
<1>7. Named'
  <2>1. /\ rows[m] # NoRow => Who(line) \subseteq Who(rows[m])
        /\ Alone => Once(line)
    BY <1>1, <1>2 DEF JobFine
  <2> QED BY <1>1, <1>4, <2>1 DEF ResolutionInv, Named, Alone
<1>8. JobsFine' /\ OneJobEach'
  <2>1. \A k : JobFine(k)' <=> JobFine(k)
    BY <1>1 DEF JobFine, Alone
  <2> QED BY <1>3, <2>1 DEF ResolutionInv, JobsFine, OneJobEach, Alone
<1>9. Merging'
  <2>1. \A k \in jobs : k.pc \in {"strikeWorkspace", "strike"} => k \in jobs'
    BY <1>1, <1>3
  <2> QED BY <1>1, <1>4, <2>1 DEF ResolutionInv, Merging
<1>10. StaysSettled'
  <2>1. \A n \in Messages : Alone /\ scenario.faults \cap {"database", "crash", "answers"} = {}
                                /\ struckBy[n] # {} => n # m
    BY <1>1 DEF ResolutionInv, StaysSettled
  <2> QED BY <1>1, <1>3, <1>4, <2>1 DEF ResolutionInv, StaysSettled, Alone
<1> QED BY <1>5, <1>6, <1>7, <1>8, <1>9, <1>10 DEF ResolutionInv

LEMMA StrikeResolution ==
    ASSUME ResolutionInv, NEW j \in jobs, strike(j), UNCHANGED scenario PROVE ResolutionInv'
<1> DEFINE m == j.message
           moved == moveTo(j, "delete")
<1>1. /\ JobFine(j) /\ j.pc = "strike" /\ m \in Messages /\ j.event \in Events
      /\ UNCHANGED <<delivery, rows, handled, workspace, heard>>
      /\ slack' = [slack EXCEPT ![m] = [shown |-> "struck", line |-> <<>>]]
      /\ struckBy' = [struckBy EXCEPT ![m] = @ \cup {j.event}]
      /\ Advance(j, "delete")
  BY JobHas DEF strike, applyStrike
<1>2. /\ jobs' \subseteq Job /\ \A k \in jobs' : k \in jobs \ {j} \/ k = moved
      /\ \A k \in jobs \ {j} : k \in jobs'
      /\ moved \in jobs'
  BY <1>1, AdvanceIs DEF ResolutionInv, ResolutionTyped, Steps
<1>3. moved.message = m /\ moved.event = j.event /\ moved.seen = j.seen /\ moved.pc = "delete"
  BY MoveIs
<1> HIDE DEF moved
<1>4. /\ slack'[m].shown = "struck" /\ slack'[m].line = <<>>
      /\ \A n \in Messages \ {m} : slack'[n] = slack[n]
      /\ slack' \in [Messages -> [shown: {"unsent", "open", "struck", "gone"}, line: Seq(Entry)]]
  BY <1>1, EmptyNames DEF ResolutionInv, ResolutionTyped
<1>5. /\ struckBy'[m] = struckBy[m] \cup {j.event}
      /\ \A n \in Messages \ {m} : struckBy'[n] = struckBy[n]
      /\ struckBy' \in [Messages -> SUBSET Events]
  BY <1>1 DEF ResolutionInv, ResolutionTyped
<1>6. ResolutionTyped'
  BY <1>1, <1>2, <1>4, <1>5 DEF ResolutionInv, ResolutionTyped
<1>7. Filed'
  BY <1>1, <1>4, <1>5 DEF ResolutionInv, Filed, JobFine
<1>8. StruckOnlyWhenEntitled'
  <2>1. Entitled(m, j.event)
    BY <1>1 DEF JobFine
  <2> QED BY <1>5, <2>1 DEF ResolutionInv, StruckOnlyWhenEntitled
<1>9. Named'
  BY <1>1, <1>4, EmptyNames DEF ResolutionInv, Named, Alone
<1>10. JobsFine' /\ OneJobEach'
  <2>1. \A k : JobFine(k)' <=> JobFine(k)
    BY <1>1 DEF JobFine, Alone
  <2>2. JobFine(moved)
    BY <1>1, <1>3 DEF JobFine, Early
  <2> QED BY <1>1, <1>2, <1>3, <2>1, <2>2 DEF ResolutionInv, JobsFine, OneJobEach, Alone, Stray
<1>11. Merging'
  <2> SUFFICES ASSUME scenario.faults \subseteq {"overlap"},
                      NEW ev \in Events, ev.kind \in {"merged", "closed"},
                      NEW n \in heard[ev], n \in Messages, ev \notin struckBy'[n]
               PROVE  \E k \in jobs' : /\ k.message = n /\ k.event = ev
                                       /\ k.pc \in {"strikeWorkspace", "strike"}
    BY <1>1, <1>4 DEF ResolutionInv, Merging, ResolutionTyped
  <2>1. PICK k \in jobs : /\ k.message = n /\ k.event = ev
                          /\ k.pc \in {"strikeWorkspace", "strike"}
    BY <1>5 DEF ResolutionInv, Merging
  <2>2. k # j
    BY <1>5, <2>1
  <2> QED BY <1>2, <2>1, <2>2
<1>12. StaysSettled'
  <2> SUFFICES ASSUME Alone, scenario.faults \cap {"database", "crash", "answers"} = {},
                      NEW n \in Messages, struckBy'[n] # {}
               PROVE  /\ slack'[n].shown \in {"struck", "gone"}
                      /\ \A k \in jobs' : k.message = n => k.pc = "delete"
                      /\ rows[n] = NoRow \/ \E k \in jobs' : k.message = n
    BY <1>1 DEF StaysSettled, Alone
  <2>1. CASE n = m
    BY <1>1, <1>2, <1>3, <1>4, <2>1 DEF ResolutionInv, OneJobEach, Stray
  <2>2. CASE n # m
    <3>1. /\ slack[n].shown \in {"struck", "gone"}
          /\ \A k \in jobs : k.message = n => k.pc = "delete"
          /\ rows[n] = NoRow \/ \E k \in jobs : k.message = n
      BY <1>5, <2>2 DEF ResolutionInv, StaysSettled
    <3>2. slack'[n].shown \in {"struck", "gone"}
      BY <1>4, <2>2, <3>1
    <3>3. \A k \in jobs' : k.message = n => k.pc = "delete"
      BY <1>2, <1>3, <2>2, <3>1
    <3>4. rows[n] = NoRow \/ \E k \in jobs' : k.message = n
      BY <1>2, <2>2, <3>1
    <3> QED BY <3>2, <3>3, <3>4
  <2> QED BY <2>1, <2>2
<1> QED BY <1>6, <1>7, <1>8, <1>9, <1>10, <1>11, <1>12 DEF ResolutionInv

\* The strikethrough that nobody waits for: its handler's row stays.
LEMMA StrayStrikeApplied ==
    ASSUME ResolutionInv, NEW j \in jobs, j.pc = "strayStrike", applyStrike(j), Advance(j, "end"),
           UNCHANGED <<scenario, delivery, rows, handled, workspace, heard>>
    PROVE  ResolutionInv'
<1> DEFINE m == j.message
<1>1. /\ JobFine(j) /\ m \in Messages /\ j.event \in Events
      /\ slack' = [slack EXCEPT ![m] = [shown |-> "struck", line |-> <<>>]]
      /\ struckBy' = [struckBy EXCEPT ![m] = @ \cup {j.event}]
  BY JobHas DEF applyStrike
<1>2. jobs' \subseteq jobs \ {j}
  BY AdvanceIs DEF ResolutionInv, ResolutionTyped
<1>3. /\ slack'[m].shown = "struck" /\ slack'[m].line = <<>>
      /\ \A n \in Messages \ {m} : slack'[n] = slack[n]
      /\ slack' \in [Messages -> [shown: {"unsent", "open", "struck", "gone"}, line: Seq(Entry)]]
  BY <1>1, EmptyNames DEF ResolutionInv, ResolutionTyped
<1>4. /\ struckBy'[m] = struckBy[m] \cup {j.event}
      /\ \A n \in Messages \ {m} : struckBy'[n] = struckBy[n]
      /\ struckBy' \in [Messages -> SUBSET Events]
  BY <1>1 DEF ResolutionInv, ResolutionTyped
<1>5. scenario.faults \cap {"crash", "answers"} # {}
  BY DEF ResolutionInv, OneJobEach, Stray
<1>6. ResolutionTyped' /\ Filed'
  BY <1>1, <1>2, <1>3, <1>4 DEF ResolutionInv, ResolutionTyped, Filed, JobFine
<1>7. StruckOnlyWhenEntitled'
  <2>1. Entitled(m, j.event)
    BY <1>1 DEF JobFine
  <2> QED BY <1>4, <2>1 DEF ResolutionInv, StruckOnlyWhenEntitled
<1>8. Named'
  BY <1>1, <1>3, EmptyNames DEF ResolutionInv, Named, Alone
<1>9. JobsFine' /\ OneJobEach'
  <2>1. \A k : JobFine(k)' <=> JobFine(k)
    BY DEF JobFine, Alone
  <2> QED BY <1>2, <2>1 DEF ResolutionInv, JobsFine, OneJobEach, Alone
<1>10. Merging' /\ StaysSettled'
  BY <1>5 DEF Merging, StaysSettled
<1> QED BY <1>6, <1>7, <1>8, <1>9, <1>10 DEF ResolutionInv

LEMMA ShowResolution ==
    ASSUME ResolutionInv, NEW j \in jobs, show(j), UNCHANGED scenario PROVE ResolutionInv'
BY NameApplied DEF show

LEMMA StrayResolution ==
    ASSUME ResolutionInv, NEW j \in jobs, strays(j), UNCHANGED scenario PROVE ResolutionInv'
<1>1. /\ j.pc \in Stray /\ Advance(j, "end")
      /\ UNCHANGED <<scenario, delivery, rows, handled, workspace, heard>>
  BY DEF strays
<1>2. CASE j.pc = "strayStrike" /\ applyStrike(j)
  BY <1>1, <1>2, StrayStrikeApplied
<1>3. CASE j.pc = "strayShow" /\ applyName(j)
  BY <1>1, <1>3, NameApplied
<1>4. CASE UNCHANGED <<slack, struckBy>>
  BY <1>1, <1>4, OnlyMoves DEF Stray
<1> QED BY <1>2, <1>3, <1>4 DEF strays

LEMMA GivenUpResolution ==
    ASSUME ResolutionInv, NEW j \in jobs,
           editFindsNothing(j) \/ editFails(j) \/ answerLost(j) \/ stepThrows(j),
           UNCHANGED scenario
    PROVE  ResolutionInv'
<1>1. JobFine(j) /\ j.message \in Messages
  BY JobHas
<1>2. CASE editFindsNothing(j)
  <2>1. Advance(j, "delete") /\ j.pc \in {"strike", "show"} /\ slack[j.message].shown = "gone"
    BY <1>2 DEF editFindsNothing
  <2>2. JobFine(moveTo(j, "delete"))
    BY <1>1, MoveIs DEF JobFine, Early
  <2> QED BY <1>1, <1>2, <2>1, <2>2, OnlyMoves DEF editFindsNothing, Steps, Stray, ResolutionInv, Merging
<1>3. CASE editFails(j)
  BY <1>3, OnlyMoves DEF editFails, Stray, ResolutionInv, Merging
<1>4. CASE answerLost(j)
  <2>1. /\ Advance(j, cutOff(j.pc)) /\ j.pc \in {"strike", "show"} /\ "answers" \in scenario.faults
        /\ UNCHANGED <<delivery, slack, rows, handled, workspace, struckBy, heard>>
    BY <1>4 DEF answerLost
  <2>2. /\ cutOff(j.pc) \in Stray
        /\ cutOff(j.pc) = "strayStrike" => j.pc = "strike"
        /\ cutOff(j.pc) = "strayShow" => j.pc = "show"
    BY <2>1 DEF cutOff, Stray
  <2> DEFINE next == cutOff(j.pc)
  <2> HIDE DEF next
  <2>3. JobFine(moveTo(j, next))
    BY <1>1, <2>1, <2>2, MoveIs DEF JobFine, Early, Stray, next
  <2>4. Advance(j, next) /\ next \in Stray /\ next \in Steps
    BY <2>1, <2>2 DEF next, Steps
  <2>5. ~(scenario.faults \subseteq {"overlap"}) /\ scenario.faults \cap {"crash", "answers"} # {}
    BY <2>1
  <2> QED BY <2>1, <2>3, <2>4, <2>5, OnlyMoves
<1>5. CASE stepThrows(j)
  BY <1>5, OnlyMoves DEF stepThrows, Stray
<1> QED BY <1>2, <1>3, <1>4, <1>5

LEMMA DeleteResolution ==
    ASSUME ResolutionInv, NEW j \in jobs, delete(j), UNCHANGED scenario PROVE ResolutionInv'
<1> DEFINE m == j.message
<1>1. /\ j.pc = "delete" /\ m \in Messages /\ Advance(j, "end")
      /\ UNCHANGED <<delivery, slack, handled, workspace, struckBy, heard>>
  BY JobHas DEF delete
<1>2. CASE "database" \in scenario.faults /\ UNCHANGED rows
  BY <1>1, <1>2, OnlyMoves DEF Stray
<1>3. CASE rows' = [rows EXCEPT ![m] = NoRow]
  <2>1. rows'[m] = NoRow /\ \A n \in Messages \ {m} : rows'[n] = rows[n]
    BY <1>1, <1>3 DEF ResolutionInv, ResolutionTyped
  <2>2. jobs' \subseteq jobs \ {j} /\ jobs \ {j} \subseteq jobs'
    BY <1>1, AdvanceIs DEF ResolutionInv, ResolutionTyped
  <2>3. ResolutionTyped'
    BY <1>1, <1>3, <2>2 DEF ResolutionInv, ResolutionTyped
  <2>4. Filed' /\ Named' /\ StruckOnlyWhenEntitled'
    BY <1>1, <2>1 DEF ResolutionInv, Filed, Named, StruckOnlyWhenEntitled, Alone
  <2>5. ASSUME NEW k \in jobs PROVE JobFine(k)'
    <3>1. JobFine(k) /\ k.message \in Messages
      BY JobHas
    <3>2. rows'[k.message] \in {NoRow, rows[k.message]}
      BY <2>1, <3>1
    <3> QED BY <1>1, <3>1, <3>2 DEF JobFine, Alone
  <2>6. JobsFine' /\ OneJobEach'
    BY <2>2, <2>5 DEF ResolutionInv, JobsFine, OneJobEach, Alone
  <2>7. Merging'
    <3>1. \A k \in jobs : k.pc \in {"strikeWorkspace", "strike"} => k \in jobs'
      BY <1>1, <2>2
    <3> QED BY <1>1, <3>1 DEF ResolutionInv, Merging
  <2>8. StaysSettled'
    BY <1>1, <2>1, <2>2 DEF ResolutionInv, StaysSettled, Alone
  <2> QED BY <2>3, <2>4, <2>6, <2>7, <2>8 DEF ResolutionInv
<1> QED BY <1>2, <1>3 DEF delete

----------------------------------------------------------------------------
(* Posting, reading and what goes wrong. *)

LEMMA PostResolution == ASSUME ResolutionInv, NEW m \in Messages, Post(m), UNCHANGED scenario PROVE ResolutionInv'
<1>1. /\ delivery[m] = "coming" /\ delivery' = [delivery EXCEPT ![m] = "posted"]
      /\ slack' = [slack EXCEPT ![m] = [shown |-> "open", line |-> <<>>]]
      /\ UNCHANGED <<rows, handled, jobs, workspace, struckBy, heard>>
  BY DEF Post
<1>2. /\ slack'[m].shown = "open" /\ slack'[m].line = <<>>
      /\ \A n \in Messages \ {m} : slack'[n] = slack[n] /\ delivery'[n] = delivery[n]
      /\ delivery'[m] = "posted"
      /\ delivery' \in [Messages -> {"coming", "posted", "done"}]
      /\ slack' \in [Messages -> [shown: {"unsent", "open", "struck", "gone"}, line: Seq(Entry)]]
  BY <1>1, EmptyNames DEF ResolutionInv, ResolutionTyped
<1>3. rows[m] = NoRow /\ struckBy[m] = {}
  BY <1>1 DEF ResolutionInv, Filed
<1>4. ResolutionTyped' /\ Filed' /\ StruckOnlyWhenEntitled'
  BY <1>1, <1>2, <1>3 DEF ResolutionInv, ResolutionTyped, Filed, StruckOnlyWhenEntitled
<1>5. Named'
  BY <1>1, <1>2, <1>3, EmptyNames DEF ResolutionInv, Named, Alone
<1>6. JobsFine' /\ OneJobEach'
  <2>1. ASSUME NEW k \in jobs PROVE JobFine(k)'
    <3>1. JobFine(k) /\ k.message \in Messages \ {m}
      BY <1>1, JobHas DEF JobFine
    <3> QED BY <1>1, <1>2, <3>1 DEF JobFine, Alone
  <2> QED BY <1>1, <2>1 DEF ResolutionInv, JobsFine, OneJobEach, Alone
<1>7. Merging' /\ StaysSettled'
  BY <1>1, <1>2, <1>3 DEF ResolutionInv, Merging, StaysSettled, Alone
<1> QED BY <1>4, <1>5, <1>6, <1>7 DEF ResolutionInv

LEMMA RememberResolution == ASSUME ResolutionInv, NEW m \in Messages, remember(m), UNCHANGED scenario PROVE ResolutionInv'
<1>1. /\ delivery[m] = "posted" /\ delivery' = [delivery EXCEPT ![m] = "done"]
      /\ rows' = [rows EXCEPT ![m] = <<>>] \/ rows' = rows
      /\ UNCHANGED <<slack, handled, jobs, workspace, struckBy, heard>>
  BY DEF remember
<1>2. rows[m] = NoRow /\ struckBy[m] = {} /\ slack[m].line = <<>> /\ slack[m].shown # "unsent"
  BY <1>1 DEF ResolutionInv, Filed
<1>3. /\ rows'[m] \in {<<>>, NoRow} /\ delivery'[m] = "done"
      /\ \A n \in Messages \ {m} : rows'[n] = rows[n] /\ delivery'[n] = delivery[n]
      /\ delivery' \in [Messages -> {"coming", "posted", "done"}]
      /\ rows' \in [Messages -> Seq(Entry) \cup {NoRow}]
  <2>1. CASE rows' = [rows EXCEPT ![m] = <<>>]
    BY <1>1, <2>1, EmptyNames DEF ResolutionInv, ResolutionTyped
  <2>2. CASE rows' = rows
    BY <1>1, <1>2, <2>2 DEF ResolutionInv, ResolutionTyped
  <2> QED BY <1>1, <2>1, <2>2
<1>4. ResolutionTyped' /\ Filed' /\ StruckOnlyWhenEntitled'
  BY <1>1, <1>2, <1>3 DEF ResolutionInv, ResolutionTyped, Filed, StruckOnlyWhenEntitled
<1>5. Named'
  BY <1>1, <1>2, <1>3, EmptyNames DEF ResolutionInv, Named, Alone
<1>6. JobsFine' /\ OneJobEach'
  <2>1. ASSUME NEW k \in jobs PROVE JobFine(k)'
    <3>1. JobFine(k) /\ k.message \in Messages \ {m}
      BY <1>1, JobHas DEF JobFine
    <3> QED BY <1>1, <1>3, <3>1 DEF JobFine, Alone
  <2> QED BY <1>1, <2>1 DEF ResolutionInv, JobsFine, OneJobEach, Alone
<1>7. Merging' /\ StaysSettled'
  BY <1>1, <1>2, <1>3 DEF ResolutionInv, Merging, StaysSettled, Alone
<1> QED BY <1>4, <1>5, <1>6, <1>7 DEF ResolutionInv

\* A job as its handler starts it, from the row it read.
LEMMA JobForIs ==
    ASSUME NEW m, NEW ev
    PROVE  /\ jobFor(m, ev).message = m /\ jobFor(m, ev).event = ev /\ jobFor(m, ev).seen = rows[m]
           /\ jobFor(m, ev).pc = IF ev.kind = "commented" THEN nameFrom(m, ev, rows[m])
                                ELSE settleFrom(m, ev)
           /\ m \in Messages /\ ev \in Events /\ rows[m] \in Seq(Entry) /\ jobFor(m, ev).pc \in Steps
                => jobFor(m, ev) \in Job
BY DEF jobFor, Job

LEMMA ReadResolution ==
    ASSUME ResolutionInv, NEW ev \in scenario.events, readForPullRequest(ev), UNCHANGED scenario PROVE ResolutionInv'
<1> DEFINE hadRow == {m \in Messages : rows[m] # NoRow}
<1>1. /\ "overlap" \in scenario.faults \/ \A j \in jobs : j.pc \in Stray
      /\ handled' = handled \cup {ev} /\ heard' = [heard EXCEPT ![ev] = hadRow]
      /\ UNCHANGED <<delivery, slack, rows, workspace, struckBy>>
  BY DEF readForPullRequest
<1>2. ev \in Events /\ hadRow \subseteq Messages /\ \A m \in hadRow : rows[m] # NoRow
  BY ScenariosAssumption DEF ResolutionInv, ResolutionTyped
<1>2a. UNCHANGED <<delivery, slack, rows, workspace, struckBy>> /\ handled' = handled \cup {ev}
  BY <1>1
<1>3. /\ heard'[ev] = hadRow /\ \A f \in Events \ {ev} : heard'[f] = heard[f]
      /\ heard' \in [Events -> SUBSET Messages]
  BY <1>1, <1>2 DEF ResolutionInv, ResolutionTyped
<1>4. /\ \A k \in jobs' : k \in jobs \/ \E m \in hadRow : /\ concerns(m, ev) /\ k = jobFor(m, ev)
                                                        /\ k.pc # "end" /\ k.message = m
      /\ \A k \in jobs : k \in jobs'
      /\ \A m \in hadRow : concerns(m, ev) /\ jobFor(m, ev).pc # "end" => jobFor(m, ev) \in jobs'
  <2>1. \A k \in jobs : k.pc # "end"
    BY DEF ResolutionInv, ResolutionTyped, Job, Steps, Stray
  <2>2. jobs' = Underway(jobs \cup {jobFor(m, ev) : m \in {k \in heard'[ev] : concerns(k, ev)}})
    BY DEF readForPullRequest
  <2> QED BY <1>3, <2>1, <2>2, JobForIs DEF Underway
<1> HIDE DEF hadRow
<1>5. ASSUME NEW k, NEW m \in hadRow, concerns(m, ev), k = jobFor(m, ev), k.pc # "end"
      PROVE  k \in Job /\ JobFine(k)' /\ k.pc \notin Stray
  <2>1. /\ k.message = m /\ k.event = ev /\ k.seen = rows[m] /\ m \in Messages
        /\ rows[m] \in Seq(Entry) /\ rows[m] # NoRow
    BY <1>2, <1>5, JobForIs DEF ResolutionInv, ResolutionTyped
  <2>2. /\ k.pc \in {"nameWorkspace", "keptStanding", "strikeWorkspace"}
        /\ k.pc = "nameWorkspace" => ~nothingNew(rows[m], ev)
        /\ k.pc = "keptStanding" => ev.kind \in Verdicts
        /\ k.pc = "strikeWorkspace" => Entitled(m, ev)
    <3>1. CASE ev.kind = "commented"
      BY <1>5, <3>1, JobForIs DEF nameFrom
    <3>2. CASE ev.kind # "commented"
      BY <1>2, <1>5, <3>2, EventsAssumption, JobForIs
         DEF settleFrom, Entitled, concerns, stillRequested, bySelf, Verdicts
    <3> QED BY <3>1, <3>2
  <2>3. k \in Job
    BY <1>2, <1>5, <2>1, <2>2, JobForIs DEF Steps
  <2>4. delivery[m] = "done" /\ (Alone => Once(rows[m]))
    BY <2>1 DEF ResolutionInv, Filed, Named
  <2>5. JobFine(k)'
    BY <1>2a, <2>1, <2>2, <2>4 DEF JobFine, Alone, Early
  <2>6. k.pc \notin Stray
    BY <2>2 DEF Stray
  <2> QED BY <2>3, <2>5, <2>6
<1>6. ResolutionTyped'
  <2>1. jobs' \subseteq Job
    BY <1>4, <1>5 DEF ResolutionInv, ResolutionTyped
  <2> QED BY <1>2a, <1>3, <2>1 DEF ResolutionInv, ResolutionTyped
<1>7. Filed' /\ Named' /\ StruckOnlyWhenEntitled'
  BY <1>1 DEF ResolutionInv, Filed, Named, Alone, StruckOnlyWhenEntitled
<1>8. JobsFine'
  <2>1. ASSUME NEW k \in jobs PROVE JobFine(k)'
    <3>1. JobFine(k)
      BY JobHas
    <3> QED BY <1>2a, <3>1 DEF JobFine, Alone
  <2>2. ASSUME NEW k \in jobs' PROVE JobFine(k)'
    BY <1>4, <1>5, <2>1
  <2> QED BY <2>2 DEF JobsFine
<1>9. OneJobEach'
  <2>1. \A k \in jobs' : k.pc \in Stray => k \in jobs
    BY <1>4, <1>5
  <2> QED BY <1>1, <1>4, <2>1, JobForIs DEF ResolutionInv, OneJobEach, Alone
<1>10. Merging'
  <2> SUFFICES ASSUME scenario.faults \subseteq {"overlap"},
                      NEW f \in Events, f.kind \in {"merged", "closed"},
                      NEW m \in heard'[f], f \notin struckBy[m]
               PROVE  \E k \in jobs' : /\ k.message = m /\ k.event = f
                                       /\ k.pc \in {"strikeWorkspace", "strike"}
    BY <1>1 DEF ResolutionInv, Merging
  <2>1. CASE f = ev
    <3>1. concerns(m, ev) /\ jobFor(m, ev).pc = "strikeWorkspace" /\ m \in hadRow
      BY <1>3, <2>1, JobForIs DEF concerns, settleFrom, Verdicts
    <3> QED BY <1>4, <2>1, <3>1, JobForIs
  <2>2. CASE f # ev
    BY <1>3, <1>4, <2>2 DEF ResolutionInv, Merging
  <2> QED BY <2>1, <2>2
<1>11. StaysSettled'
  <2> SUFFICES ASSUME Alone, scenario.faults \cap {"database", "crash", "answers"} = {},
                      NEW m \in Messages, struckBy[m] # {}
               PROVE  /\ slack[m].shown \in {"struck", "gone"} /\ rows[m] = NoRow
                      /\ \A k \in jobs' : k.message # m
    BY <1>1 DEF StaysSettled, Alone
  <2>1. slack[m].shown \in {"struck", "gone"} /\ rows[m] = NoRow /\ jobs = {}
    BY <1>1 DEF ResolutionInv, StaysSettled, OneJobEach, Alone, Stray
  <2>2. m \notin hadRow
    BY <1>2, <2>1
  <2> QED BY <1>4, <2>1, <2>2
<1> QED BY <1>6, <1>7, <1>8, <1>9, <1>10, <1>11 DEF ResolutionInv

LEMMA ReadThrowsResolution ==
    ASSUME ResolutionInv, NEW ev \in scenario.events, readThrows(ev), UNCHANGED scenario PROVE ResolutionInv'
<1>1. /\ handled' = handled \cup {ev}
      /\ UNCHANGED <<delivery, slack, rows, jobs, workspace, struckBy, heard>>
  BY DEF readThrows
<1>2. ResolutionTyped' /\ Filed' /\ StruckOnlyWhenEntitled' /\ OneJobEach' /\ Merging' /\ StaysSettled'
  <2>1. ResolutionTyped'
    BY <1>1 DEF ResolutionInv, ResolutionTyped
  <2>2. Filed' /\ StruckOnlyWhenEntitled'
    BY <1>1 DEF ResolutionInv, Filed, StruckOnlyWhenEntitled
  <2>3. OneJobEach' /\ Merging'
    BY <1>1 DEF ResolutionInv, OneJobEach, Merging, Alone
  <2>4. StaysSettled'
    BY <1>1 DEF ResolutionInv, StaysSettled, Alone
  <2> QED
    BY <2>1, <2>2, <2>3, <2>4
<1>3. Named'
  BY <1>1 DEF ResolutionInv, Named, Alone
<1>4. JobsFine'
  <2>1. ASSUME NEW k \in jobs PROVE JobFine(k)'
    <3>1. JobFine(k)
      BY JobHas
    <3> QED BY <1>1, <3>1 DEF JobFine, Alone
  <2> QED BY <1>1, <2>1 DEF JobsFine
<1> QED BY <1>2, <1>3, <1>4 DEF ResolutionInv

LEMMA VanishResolution ==
    ASSUME ResolutionInv, NEW m \in Messages, Vanish(m), UNCHANGED scenario PROVE ResolutionInv'
<1>1. /\ "slack" \in scenario.faults /\ slack[m].shown \in {"open", "struck"}
      /\ slack' = [slack EXCEPT ![m] = [shown |-> "gone", line |-> <<>>]]
      /\ UNCHANGED <<delivery, rows, handled, jobs, workspace, struckBy, heard>>
  BY DEF Vanish
<1>2. /\ slack'[m].shown = "gone" /\ slack'[m].line = <<>>
      /\ \A n \in Messages \ {m} : slack'[n] = slack[n]
      /\ slack' \in [Messages -> [shown: {"unsent", "open", "struck", "gone"}, line: Seq(Entry)]]
  BY <1>1, EmptyNames DEF ResolutionInv, ResolutionTyped
<1>3. ResolutionTyped' /\ Filed' /\ StruckOnlyWhenEntitled' /\ OneJobEach'
  BY <1>1, <1>2 DEF ResolutionInv, ResolutionTyped, Filed, StruckOnlyWhenEntitled, OneJobEach, Alone
<1>4. Named'
  BY <1>1, <1>2, EmptyNames DEF ResolutionInv, Named, Alone
<1>5. JobsFine'
  <2>1. ASSUME NEW k \in jobs PROVE JobFine(k)'
    <3>1. JobFine(k)
      BY JobHas
    <3> QED BY <1>1, <3>1 DEF JobFine, Alone
  <2> QED BY <1>1, <2>1 DEF JobsFine
<1>6. Merging' /\ StaysSettled'
  BY <1>1, <1>2 DEF ResolutionInv, Merging, StaysSettled, Alone
<1> QED BY <1>3, <1>4, <1>5, <1>6 DEF ResolutionInv

LEMMA ExpireResolution ==
    ASSUME ResolutionInv, NEW m \in Messages, Expire(m), UNCHANGED scenario PROVE ResolutionInv'
<1>1. /\ "database" \in scenario.faults /\ rows' = [rows EXCEPT ![m] = NoRow]
      /\ UNCHANGED <<delivery, slack, handled, jobs, workspace, struckBy, heard>>
  BY DEF Expire
<1>2. /\ rows'[m] = NoRow /\ \A n \in Messages \ {m} : rows'[n] = rows[n]
      /\ rows' \in [Messages -> Seq(Entry) \cup {NoRow}]
  BY <1>1 DEF ResolutionInv, ResolutionTyped
<1>3. ResolutionTyped' /\ Filed' /\ StruckOnlyWhenEntitled' /\ OneJobEach'
  BY <1>1, <1>2 DEF ResolutionInv, ResolutionTyped, Filed, StruckOnlyWhenEntitled, OneJobEach, Alone
<1>4. Named'
  BY <1>1, <1>2 DEF ResolutionInv, Named, Alone
<1>5. JobsFine'
  <2>1. ASSUME NEW k \in jobs PROVE JobFine(k)'
    <3>1. JobFine(k) /\ rows'[k.message] \in {NoRow, rows[k.message]}
      BY <1>2, JobHas
    <3> QED BY <1>1, <3>1 DEF JobFine, Alone
  <2> QED BY <1>1, <2>1 DEF JobsFine
<1>6. Merging' /\ StaysSettled'
  BY <1>1 DEF Merging, StaysSettled
<1> QED BY <1>3, <1>4, <1>5, <1>6 DEF ResolutionInv

LEMMA RevokeResolution == ASSUME ResolutionInv, Revoke, UNCHANGED scenario PROVE ResolutionInv'
<1>1. /\ "workspace" \in scenario.faults /\ workspace' \in {"live", "revoked"}
      /\ UNCHANGED <<delivery, slack, rows, handled, jobs, struckBy, heard>>
  BY DEF Revoke
<1>2. ResolutionTyped' /\ Filed' /\ StruckOnlyWhenEntitled' /\ OneJobEach'
  BY <1>1 DEF ResolutionInv, ResolutionTyped, Filed, StruckOnlyWhenEntitled, OneJobEach, Alone
<1>3. Named' /\ Merging' /\ StaysSettled'
  BY <1>1 DEF ResolutionInv, Named, Merging, StaysSettled, Alone
<1>4. JobsFine'
  <2>1. ASSUME NEW k \in jobs PROVE JobFine(k)'
    <3>1. JobFine(k)
      BY JobHas
    <3> QED BY <1>1, <3>1 DEF JobFine, Alone
  <2> QED BY <1>1, <2>1 DEF JobsFine
<1> QED BY <1>2, <1>3, <1>4 DEF ResolutionInv

LEMMA CrashResolution == ASSUME ResolutionInv, Crash, UNCHANGED scenario PROVE ResolutionInv'
<1>1. /\ "crash" \in scenario.faults /\ jobs' = Underway({moveTo(j, cutOff(j.pc)) : j \in jobs})
      /\ delivery' = [m \in Messages |-> IF delivery[m] = "posted" THEN "done" ELSE delivery[m]]
      /\ UNCHANGED <<slack, rows, handled, workspace, struckBy, heard>>
  BY DEF Crash
<1>2. /\ delivery' \in [Messages -> {"coming", "posted", "done"}]
      /\ \A m \in Messages : delivery'[m] = IF delivery[m] = "posted" THEN "done" ELSE delivery[m]
  BY <1>1 DEF ResolutionInv, ResolutionTyped
<1>3. ASSUME NEW k \in jobs' PROVE k \in Job /\ k.pc \in Stray /\ JobFine(k)'
  <2>1. PICK j \in jobs : k = moveTo(j, cutOff(j.pc)) /\ k.pc # "end"
    BY <1>1 DEF Underway
  <2>2. /\ k.message = j.message /\ k.event = j.event /\ k.seen = j.seen /\ k.pc = cutOff(j.pc)
        /\ JobFine(j) /\ j \in Job /\ j.message \in Messages
    BY <2>1, MoveIs, JobHas DEF ResolutionInv, ResolutionTyped
  <2>3. /\ k.pc \in Stray
        /\ k.pc = "strayStrike" => j.pc \in {"strike", "strayStrike"}
        /\ k.pc = "strayShow" => j.pc \in {"show", "strayShow"}
    BY <2>1, <2>2 DEF cutOff, Stray
  <2>4. k \in Job
    BY <2>1, <2>2, <2>3, MoveIs DEF Steps
  <2>5. delivery'[j.message] = "done"
    BY <1>2, <2>2 DEF JobFine
  <2>6. JobFine(k)'
    BY <1>1, <2>2, <2>3, <2>5 DEF JobFine, Alone, Early, Stray
  <2> QED BY <2>3, <2>4, <2>6
<1>4. ResolutionTyped'
  <2>1. jobs' \subseteq Job
    BY <1>3
  <2> QED BY <1>1, <1>2, <2>1 DEF ResolutionInv, ResolutionTyped
<1>5. StruckOnlyWhenEntitled' /\ OneJobEach' /\ JobsFine'
  BY <1>1, <1>3 DEF ResolutionInv, StruckOnlyWhenEntitled, OneJobEach, JobsFine
<1>6. Filed' /\ Named' /\ Merging' /\ StaysSettled'
  BY <1>1, <1>2 DEF ResolutionInv, Filed, Named, Merging, StaysSettled, Alone
<1> QED BY <1>4, <1>5, <1>6 DEF ResolutionInv

LEMMA StutterResolution == ASSUME ResolutionInv, UNCHANGED resolutionVars PROVE ResolutionInv'
<1>1. UNCHANGED <<scenario, delivery, slack, rows, handled, jobs, workspace, struckBy, heard>>
  BY DEF resolutionVars, state
<1>2. ResolutionTyped' /\ Filed' /\ StruckOnlyWhenEntitled' /\ OneJobEach'
  BY <1>1 DEF ResolutionInv, ResolutionTyped, Filed, StruckOnlyWhenEntitled, OneJobEach, Alone
<1>3. Merging' /\ StaysSettled'
  BY <1>1 DEF ResolutionInv, Merging, StaysSettled, Alone
<1>4. Named'
  BY <1>1 DEF ResolutionInv, Named, Alone
<1>5. JobsFine'
  <2>1. ASSUME NEW k \in jobs PROVE JobFine(k)'
    <3>1. JobFine(k)
      BY JobHas
    <3> QED BY <1>1, <3>1 DEF JobFine, Alone
  <2> QED BY <1>1, <2>1 DEF JobsFine
<1> QED BY <1>2, <1>3, <1>4, <1>5 DEF ResolutionInv

----------------------------------------------------------------------------
LEMMA InitResolution == ASSUME ResolutionInit PROVE ResolutionInv
<1>1. /\ \A m \in Messages : /\ delivery[m] = "coming" /\ rows[m] = NoRow /\ struckBy[m] = {}
                             /\ slack[m].shown = "unsent" /\ slack[m].line = <<>>
      /\ \A ev \in Events : heard[ev] = {}
      /\ jobs = {} /\ handled = {} /\ workspace = "live" /\ scenario \in Scenarios
  BY DEF ResolutionInit
<1>2. ResolutionTyped
  BY EmptyNames DEF ResolutionInit, ResolutionTyped
<1>3. Filed /\ StruckOnlyWhenEntitled /\ Merging /\ StaysSettled /\ JobsFine /\ OneJobEach
  BY <1>1 DEF Filed, StruckOnlyWhenEntitled, Merging, StaysSettled, JobsFine, OneJobEach
<1>4. Named
  BY <1>1, EmptyNames DEF Named
<1> QED BY <1>2, <1>3, <1>4 DEF ResolutionInv

LEMMA NextResolution == ASSUME ResolutionInv, [ResolutionNext]_resolutionVars PROVE ResolutionInv'
<1>1. CASE UNCHANGED resolutionVars
  BY <1>1, StutterResolution
<1>2. CASE ResolutionNext
  <2>1. UNCHANGED scenario /\ Step
    BY <1>2 DEF ResolutionNext
  <2>2. CASE \E m \in Messages : Post(m) \/ remember(m) \/ Vanish(m) \/ Expire(m)
    BY <2>1, <2>2, PostResolution, RememberResolution, VanishResolution, ExpireResolution
  <2>3. CASE \E ev \in scenario.events : readForPullRequest(ev) \/ readThrows(ev)
    BY <2>1, <2>3, ReadResolution, ReadThrowsResolution
  <2>4. CASE \E j \in jobs : JobStep(j)
    <3>1. PICK j \in jobs : JobStep(j)
      BY <2>4
    <3> QED BY <2>1, <3>1, KeptStandingResolution, ReadLiveResolution, SetVerdictResolution, AddToSetResolution, ShowResolution,
               StrikeResolution, StrayResolution, GivenUpResolution, DeleteResolution DEF JobStep
  <2>5. CASE Revoke \/ Crash
    BY <2>1, <2>5, RevokeResolution, CrashResolution
  <2> QED BY <2>1, <2>2, <2>3, <2>4, <2>5 DEF Step
<1> QED BY <1>1, <1>2

\* What is known of every job and every row holds of every state: what a job goes on from is
\* the row as it was, and the row has only gained names since (resolve, annotate, addReviewer).
THEOREM ResolutionInvariance == ResolutionSpec => []ResolutionInv
<1>1. ResolutionInit => ResolutionInv
  BY InitResolution
<1>2. ResolutionInv /\ [ResolutionNext]_resolutionVars => ResolutionInv'
  BY NextResolution
<1> QED BY <1>1, <1>2, PTL DEF ResolutionSpec

----------------------------------------------------------------------------
LEMMA InvariantGivesStruckJustly == ResolutionInv => StruckJustly
<1> SUFFICES ASSUME ResolutionInv PROVE StruckJustly
  OBVIOUS
<1>1. ResolutionTypeOK
  <2>1. \A line \in Seq(Entry) : IsLine(line)
    BY DEF IsLine
  <2>2. ASSUME NEW m \in Messages
        PROVE  /\ slack[m].shown \in {"unsent", "open", "struck", "gone"}
               /\ IsLine(slack[m].line)
               /\ rows[m] # NoRow => delivery[m] = "done" /\ IsLine(rows[m])
               /\ delivery[m] = "coming" <=> slack[m].shown = "unsent"
    BY <2>1 DEF ResolutionInv, ResolutionTyped, Filed
  <2>3. ASSUME NEW j \in jobs
        PROVE  /\ j.message \in Messages /\ j.event \in handled
               /\ j.pc \in Steps /\ IsLine(j.seen)
    BY <2>1 DEF ResolutionInv, ResolutionTyped, Job, JobsFine, JobFine
  <2> QED BY <2>2, <2>3 DEF ResolutionInv, ResolutionTyped, ResolutionTypeOK
<1>2. RowKnowsLine
  BY DEF ResolutionInv, Named, RowKnowsLine, Who
<1>3. MergeStrikes
  BY DEF ResolutionInv, ResolutionTyped, Merging, MergeStrikes
<1>4. AloneHolds
  <2>1. Alone => NamedOnce
    BY DEF ResolutionInv, Named, NamedOnce, Once
  <2>2. Alone /\ scenario.faults \cap {"database", "crash", "answers"} = {} => StrikeLands
    BY DEF ResolutionInv, StaysSettled, StrikeLands
  <2> QED BY <2>1, <2>2 DEF AloneHolds, Alone
<1> QED BY <1>1, <1>2, <1>3, <1>4 DEF ResolutionInv, StruckJustly

\* Whatever the pokes, readers, webhooks, interleavings and failures, lost answers and edits that land
\* late among them: no message is struck by an event that did not end its reader's request, and the row
\* knows whom its message names.  Where nothing fails, a merge strikes every message it found.  One
\* handler at a time leaves nobody named twice, and a struck message struck unless a restart, a failing
\* database or a lost answer came between the edit and its row (PokeResolutionService.resolve, annotate
\* and settle).
THEOREM StruckJustlyHolds == ResolutionSpec => []StruckJustly
BY ResolutionInvariance, InvariantGivesStruckJustly, PTL

----------------------------------------------------------------------------
(* What the pieces of a review are put in order by. *)

LEMMA Least ==
    ASSUME NEW T \in SUBSET Nat, T # {}
    PROVE  Min(T) \in T /\ \A y \in T : Min(T) <= y
<1>1. \E x \in T : \A y \in T : <<y, x>> \notin OpToRel(<, Nat)
  BY NatLessThanWellFounded, WFMin, Zenon
<1>2. PICK x \in T : \A y \in T : <<y, x>> \notin OpToRel(<, Nat)
  BY <1>1
<1>3. \A y \in T : y \in Nat
  OBVIOUS
<1>4. \A y \in T : ~(y < x)
  BY <1>2, <1>3 DEF OpToRel
<1>5. \A y \in T : x =< y
  BY <1>3, <1>4
<1> QED BY <1>5 DEF Min

\* How many of the ids are smaller than x: at which place a comment of that id was written.
Before(I, x) == Cardinality({y \in I : y < x})

LEMMA PlacesGrow ==
    ASSUME NEW I \in SUBSET Nat, IsFiniteSet(I), NEW x \in I
    PROVE  /\ Cardinality(I) \in Nat /\ Before(I, x) \in Nat /\ Before(I, x) < Cardinality(I)
           /\ \A z \in I : x < z => Before(I, x) < Before(I, z)
<1> DEFINE A == {y \in I : y < x}
<1>1. x \in Nat /\ \A y \in I : y \in Nat
  OBVIOUS
<1>2. IsFiniteSet(A) /\ Cardinality(A) \in Nat /\ Cardinality(I) \in Nat
  BY FS_Subset, FS_CardinalityType
<1>3. x \notin A
  BY <1>1
<1>4. Cardinality(A \cup {x}) = Cardinality(A) + 1
  BY <1>2, <1>3, FS_AddElement
<1>5. Cardinality(A \cup {x}) <= Cardinality(I)
  <2>1. A \cup {x} \subseteq I
    OBVIOUS
  <2> QED BY <2>1, FS_Subset
<1>6. ASSUME NEW z \in I, x < z PROVE Before(I, x) < Before(I, z)
  <2> DEFINE B == {y \in I : y < z}
  <2>a. \A y \in I : y < x => y < z
    BY <1>1, <1>6
  <2>1. A \cup {x} \subseteq B
    BY <1>6, <2>a
  <2>2. IsFiniteSet(B) /\ Cardinality(B) \in Nat
    BY FS_Subset, FS_CardinalityType
  <2>3. Cardinality(A \cup {x}) <= Cardinality(B)
    BY <2>1, <2>2, FS_Subset
  <2> QED BY <1>2, <1>4, <2>2, <2>3 DEF Before
<1>7. Before(I, x) \in Nat /\ Before(I, x) < Cardinality(I)
  BY <1>2, <1>4, <1>5 DEF Before
<1> QED BY <1>2, <1>6, <1>7

\* The places of so many ids are so many, so none is left without one.
LEMMA PlacesAreTaken ==
    ASSUME NEW I \in SUBSET Nat, IsFiniteSet(I), NEW n \in 1 .. Cardinality(I)
    PROVE  \E x \in I : Before(I, x) = n - 1
<1> DEFINE Places == 0 .. Cardinality(I) - 1
           place  == [x \in I |-> Before(I, x)]
<1>1. Cardinality(I) \in Nat
  BY FS_CardinalityType
<1>2. \A x \in I : x \in Nat
  OBVIOUS
<1>3. \A x \in I : Before(I, x) \in Places
  BY <1>1, PlacesGrow
<1>4. \A x, z \in I : x < z => Before(I, x) < Before(I, z)
  BY PlacesGrow
<1>5. \A x, z \in I : Before(I, x) = Before(I, z) => x = z
  <2>1. SUFFICES ASSUME NEW x \in I, NEW z \in I, Before(I, x) = Before(I, z), x # z PROVE FALSE
    OBVIOUS
  <2>2. x < z \/ z < x
    BY <1>2, <2>1
  <2>3. Before(I, x) \in Int
    BY <1>3
  <2> QED BY <1>4, <2>1, <2>2, <2>3
<1>6. place \in Injection(I, Places)
  BY <1>3, <1>5 DEF Injection, IsInjective
<1>7. IsFiniteSet(Places) /\ Cardinality(Places) = Cardinality(I)
  <2>1. PICK last \in Int : last = Cardinality(I) - 1
    BY <1>1
  <2>2. IsFiniteSet(0 .. last) /\ Cardinality(0 .. last) = IF 0 > last THEN 0 ELSE last - 0 + 1
    BY FS_Interval
  <2> QED BY <1>1, <2>1, <2>2
<1>8. place \in Surjection(I, Places)
  BY <1>6, <1>7, FS_Injection
<1>9. n - 1 \in Places
  BY <1>1
<1> QED BY <1>8, <1>9 DEF Surjection

----------------------------------------------------------------------------
(* The pieces of a batch. *)

ReviewPieces == InlineComments \cup Submissions

OnePieceEach(s) == \A i, j \in DOMAIN s : s[i].commentId = s[j].commentId => i = j

IdsOf(s) == {s[i].commentId : i \in DOMAIN s} \ {Submitted}

LEMMA PieceIs ==
    /\ \A p \in ReviewPieces : p.commentId \in Nat /\ p.words \in BOOLEAN
    /\ \A p \in ReviewPieces : p.commentId = Submitted => p \in Submissions
    /\ \A p \in ReviewPieces : p.commentId # Submitted => p.type \in CommentTypes /\ p.state = "none"
    /\ \A p \in ReviewPieces : p.commentId = Submitted => p.type \in SubmissionTypes
<1>1. \A id \in CommentIds : id \in Nat /\ id # 0
  BY CommentIdsAssumption
<1> QED BY <1>1 DEF ReviewPieces, InlineComments, Submissions, Submitted

LEMMA IdsAre ==
    ASSUME NEW s \in Seq(ReviewPieces)
    PROVE  /\ IsFiniteSet(IdsOf(s)) /\ IdsOf(s) \in SUBSET Nat
           /\ \A x \in IdsOf(s) : \E i \in DOMAIN s : s[i].commentId = x
<1> DEFINE T == {s[i].commentId : i \in DOMAIN s}
           f == [i \in DOMAIN s |-> s[i].commentId]
<1>1. DOMAIN s = 1 .. Len(s) /\ Len(s) \in Nat /\ \A i \in DOMAIN s : s[i] \in ReviewPieces
  OBVIOUS
<1>2. IsFiniteSet(DOMAIN s)
  BY <1>1, FS_Interval
<1>3. f \in Surjection(DOMAIN s, T)
  BY DEF Surjection
<1>4. IsFiniteSet(T)
  BY <1>2, <1>3, FS_Surjection
<1>5. IdsOf(s) \subseteq T
  BY DEF IdsOf
<1>6. \A i \in DOMAIN s : s[i].commentId \in Nat
  BY <1>1, PieceIs
<1> QED BY <1>4, <1>5, <1>6, FS_Subset DEF IdsOf

LEMMA SequenceIs ==
    ASSUME NEW S, NEW n \in Nat, NEW t \in [1 .. n -> S]
    PROVE  t \in Seq(S) /\ Len(t) = n /\ DOMAIN t = 1 .. n
OBVIOUS

\* The comments of a batch are in the order they were written, and all there.
LEMMA CommentsInOrder ==
    ASSUME NEW s \in Seq(ReviewPieces), OnePieceEach(s)
    PROVE  /\ Cardinality(IdsOf(s)) \in Nat
           /\ CommentsOf(s) \in Seq(ReviewPieces) /\ Len(CommentsOf(s)) = Cardinality(IdsOf(s))
           /\ \A n \in DOMAIN CommentsOf(s) : CommentsOf(s)[n].commentId # Submitted
           /\ \A n \in DOMAIN CommentsOf(s) : \E i \in DOMAIN s : CommentsOf(s)[n] = s[i]
           /\ \A m, n \in DOMAIN CommentsOf(s) :
                 m < n => CommentsOf(s)[m].commentId < CommentsOf(s)[n].commentId
           /\ \A i \in DOMAIN s : s[i].commentId # Submitted =>
                 \E n \in DOMAIN CommentsOf(s) : CommentsOf(s)[n] = s[i]
<1> DEFINE I == IdsOf(s)
           id(n) == CHOOSE x \in I : Before(I, x) = n - 1
           piece(n) == s[CHOOSE i \in DOMAIN s : s[i].commentId = id(n)]
<1>1. /\ IsFiniteSet(I) /\ I \in SUBSET Nat /\ Cardinality(I) \in Nat
      /\ \A x \in I : x \in Nat
      /\ \A x \in I : \E i \in DOMAIN s : s[i].commentId = x
  BY IdsAre, FS_CardinalityType
<1>2. CommentsOf(s) = [n \in 1 .. Cardinality(I) |-> piece(n)]
  BY DEF CommentsOf, IdsOf, Before
<1>3. \A n \in 1 .. Cardinality(I) : id(n) \in I /\ Before(I, id(n)) = n - 1
  BY <1>1, PlacesAreTaken
<1>4. \A n \in 1 .. Cardinality(I) : \E i \in DOMAIN s : piece(n) = s[i] /\ s[i].commentId = id(n)
  BY <1>1, <1>3
<1>5. \A i \in DOMAIN s : s[i] \in ReviewPieces
  OBVIOUS
<1>6. \A n \in 1 .. Cardinality(I) : piece(n) \in ReviewPieces /\ piece(n).commentId = id(n)
  BY <1>4, <1>5
<1>7. CommentsOf(s) \in [1 .. Cardinality(I) -> ReviewPieces]
  BY <1>2, <1>6
<1>8. PICK c \in [1 .. Cardinality(I) -> ReviewPieces] : c = CommentsOf(s)
  BY <1>7
<1>9. c \in Seq(ReviewPieces) /\ Len(c) = Cardinality(I) /\ DOMAIN c = 1 .. Cardinality(I)
  BY <1>1, <1>8, SequenceIs
<1>10. \A n \in DOMAIN c : c[n] = piece(n)
  BY <1>2, <1>8
<1>11. /\ \A n \in DOMAIN c : c[n].commentId \in I
       /\ \A n \in DOMAIN c : Before(I, c[n].commentId) = n - 1
       /\ \A n \in DOMAIN c : \E i \in DOMAIN s : c[n] = s[i]
  <2>1. ASSUME NEW n \in DOMAIN c
        PROVE  /\ c[n].commentId \in I /\ Before(I, c[n].commentId) = n - 1
               /\ \E i \in DOMAIN s : c[n] = s[i]
    <3>1. c[n] = piece(n) /\ n \in 1 .. Cardinality(I)
      BY <1>9, <1>10
    <3>2. c[n].commentId = id(n)
      BY <1>6, <3>1
    <3>3. \E i \in DOMAIN s : c[n] = s[i]
      BY <1>4, <3>1
    <3> HIDE DEF id
    <3>4. c[n].commentId \in I /\ Before(I, c[n].commentId) = n - 1
      BY <1>3, <3>1, <3>2
    <3>5. QED BY <3>3, <3>4
  <2> QED BY <2>1
<1> HIDE DEF id, piece
<1>12. \A x \in I : x # Submitted
  BY DEF IdsOf
<1>13. ASSUME NEW m \in DOMAIN c, NEW n \in DOMAIN c, m < n
       PROVE  c[m].commentId < c[n].commentId
  <2>1. /\ c[m].commentId \in I /\ c[n].commentId \in I
        /\ Before(I, c[m].commentId) = m - 1 /\ Before(I, c[n].commentId) = n - 1
    BY <1>11
  <2>2. m \in Nat /\ n \in Nat /\ c[m].commentId \in Nat /\ c[n].commentId \in Nat
    BY <1>1, <1>9, <2>1
  <2>3. c[n].commentId < c[m].commentId => Before(I, c[n].commentId) < Before(I, c[m].commentId)
    BY <1>1, <2>1, PlacesGrow
  <2>4. c[m].commentId # c[n].commentId
    BY <1>13, <2>1, <2>2
  <2>5. ~(c[n].commentId < c[m].commentId)
    BY <1>13, <2>1, <2>2, <2>3
  <2> QED BY <2>2, <2>4, <2>5
<1>14. ASSUME NEW i \in DOMAIN s, s[i].commentId # Submitted
       PROVE  \E n \in DOMAIN c : c[n] = s[i]
  <2>1. s[i].commentId \in I
    BY <1>14 DEF IdsOf
  <2>2. Before(I, s[i].commentId) \in Nat /\ Before(I, s[i].commentId) < Cardinality(I)
    BY <1>1, <2>1, PlacesGrow
  <2>3. PICK n \in Nat : n = Before(I, s[i].commentId) + 1
    BY <2>2
  <2>4. n \in DOMAIN c
    BY <1>1, <1>9, <2>2, <2>3
  <2>5. c[n].commentId \in I /\ Before(I, c[n].commentId) = Before(I, s[i].commentId)
    BY <1>11, <2>2, <2>3, <2>4
  <2>6. c[n].commentId = s[i].commentId
    <3>1. c[n].commentId < s[i].commentId => Before(I, c[n].commentId) < Before(I, s[i].commentId)
      BY <1>1, <2>1, <2>5, PlacesGrow
    <3>2. s[i].commentId < c[n].commentId => Before(I, s[i].commentId) < Before(I, c[n].commentId)
      BY <1>1, <2>1, <2>5, PlacesGrow
    <3>3. c[n].commentId \in Nat /\ s[i].commentId \in Nat
      BY <1>1, <2>1, <2>5
    <3> QED BY <2>2, <2>5, <3>1, <3>2, <3>3
  <2>7. PICK j \in DOMAIN s : c[n] = s[j]
    BY <1>11, <2>4
  <2>8. j = i
    BY <2>6, <2>7 DEF OnePieceEach
  <2> QED BY <2>4, <2>7, <2>8
<1>15. \A n \in DOMAIN c : c[n].commentId # Submitted
  BY <1>11, <1>12
<1>16. /\ \A m, n \in DOMAIN c : m < n => c[m].commentId < c[n].commentId
       /\ \A i \in DOMAIN s : s[i].commentId # Submitted => \E n \in DOMAIN c : c[n] = s[i]
  BY <1>13, <1>14
<1>17. QED BY <1>1, <1>8, <1>9, <1>11, <1>15, <1>16

----------------------------------------------------------------------------
(* Which of several comes first. *)

Standing(type) == CHOOSE i \in DOMAIN PRIORITY : PRIORITY[i] = type

\* i is in front of all the others.
Foremost(s, i) ==
    \A j \in DOMAIN s \ {i} :
        \/ comparePriority(s[i].type, s[j].type) < 0
        \/ comparePriority(s[i].type, s[j].type) = 0 /\ i < j

LEMMA ComparedByStanding ==
    /\ \A a, b : comparePriority(a, b) = Standing(a) - Standing(b)
    /\ \A type \in NotificationType : Standing(type) \in Nat
    /\ \A type \in CommentTypes \cup SubmissionTypes : type \in NotificationType
    /\ \A type \in CommentTypes : Standing("review_submitted") < Standing(type)
<1>1. DOMAIN PRIORITY = 1 .. 9
  BY DEF PRIORITY
<1>2. \A type \in NotificationType : Standing(type) \in 1 .. 9
  BY <1>1 DEF NotificationType, Standing
<1>3. /\ PRIORITY[4] = "review_submitted" /\ PRIORITY[5] = "comment_reply"
      /\ PRIORITY[6] = "pull_request_comment" /\ PRIORITY[8] = "pull_request_mention"
  BY DEF PRIORITY
<1>4. \A i \in 1 .. 9 : PRIORITY[i] = "review_submitted" => i = 4
  BY DEF PRIORITY
<1>5. \A i \in 1 .. 9 : PRIORITY[i] \in CommentTypes => i > 4
  BY DEF PRIORITY, CommentTypes
<1>6. Standing("review_submitted") = 4
  BY <1>1, <1>3, <1>4 DEF Standing
<1>7. \A type \in CommentTypes : \E i \in 1 .. 9 : PRIORITY[i] = type
  BY <1>3 DEF CommentTypes
<1>8. \A type \in CommentTypes : Standing(type) > 4
  BY <1>1, <1>5, <1>7 DEF Standing
<1>9. \A type \in CommentTypes \cup SubmissionTypes : type \in NotificationType
  BY <1>1, <1>3 DEF CommentTypes, SubmissionTypes, NotificationType
<1>10. \A a, b : comparePriority(a, b) = Standing(a) - Standing(b)
  BY DEF comparePriority, Standing
<1>11. /\ \A type \in NotificationType : Standing(type) \in Nat
       /\ \A type \in CommentTypes : Standing("review_submitted") < Standing(type)
  BY <1>2, <1>6, <1>8
<1> QED BY <1>9, <1>10, <1>11

\* There is one that comes first, whatever there is.
LEMMA OneComesFirst ==
    ASSUME NEW s \in Seq(ReviewPieces), s # <<>>
    PROVE  \E i \in DOMAIN s : FirstByPriority(s) = s[i] /\ Foremost(s, i)
<1> DEFINE S == {Standing(s[i].type) : i \in DOMAIN s}
<1>1. DOMAIN s = 1 .. Len(s) /\ Len(s) \in Nat /\ DOMAIN s # {}
  OBVIOUS
<1>2. \A i \in DOMAIN s : s[i].type \in NotificationType
  <2>1. \A i \in DOMAIN s : s[i] \in ReviewPieces
    OBVIOUS
  <2> QED BY <2>1, PieceIs, ComparedByStanding
<1>3. \A i \in DOMAIN s : Standing(s[i].type) \in Nat
  BY <1>2, ComparedByStanding
<1>4. S \in SUBSET Nat /\ S # {}
  BY <1>1, <1>3
<1>5. PICK m \in S : \A y \in S : m <= y
  BY <1>4, Least
<1> DEFINE Top == {i \in DOMAIN s : Standing(s[i].type) = m}
<1>6. Top \in SUBSET Nat /\ Top # {}
  BY <1>1, <1>5
<1>7. PICK i \in Top : \A j \in Top : i <= j
  BY <1>6, Least
<1>8. ASSUME NEW j \in DOMAIN s \ {i}
      PROVE  \/ comparePriority(s[i].type, s[j].type) < 0
             \/ comparePriority(s[i].type, s[j].type) = 0 /\ i < j
  <2>1. i \in Nat /\ j \in Nat /\ Standing(s[i].type) \in Nat /\ Standing(s[j].type) \in Nat
    BY <1>1, <1>3
  <2>2. comparePriority(s[i].type, s[j].type) = Standing(s[i].type) - Standing(s[j].type)
    BY ComparedByStanding
  <2>3. Standing(s[i].type) = m /\ m <= Standing(s[j].type)
    BY <1>5
  <2>4. Standing(s[j].type) = m => i < j
    BY <1>7, <2>1
  <2> QED BY <2>1, <2>2, <2>3, <2>4
<1>9. Foremost(s, i) /\ i \in DOMAIN s
  BY <1>8 DEF Foremost
<1>10. FirstByPriority(s) = s[CHOOSE k \in DOMAIN s : Foremost(s, k)]
  BY DEF FirstByPriority, Foremost
<1>11. PICK k \in DOMAIN s : k = (CHOOSE h \in DOMAIN s : Foremost(s, h)) /\ Foremost(s, k)
  BY <1>9
<1> QED BY <1>10, <1>11

----------------------------------------------------------------------------
(* What a review's pieces are merged into. *)

LEMMA OneSubmission ==
    ASSUME NEW s \in Seq(ReviewPieces), OnePieceEach(s),
           NEW i \in DOMAIN s, s[i].commentId = Submitted
    PROVE  /\ SubmissionsOf(s) = {s[i]}
           /\ \A j \in DOMAIN s \ {i} : s[j].commentId # Submitted
<1>1. \A j \in DOMAIN s \ {i} : s[j].commentId # Submitted
  BY DEF OnePieceEach
<1>2. \A j \in DOMAIN s : s[j].commentId = Submitted <=> j = i
  BY <1>1
<1>3. SubmissionsOf(s) = {s[i]}
  BY <1>2 DEF SubmissionsOf
<1> QED BY <1>1, <1>3

LEMMA QuotesTheEarliest ==
    ASSUME NEW s \in Seq(ReviewPieces), OnePieceEach(s)
    PROVE  LET wordy == {p \in Range(s) : p.words}
           IN  mergeReview(s).excerpt = IF wordy = {} THEN NoWords
                                        ELSE Min({p.commentId : p \in wordy})
<1> DEFINE wordy == {p \in Range(s) : p.words}
           T == {p.commentId : p \in wordy}
           said == {sub \in SubmissionsOf(s) : sub.words}
<1>1. \A i \in DOMAIN s : s[i] \in ReviewPieces /\ s[i] \in Range(s)
  BY DEF Range
<1>2. \A p \in Range(s) : \E i \in DOMAIN s : p = s[i]
  BY DEF Range
<1>3. \A p \in Range(s) : p.commentId \in Nat
  BY <1>1, <1>2, PieceIs
<1>4. T \in SUBSET Nat
  BY <1>3
<1>5. PICK c : c = CommentsOf(s)
  OBVIOUS
<1>6. mergeReview(s).excerpt = IF said # {} THEN Submitted ELSE excerptOf(c)
  BY <1>5 DEF mergeReview
<1>7. CASE said # {}
  <2>1. PICK p \in SubmissionsOf(s) : p.words
    BY <1>7
  <2>2. p \in Range(s) /\ p.commentId = Submitted
    BY <1>1, <2>1 DEF SubmissionsOf
  <2>3. 0 \in T /\ wordy # {}
    BY <2>1, <2>2 DEF Submitted
  <2>4. Min(T) \in Nat /\ Min(T) <= 0
    BY <1>4, <2>3, Least
  <2>5. Min(T) = 0
    BY <2>4
  <2> QED BY <1>6, <1>7, <2>3, <2>5 DEF Submitted
<1>8. CASE said = {}
  <2> DEFINE W == {n \in DOMAIN c : c[n].words}
  <2>1. /\ c \in Seq(ReviewPieces)
        /\ \A n \in DOMAIN c : \E i \in DOMAIN s : c[n] = s[i]
        /\ \A m, n \in DOMAIN c : m < n => c[m].commentId < c[n].commentId
        /\ \A i \in DOMAIN s : s[i].commentId # Submitted => \E n \in DOMAIN c : c[n] = s[i]
    BY <1>5, CommentsInOrder
  <2>2. \A p \in wordy : \E n \in W : c[n] = p
    <3>1. SUFFICES ASSUME NEW p \in wordy PROVE \E n \in W : c[n] = p
      OBVIOUS
    <3>2. PICK i \in DOMAIN s : p = s[i]
      BY <1>2, <3>1
    <3>3. p.words
      BY <3>1
    <3>4. p.commentId # Submitted
      BY <1>8, <3>2, <3>3 DEF SubmissionsOf
    <3> QED BY <2>1, <3>2, <3>3, <3>4
  <2>3. \A n \in W : c[n] \in wordy
    BY <1>1, <2>1
  <2>4. excerptOf(c) = IF W = {} THEN NoWords ELSE c[Min(W)].commentId
    BY DEF excerptOf
  <2>5. CASE W = {}
    <3>1. wordy = {}
      BY <2>2, <2>5
    <3> QED BY <1>6, <1>8, <2>4, <2>5, <3>1
  <2>6. CASE W # {}
    <3>1. W \in SUBSET Nat
      BY <2>1
    <3>2. PICK k \in W : k = Min(W) /\ \A n \in W : k <= n
      BY <2>6, <3>1, Least
    <3>3. c[k] \in wordy /\ c[k].commentId \in T /\ wordy # {}
      BY <2>3, <3>2
    <3>4. PICK low : low = c[k].commentId
      OBVIOUS
    <3>5. low \in T /\ low \in Nat
      BY <1>4, <3>3, <3>4
    <3>6. \A p \in wordy : low <= p.commentId
      <4>1. SUFFICES ASSUME NEW p \in wordy PROVE low <= p.commentId
        OBVIOUS
      <4>2. PICK n \in W : c[n] = p
        BY <2>2
      <4>3. k \in Nat /\ n \in Nat /\ k <= n /\ k \in DOMAIN c /\ n \in DOMAIN c
        BY <3>1, <3>2, <4>2
      <4>4. k < n => low < p.commentId
        BY <2>1, <3>4, <4>2, <4>3
      <4>5. p.commentId \in Nat
        BY <1>3, <4>1
      <4> QED BY <3>4, <3>5, <4>2, <4>3, <4>4, <4>5
    <3>7. \A y \in T : low <= y
      BY <3>6
    <3>8. T # {}
      BY <3>5
    <3>9. PICK least \in T : least = Min(T) /\ \A y \in T : least <= y
      BY <1>4, <3>8, Least
    <3>10. least = low
      <4>1. least \in Nat /\ least <= low /\ low <= least
        BY <1>4, <3>5, <3>7, <3>9
      <4> QED BY <3>5, <4>1
    <3> QED BY <1>6, <1>8, <2>4, <2>6, <3>2, <3>3, <3>4, <3>9, <3>10
  <2> QED BY <2>5, <2>6
<1> QED BY <1>7, <1>8

\* What a merged batch leads with is one of its pieces, and a comment where there are some
\* and all that was submitted is the envelope around them.
LEMMA LeadIsAPiece ==
    ASSUME NEW s \in Seq(ReviewPieces), OnePieceEach(s), s # <<>>
    PROVE  /\ \E i \in DOMAIN s : mergeReview(s).lead = s[i]
           /\ (\E i \in DOMAIN s : s[i].commentId # Submitted) /\ (\E sub \in SubmissionsOf(s) : isEnvelope(sub))
                 => mergeReview(s).lead.commentId # Submitted
           /\ ~(\E sub \in SubmissionsOf(s) : isEnvelope(sub)) =>
                 \E i \in DOMAIN s : mergeReview(s).lead = s[i] /\ Foremost(s, i)
<1>1. PICK c : c = CommentsOf(s)
  OBVIOUS
<1> DEFINE enveloped == \E sub \in SubmissionsOf(s) : isEnvelope(sub)
<1>2. mergeReview(s).lead = FirstByPriority(IF enveloped /\ c # <<>> THEN c ELSE s)
  BY <1>1 DEF mergeReview
<1>3. /\ c \in Seq(ReviewPieces)
      /\ \A n \in DOMAIN c : c[n].commentId # Submitted
      /\ \A n \in DOMAIN c : \E i \in DOMAIN s : c[n] = s[i]
      /\ \A i \in DOMAIN s : s[i].commentId # Submitted => \E n \in DOMAIN c : c[n] = s[i]
  BY <1>1, CommentsInOrder
<1>4. (\E i \in DOMAIN s : s[i].commentId # Submitted) => c # <<>>
  BY <1>3
<1>5. CASE enveloped /\ c # <<>>
  <2>1. PICK n \in DOMAIN c : FirstByPriority(c) = c[n]
    BY <1>3, <1>5, OneComesFirst
  <2>2. mergeReview(s).lead = c[n]
    BY <1>2, <1>5, <2>1
  <2>3. \E i \in DOMAIN s : mergeReview(s).lead = s[i]
    BY <1>3, <2>2
  <2>4. mergeReview(s).lead.commentId # Submitted
    BY <1>3, <2>2
  <2> QED BY <1>5, <2>3, <2>4
<1>6. CASE ~(enveloped /\ c # <<>>)
  <2>1. PICK n \in DOMAIN s : FirstByPriority(s) = s[n] /\ Foremost(s, n)
    BY OneComesFirst
  <2>2. mergeReview(s).lead = s[n]
    BY <1>2, <1>6, <2>1
  <2> QED BY <1>4, <1>6, <2>1, <2>2
<1> QED BY <1>5, <1>6

LEMMA VerdictLeads ==
    ASSUME NEW s \in Seq(ReviewPieces), OnePieceEach(s), NEW i \in DOMAIN s,
           s[i].type = "review_submitted", isReviewVerdict(s[i].state)
    PROVE  s[i].commentId = Submitted /\ mergeReview(s).lead = s[i]
<1>1. \A j \in DOMAIN s : s[j] \in ReviewPieces
  OBVIOUS
<1>2. s[i].commentId = Submitted
  <2>1. "review_submitted" \notin CommentTypes
    BY DEF CommentTypes
  <2> QED BY <1>1, <2>1, PieceIs
<1>3. SubmissionsOf(s) = {s[i]} /\ \A j \in DOMAIN s \ {i} : s[j].commentId # Submitted
  BY <1>2, OneSubmission
<1>4. ~\E sub \in SubmissionsOf(s) : isEnvelope(sub)
  BY <1>3 DEF isEnvelope
<1>5. s # <<>>
  OBVIOUS
<1>6. PICK k \in DOMAIN s : mergeReview(s).lead = s[k] /\ Foremost(s, k)
  BY <1>4, <1>5, LeadIsAPiece
<1>7. k = i
  <2>1. SUFFICES ASSUME k # i PROVE FALSE
    OBVIOUS
  <2>2. s[k].type \in CommentTypes
    BY <1>1, <1>3, <2>1, PieceIs
  <2>3. Standing(s[i].type) < Standing(s[k].type)
    BY <2>2, ComparedByStanding
  <2>4. Standing(s[i].type) \in Nat /\ Standing(s[k].type) \in Nat
    <3>1. s[i].type \in SubmissionTypes
      BY DEF SubmissionTypes
    <3> QED BY <2>2, <3>1, ComparedByStanding
  <2>5. comparePriority(s[k].type, s[i].type) = Standing(s[k].type) - Standing(s[i].type)
    BY ComparedByStanding
  <2>6. comparePriority(s[k].type, s[i].type) < 0 \/ comparePriority(s[k].type, s[i].type) = 0
    BY <1>6, <2>1 DEF Foremost
  <2> QED BY <2>3, <2>4, <2>5, <2>6
<1> QED BY <1>2, <1>6, <1>7

----------------------------------------------------------------------------
(* The batch as it grows, and what it is merged into whenever it is closed. *)

\* A review is delivered as one submission and each comment once, and is never edited; a
\* request as asks, of people or teams.
BatchInv ==
    /\ kind = "review" =>
          notifications \in Seq(ReviewPieces) /\ OnePieceEach(notifications) /\ news = NoNews
    /\ kind = "request" => notifications \in Seq(Requests)

LEMMA OneMorePiece ==
    ASSUME NEW S, NEW s \in Seq(S), NEW x \in S
    PROVE  /\ Append(s, x) \in Seq(S)
           /\ DOMAIN Append(s, x) = DOMAIN s \cup {Len(s) + 1} /\ Len(s) + 1 \notin DOMAIN s
           /\ Append(s, x)[Len(s) + 1] = x
           /\ \A i \in DOMAIN s : Append(s, x)[i] = s[i]
OBVIOUS

LEMMA MessageInitInv == MessageInit => BatchInv
<1> SUFFICES ASSUME MessageInit PROVE BatchInv
  OBVIOUS
<1>1. <<>> \in Seq(ReviewPieces) /\ <<>> \in Seq(Requests) /\ OnePieceEach(<<>>)
  BY DEF OnePieceEach
<1> QED BY <1>1 DEF MessageInit, Init, BatchInv

LEMMA MessageNextInv == BatchInv /\ [MessageNext]_messageVars => BatchInv'
<1> SUFFICES ASSUME BatchInv, [MessageNext]_messageVars PROVE BatchInv'
  OBVIOUS
<1> USE DEF BatchInv
<1>1. ASSUME NEW piece \in InlineComments \cup Submissions, ReviewPieceArrives(piece),
             news = NoNews, UNCHANGED <<news, digest>>
      PROVE  BatchInv'
  <2>1. /\ kind = "review" /\ kind' = kind /\ news' = NoNews
        /\ notifications' = Append(notifications, piece)
        /\ \A i \in DOMAIN notifications : notifications[i].commentId # piece.commentId
    BY <1>1 DEF ReviewPieceArrives
  <2>2. notifications \in Seq(ReviewPieces) /\ OnePieceEach(notifications) /\ piece \in ReviewPieces
    BY <2>1 DEF ReviewPieces
  <2>3. /\ notifications' \in Seq(ReviewPieces)
        /\ DOMAIN notifications' = DOMAIN notifications \cup {Len(notifications) + 1}
        /\ notifications'[Len(notifications) + 1] = piece
        /\ \A i \in DOMAIN notifications : notifications'[i] = notifications[i]
    BY <2>1, <2>2, OneMorePiece
  <2>4. OnePieceEach(notifications')
    BY <2>1, <2>2, <2>3 DEF OnePieceEach
  <2> QED BY <2>1, <2>3, <2>4 DEF OnePieceEach
<1>2. ASSUME NEW piece \in Requests, RequestPieceArrives(piece), UNCHANGED <<news, digest>>
      PROVE  BatchInv'
  <2>1. kind = "request" /\ kind' = kind /\ notifications' = Append(notifications, piece)
    BY <1>2 DEF RequestPieceArrives
  <2>2. notifications' \in Seq(Requests)
    BY <1>2, <2>1, OneMorePiece
  <2> QED BY <2>1, <2>2
<1>3. ASSUME NEW by \in Reviewers, Reviewed(by) PROVE BatchInv'
  BY <1>3 DEF Reviewed
<1>4. ASSUME NEW k, Settled(k) PROVE BatchInv'
  BY <1>4 DEF Settled
<1>5. CASE UNCHANGED messageVars
  BY <1>5 DEF messageVars, OnePieceEach
<1> QED BY <1>1, <1>2, <1>3, <1>4, <1>5 DEF MessageNext, Growing, Next

\* A batch is a sequence of distinct pieces of one review, or of asks for one, at every moment it
\* could be flushed (ReviewBatchService, add).
THEOREM BatchInvariance == MessageSpec => []BatchInv
<1>1. MessageInit => BatchInv
  BY MessageInitInv
<1>2. BatchInv /\ [MessageNext]_messageVars => BatchInv'
  BY MessageNextInv
<1> QED BY <1>1, <1>2, PTL DEF MessageSpec

LEMMA MergedReviewIs ==
    ASSUME BatchInv, Holds, kind = "review"
    PROVE  /\ notifications \in Seq(ReviewPieces) /\ notifications # <<>>
           /\ OnePieceEach(notifications) /\ news = NoNews
           /\ Len(notifications) \in Nat
           /\ Len(notifications) = 1 => MergedPoke = alone(notifications[1])
           /\ Len(notifications) # 1 => MergedPoke = mergeReview(notifications)
           /\ \A p \in Pieces : \E i \in DOMAIN notifications : p = notifications[i]
           /\ \A i \in DOMAIN notifications : notifications[i] \in Pieces
           /\ 1 \in DOMAIN notifications
           /\ Len(notifications) = 1 => Pieces = {notifications[1]}
           /\ \A p \in Pieces : p \in ReviewPieces
<1>1. notifications \in Seq(ReviewPieces) /\ notifications # <<>>
      /\ OnePieceEach(notifications) /\ news = NoNews
  BY DEF BatchInv, Holds
<1>2. /\ Len(notifications) \in Nat /\ DOMAIN notifications = 1 .. Len(notifications)
      /\ 1 \in DOMAIN notifications
  BY <1>1
<1>3. /\ Len(notifications) = 1 => MergedPoke = alone(notifications[1])
      /\ Len(notifications) # 1 => MergedPoke = mergeReview(notifications)
  BY DEF MergedPoke, merge
<1>4. /\ \A p \in Pieces : \E i \in DOMAIN notifications : p = notifications[i]
      /\ \A i \in DOMAIN notifications : notifications[i] \in Pieces
  BY DEF Pieces, Range
<1>5. Len(notifications) = 1 => Pieces = {notifications[1]}
  BY <1>2, <1>4
<1>6. \A p \in Pieces : p \in ReviewPieces
  BY <1>1, <1>4
<1> QED BY <1>1, <1>2, <1>3, <1>4, <1>5, <1>6

LEMMA SmallestOfOne == ASSUME NEW n \in Nat PROVE Min({n}) = n
BY Least

LEMMA WordsDoNot == BatchInv => WordsIgnoreArrivalOrder
<1> SUFFICES ASSUME BatchInv, Holds, kind = "review"
             PROVE  LET wordy == {p \in Pieces : p.words}
                    IN  MergedPoke.excerpt = IF wordy = {} THEN NoWords
                                             ELSE Min({p.commentId : p \in wordy})
  BY DEF WordsIgnoreArrivalOrder
<1>1. CASE Len(notifications) = 1
  <2>1. PICK p : p = notifications[1]
    OBVIOUS
  <2>2. MergedPoke = alone(p) /\ Pieces = {p} /\ p \in ReviewPieces
    BY <1>1, <2>1, MergedReviewIs
  <2>3. MergedPoke.excerpt = IF p.words THEN p.commentId ELSE NoWords
    BY <2>2 DEF alone
  <2>4. CASE p.words
    <3>1. {q \in Pieces : q.words} = {p}
      BY <2>2, <2>4
    <3>2. {q.commentId : q \in {p}} = {p.commentId}
      OBVIOUS
    <3>3. Min({p.commentId}) = p.commentId
      BY <2>2, PieceIs, SmallestOfOne
    <3> QED BY <2>3, <2>4, <3>1, <3>2, <3>3
  <2>5. CASE ~p.words
    <3>1. {q \in Pieces : q.words} = {}
      BY <2>2, <2>5
    <3> QED BY <2>3, <2>5, <3>1
  <2> QED BY <2>4, <2>5
<1>2. CASE Len(notifications) # 1
  BY <1>2, MergedReviewIs, QuotesTheEarliest DEF Pieces
<1> QED BY <1>1, <1>2

LEMMA VerdictsAreNotHidden ==
    ASSUME BatchInv, Holds, kind = "review", NEW p \in Pieces,
           p.type = "review_submitted", isReviewVerdict(p.state)
    PROVE  MergedPoke.lead = p
<1>1. PICK i \in DOMAIN notifications : p = notifications[i]
  BY MergedReviewIs
<1>2. CASE Len(notifications) = 1
  BY <1>2, MergedReviewIs DEF alone
<1>3. CASE Len(notifications) # 1
  <2>1. mergeReview(notifications).lead = notifications[i]
    BY <1>1, MergedReviewIs, VerdictLeads
  <2> QED BY <1>1, <1>3, <2>1, MergedReviewIs
<1> QED BY <1>2, <1>3

LEMMA EnvelopesDoNotLead == BatchInv => NeverLeadsWithEnvelope
<1> SUFFICES ASSUME BatchInv, Holds, kind = "review",
                    NEW q \in Pieces, q.commentId # Submitted,
                    MergedPoke.lead.commentId = Submitted, ~MergedPoke.lead.words,
                    MergedPoke.lead.state \notin REVIEW_VERDICTS
             PROVE  FALSE
  BY DEF NeverLeadsWithEnvelope
<1>1. CASE Len(notifications) = 1
  <2>1. MergedPoke.lead = notifications[1] /\ q = notifications[1]
    BY <1>1, MergedReviewIs DEF alone
  <2> QED BY <2>1
<1>2. CASE Len(notifications) # 1
  <2>1. PICK lead : lead = mergeReview(notifications).lead
    OBVIOUS
  <2>2. MergedPoke.lead = lead
    BY <1>2, <2>1, MergedReviewIs
  <2>3. \E i \in DOMAIN notifications : notifications[i].commentId # Submitted
    BY MergedReviewIs
  <2>4. PICK i \in DOMAIN notifications : lead = notifications[i]
    BY <2>1, MergedReviewIs, LeadIsAPiece
  <2>5. ~\E sub \in SubmissionsOf(notifications) : isEnvelope(sub)
    BY <2>1, <2>2, <2>3, MergedReviewIs, LeadIsAPiece
  <2>6. lead \in SubmissionsOf(notifications)
    BY <2>2, <2>4 DEF SubmissionsOf
  <2>7. isEnvelope(lead)
    BY <2>2 DEF isEnvelope, isReviewVerdict
  <2> QED BY <2>5, <2>6, <2>7
<1> QED BY <1>1, <1>2

LEMMA DirectAsksWin == BatchInv => DirectAskWins
<1> SUFFICES ASSUME BatchInv, Holds, kind = "request"
             PROVE  IF \E p \in Pieces : p.team = NoTeam THEN MergedPoke.team = NoTeam
                    ELSE MergedPoke = Head(notifications)
  BY DEF DirectAskWins
<1> DEFINE direct == {i \in DOMAIN notifications : notifications[i].team = NoTeam}
<1>1. notifications \in Seq(Requests) /\ notifications # <<>>
  BY DEF BatchInv, Holds
<1>2. MergedPoke = IF direct # {} THEN notifications[Min(direct)] ELSE notifications[1]
  BY DEF MergedPoke, merge, pickRequest
<1>3. direct \in SUBSET Nat
  BY <1>1
<1>4. direct # {} => Min(direct) \in direct
  BY <1>3, Least
<1>5. (\E p \in Pieces : p.team = NoTeam) <=> direct # {}
  BY DEF Pieces, Range
<1>6. direct # {} => MergedPoke.team = NoTeam
  BY <1>2, <1>4
<1>7. direct = {} => MergedPoke = Head(notifications)
  BY <1>1, <1>2
<1> QED BY <1>5, <1>6, <1>7

\* However its webhooks land, a batch quotes the submission or the earliest comment with words,
\* leads with a verdict where there is one and never with the empty envelope, and asks by name
\* where somebody was asked so (merge, mergeReview, pickRequest).
THEOREM BatchMergesInAnyOrder == MessageSpec => []MergedInAnyOrder
<1>1. BatchInv => NeverHidesVerdict
  BY VerdictsAreNotHidden DEF NeverHidesVerdict
<1>2. BatchInv => MergedInAnyOrder
  BY <1>1, WordsDoNot, EnvelopesDoNotLead, DirectAsksWin DEF MergedInAnyOrder
<1> QED BY <1>2, BatchInvariance, PTL

----------------------------------------------------------------------------
(* The sentence a batch goes out as. *)

LEMMA JoinedToNothing ==
    ASSUME NEW S, NEW s \in Seq(S)
    PROVE  s \o <<>> = s /\ <<>> \o s = s
OBVIOUS

LEMMA JoinedOneToOne ==
    ASSUME NEW S, NEW s \in Seq(S), NEW t \in Seq(S), Len(s) = 1, Len(t) = 1
    PROVE  s \o t = <<s[1], t[1]>>
<1>1. s \o t \in Seq(S) /\ Len(s \o t) = 2
  OBVIOUS
<1>2. (s \o t)[1] = s[1] /\ (s \o t)[2] = t[1]
  OBVIOUS
<1>3. PICK both \in Seq(S) : both = s \o t
  BY <1>1
<1>4. Len(both) = 2 /\ both[1] = s[1] /\ both[2] = t[1]
  BY <1>1, <1>2, <1>3
<1>5. both = <<s[1], t[1]>>
  BY <1>4
<1> QED BY <1>3, <1>5

LEMMA JoinedClauses ==
    ASSUME NEW x, NEW y
    PROVE  /\ <<x>> \o <<>> = <<x>> /\ <<>> \o <<y>> = <<y>> /\ <<>> \o <<>> = <<>>
           /\ <<x>> \o <<y>> = <<x, y>>
<1>1. PICK S : x \in S /\ y \in S
  <2>1. x \in {x, y} /\ y \in {x, y}
    OBVIOUS
  <2> QED BY <2>1
<1>2. <<x>> \in Seq(S) /\ <<y>> \in Seq(S) /\ <<>> \in Seq(S)
  BY <1>1
<1>3. Len(<<x>>) = 1 /\ Len(<<y>>) = 1 /\ <<x>>[1] = x /\ <<y>>[1] = y
  OBVIOUS
<1>4. <<x>> \o <<>> = <<x>> /\ <<>> \o <<y>> = <<y>> /\ <<>> \o <<>> = <<>>
  BY <1>2, JoinedToNothing, Zenon
<1>5. <<x>> \o <<y>> = <<<<x>>[1], <<y>>[1]>>
  BY <1>2, <1>3, JoinedOneToOne, Zenon
<1> QED BY <1>3, <1>4, <1>5

LEMMA CommentClauseIs ==
    ASSUME NEW comments, NEW hasReview
    PROVE  \/ commentClause(comments, hasReview) = <<>>
           \/ \E x : commentClause(comments, hasReview) = <<x>>
BY DEF commentClause

LEMMA VerdictOpens ==
    ASSUME NEW lead, NEW comments, hasVerdict(lead)
    PROVE  /\ 1 \in DOMAIN leadClauses(lead, comments)
           /\ leadClauses(lead, comments)[1] = REVIEW(lead.state).clause
<1>1. PICK x : x = REVIEW(lead.state).clause
  OBVIOUS
<1>2. PICK rest : rest = commentClause(comments, TRUE)
  OBVIOUS
<1>3. rest = <<>> \/ \E y : rest = <<y>>
  BY <1>2, CommentClauseIs
<1>4. <<x>> # <<>>
  OBVIOUS
<1>5. leadClauses(lead, comments) = IF <<x>> \o rest # <<>> THEN <<x>> \o rest ELSE <<LEAD(lead)>>
  BY <1>1, <1>2, <1>4 DEF leadClauses
<1>6. <<x>> \o rest = <<x>> \/ \E y : <<x>> \o rest = <<x, y>>
  BY <1>3, JoinedClauses
<1>7. leadClauses(lead, comments) = <<x>> \/ \E y : leadClauses(lead, comments) = <<x, y>>
  BY <1>5, <1>6
<1> QED BY <1>1, <1>7

LEMMA CountIsTold ==
    ASSUME NEW lead, NEW n \in Nat, n > 1, NEW m \in BOOLEAN,
           NEW comments, comments = [count |-> n, mentioned |-> m]
    PROVE  \E i \in DOMAIN leadClauses(lead, comments) :
              /\ leadClauses(lead, comments)[i].n = n
              /\ leadClauses(lead, comments)[i].mentioned = m
<1>1. comments # NoComments /\ comments.count = n /\ comments.mentioned = m
  BY DEF NoComments
<1> DEFINE told == [verb |-> IF comments.mentioned THEN "mentioned you" ELSE "left comments",
                    n |-> comments.count, mentioned |-> comments.mentioned, preposition |-> "on"]
<1>2. PICK y : y = told
  OBVIOUS
<1>3. y.n = n /\ y.mentioned = m
  BY <1>1, <1>2
<1>4. \A hasReview : commentClause(comments, hasReview) = <<y>>
  <2>1. comments.count # 1
    BY <1>1
  <2> QED BY <1>1, <1>2, <2>1 DEF commentClause
<1> DEFINE first == IF hasVerdict(lead) THEN <<REVIEW(lead.state).clause>>
                    ELSE IF lead.type = "review_submitted" THEN <<LEAD(lead)>> ELSE <<>>
<1>5. leadClauses(lead, comments) = IF first \o <<y>> # <<>> THEN first \o <<y>> ELSE <<LEAD(lead)>>
  BY <1>4 DEF leadClauses
<1>6. first = <<>> \/ \E x : first = <<x>>
  OBVIOUS
<1>7. first \o <<y>> = <<y>> \/ \E x : first \o <<y>> = <<x, y>>
  BY <1>6, JoinedClauses
<1>8. leadClauses(lead, comments) = <<y>> \/ \E x : leadClauses(lead, comments) = <<x, y>>
  <2>1. <<y>> # <<>> /\ \A x : <<x, y>> # <<>>
    OBVIOUS
  <2> HIDE DEF first
  <2>2. QED BY <1>5, <1>7, <2>1
<1>9. CASE leadClauses(lead, comments) = <<y>>
  BY <1>3, <1>9
<1>10. CASE \E x : leadClauses(lead, comments) = <<x, y>>
  BY <1>3, <1>10
<1> QED BY <1>8, <1>9, <1>10

LEMMA SentenceIs ==
    ASSUME NEW clauses
    PROVE  /\ DOMAIN sentence(clauses).verbs = DOMAIN clauses
           /\ \A i \in DOMAIN clauses : sentence(clauses).verbs[i].verb = clauses[i].verb
           /\ \A i \in DOMAIN clauses : sentence(clauses).verbs[i].n = clauses[i].n
           /\ \A i \in DOMAIN clauses : sentence(clauses).verbs[i].mentioned = clauses[i].mentioned
BY DEF sentence

\* As many comments as are counted are in the batch, and they are the ones.
LEMMA CommentsAreCounted ==
    ASSUME NEW s \in Seq(ReviewPieces), OnePieceEach(s)
    PROVE  LET comments == {p \in Range(s) : p.commentId # Submitted}
           IN  /\ Cardinality(comments) = Len(CommentsOf(s)) /\ Len(CommentsOf(s)) \in Nat
               /\ \A p \in comments : \E n \in DOMAIN CommentsOf(s) : CommentsOf(s)[n] = p
               /\ \A n \in DOMAIN CommentsOf(s) : CommentsOf(s)[n] \in comments
<1> DEFINE comments == {p \in Range(s) : p.commentId # Submitted}
<1>1. PICK c : c = CommentsOf(s)
  OBVIOUS
<1>2. /\ c \in Seq(ReviewPieces)
      /\ \A n \in DOMAIN c : c[n].commentId # Submitted
      /\ \A n \in DOMAIN c : \E i \in DOMAIN s : c[n] = s[i]
      /\ \A m, n \in DOMAIN c : m < n => c[m].commentId < c[n].commentId
      /\ \A i \in DOMAIN s : s[i].commentId # Submitted => \E n \in DOMAIN c : c[n] = s[i]
  BY <1>1, CommentsInOrder
<1>3. /\ \A i \in DOMAIN s : s[i] \in Range(s)
      /\ \A p \in Range(s) : \E i \in DOMAIN s : p = s[i]
  BY DEF Range
<1>4. \A n \in DOMAIN c : c[n] \in comments
  BY <1>2, <1>3
<1>5. \A p \in comments : \E n \in DOMAIN c : c[n] = p
  BY <1>2, <1>3
<1>6. DOMAIN c = 1 .. Len(c) /\ Len(c) \in Nat
  BY <1>2
<1>7. \A m, n \in DOMAIN c : c[m] = c[n] => m = n
  <2>1. SUFFICES ASSUME NEW m \in DOMAIN c, NEW n \in DOMAIN c, c[m] = c[n], m # n PROVE FALSE
    OBVIOUS
  <2>2. m < n \/ n < m
    BY <1>6, <2>1
  <2>3. c[m].commentId < c[n].commentId \/ c[n].commentId < c[m].commentId
    BY <1>2, <2>2
  <2>4. c[m].commentId \in Nat
    BY <1>2, PieceIs
  <2> QED BY <2>1, <2>3, <2>4
<1>8. c = [n \in DOMAIN c |-> c[n]]
  BY <1>2
<1>9. c \in Bijection(DOMAIN c, comments)
  BY <1>4, <1>5, <1>7, <1>8 DEF Bijection, Injection, IsInjective, Surjection
<1>10. IsFiniteSet(DOMAIN c) /\ Cardinality(DOMAIN c) = Len(c)
  <2>1. PICK last \in Nat : last = Len(c)
    BY <1>6
  <2>2. IsFiniteSet(1 .. last) /\ Cardinality(1 .. last) = IF 1 > last THEN 0 ELSE last - 1 + 1
    BY FS_Interval
  <2> QED BY <1>6, <2>1, <2>2
<1>11. Cardinality(comments) = Len(c)
  BY <1>9, <1>10, FS_Bijection DEF ExistsBijection
<1> QED BY <1>1, <1>4, <1>5, <1>6, <1>11

LEMMA ReviewSays ==
    ASSUME BatchInv, Holds, kind = "review"
    PROVE  /\ Message.icon = leadIcon(MergedPoke.lead)
           /\ Message.deed = sentence(leadClauses(MergedPoke.lead, MergedPoke.comments))
           /\ Message = buildPokeMessage(MergedPoke.lead, MergedPoke.excerpt, MergedPoke.comments, NoNews)
<1>1. Message = buildPokeMessage(MergedPoke.lead, MergedPoke.excerpt, MergedPoke.comments, NoNews)
  BY MergedReviewIs DEF Message
<1> QED BY <1>1 DEF buildPokeMessage

LEMMA SaysTheWhole == BatchInv => SaysTheWholeReview
<1> DEFINE comments == {p \in Pieces : p.commentId # Submitted}
<1> SUFFICES ASSUME BatchInv, Holds, kind = "review"
             PROVE  /\ \A p \in Pieces : hasVerdict(p) =>
                          /\ Message.icon = REVIEW(p.state).icon
                          /\ Message.deed.verbs[1].verb = REVIEW(p.state).clause.verb
                    /\ Cardinality(comments) > 1 =>
                          \E said \in Said :
                             /\ said.n = Cardinality(comments)
                             /\ said.mentioned <=> \A p \in comments : p.type \in MENTION_TYPES
  BY DEF SaysTheWholeReview
<1>1. ASSUME NEW p \in Pieces, hasVerdict(p)
      PROVE  /\ Message.icon = REVIEW(p.state).icon
             /\ Message.deed.verbs[1].verb = REVIEW(p.state).clause.verb
  <2>1. MergedPoke.lead = p
    BY <1>1, VerdictsAreNotHidden DEF hasVerdict
  <2>2. Message.icon = REVIEW(p.state).icon
    BY <1>1, <2>1, ReviewSays DEF leadIcon
  <2>3. PICK clauses : clauses = leadClauses(p, MergedPoke.comments)
    OBVIOUS
  <2>4. 1 \in DOMAIN clauses /\ clauses[1] = REVIEW(p.state).clause
    BY <1>1, <2>3, VerdictOpens
  <2>5. Message.deed = sentence(clauses)
    BY <2>1, <2>3, ReviewSays
  <2>6. Message.deed.verbs[1].verb = REVIEW(p.state).clause.verb
    BY <2>4, <2>5, SentenceIs
  <2> QED BY <2>2, <2>6
<1>2. ASSUME Cardinality(comments) > 1
      PROVE  \E said \in Said :
                /\ said.n = Cardinality(comments)
                /\ said.mentioned <=> \A p \in comments : p.type \in MENTION_TYPES
  <2>1. PICK c : c = CommentsOf(notifications)
    OBVIOUS
  <2>2. /\ Cardinality(comments) = Len(c) /\ Len(c) \in Nat
        /\ \A p \in comments : \E n \in DOMAIN c : c[n] = p
        /\ \A n \in DOMAIN c : c[n] \in comments
    BY <2>1, MergedReviewIs, CommentsAreCounted DEF Pieces
  <2>3. Len(notifications) # 1
    <3>1. SUFFICES ASSUME Len(notifications) = 1 PROVE FALSE
      OBVIOUS
    <3>2. comments \subseteq {notifications[1]}
      BY <3>1, MergedReviewIs
    <3>3. Cardinality(comments) <= 1
      <4>1. IsFiniteSet({notifications[1]}) /\ Cardinality({notifications[1]}) = 1
        BY FS_Singleton
      <4> QED BY <3>2, <4>1, FS_Subset
    <3> QED BY <1>2, <2>2, <3>3
  <2>4. MergedPoke.comments = count(c)
    BY <2>1, <2>3, MergedReviewIs DEF mergeReview
  <2>5. c # <<>>
    BY <1>2, <2>2
  <2>6. PICK m \in BOOLEAN : m = \A n \in DOMAIN c : c[n].type \in MENTION_TYPES
    OBVIOUS
  <2>7. MergedPoke.comments = [count |-> Len(c), mentioned |-> m]
    BY <2>4, <2>5, <2>6 DEF count
  <2>8. PICK clauses : clauses = leadClauses(MergedPoke.lead, MergedPoke.comments)
    OBVIOUS
  <2>9. PICK i \in DOMAIN clauses : clauses[i].n = Len(c) /\ clauses[i].mentioned = m
    <3>1. PICK n \in Nat : n = Len(c) /\ n > 1
      BY <1>2, <2>2
    <3>2. PICK told : told = MergedPoke.comments /\ told = [count |-> n, mentioned |-> m]
      BY <2>7, <3>1
    <3>3. \E i \in DOMAIN leadClauses(MergedPoke.lead, told) :
             /\ leadClauses(MergedPoke.lead, told)[i].n = n
             /\ leadClauses(MergedPoke.lead, told)[i].mentioned = m
      <4>1. n > 1 /\ m \in BOOLEAN /\ told = [count |-> n, mentioned |-> m]
        BY <3>1, <3>2
      <4> QED BY <4>1, CountIsTold
    <3> QED BY <2>8, <3>1, <3>2, <3>3
  <2>10. Message.deed = sentence(clauses)
    BY <2>8, ReviewSays
  <2>11. PICK said : said = Message.deed.verbs[i]
    OBVIOUS
  <2>12. said \in Said /\ said.n = Len(c) /\ said.mentioned = m
    BY <2>9, <2>10, <2>11, SentenceIs DEF Said, Range
  <2>13. m <=> \A p \in comments : p.type \in MENTION_TYPES
    BY <2>2, <2>6
  <2> QED BY <2>2, <2>12, <2>13
<1> QED BY <1>1, <1>2

LEMMA WordingIgnores == BatchInv => WordingIgnoresBatching
<1> SUFFICES ASSUME BatchInv, Holds, kind = "review",
                    \A sub \in SubmissionsOf(notifications) : isEnvelope(sub),
                    NEW p \in Pieces, Pieces \ SubmissionsOf(notifications) = {p}
             PROVE  Message = buildPokeMessage(p, alone(p).excerpt, NoComments, NoNews)
  BY DEF WordingIgnoresBatching
<1>1. CASE Len(notifications) = 1
  <2>1. MergedPoke = alone(p)
    BY <1>1, MergedReviewIs
  <2>2. MergedPoke.lead = p /\ MergedPoke.comments = NoComments
    BY <2>1 DEF alone
  <2> QED BY <2>1, <2>2, ReviewSays
<1>2. CASE Len(notifications) # 1
  <2>1. /\ notifications \in Seq(ReviewPieces) /\ OnePieceEach(notifications) /\ notifications # <<>>
        /\ MergedPoke = mergeReview(notifications)
    BY <1>2, MergedReviewIs
  <2>2. \A q \in Pieces : q.commentId = Submitted <=> q \in SubmissionsOf(notifications)
    BY DEF SubmissionsOf, Pieces, Range
  <2>3. p.commentId # Submitted /\ \A q \in Pieces : q.commentId # Submitted => q = p
    BY <2>2
  <2>4. p \in ReviewPieces
    BY MergedReviewIs
  <2>5. PICK at \in DOMAIN notifications : p = notifications[at]
    BY MergedReviewIs
  <2>6. \E sub \in SubmissionsOf(notifications) : isEnvelope(sub)
    <3>1. SUFFICES ASSUME SubmissionsOf(notifications) = {} PROVE FALSE
      OBVIOUS
    <3>2. \A i \in DOMAIN notifications : notifications[i] = p
      BY <2>2, <2>3, <3>1, MergedReviewIs
    <3>3. \A i \in DOMAIN notifications : i = 1
      BY <2>1, <3>2, MergedReviewIs DEF OnePieceEach
    <3>4. 2 \in DOMAIN notifications
      <4>1. PICK s \in Seq(ReviewPieces) : s = notifications
        BY <2>1
      <4>2. s # <<>> /\ Len(s) # 1
        BY <1>2, <2>1, <4>1
      <4>3. Len(s) \in Nat /\ Len(s) # 0 /\ DOMAIN s = 1 .. Len(s)
        BY <4>2
      <4> QED BY <4>1, <4>2, <4>3
    <3> QED BY <3>3, <3>4
  <2>7. MergedPoke.lead = p
    <3>1. MergedPoke.lead.commentId # Submitted
      BY <2>1, <2>3, <2>5, <2>6, LeadIsAPiece
    <3>2. \E i \in DOMAIN notifications : MergedPoke.lead = notifications[i]
      BY <2>1, LeadIsAPiece
    <3> QED BY <2>3, <3>1, <3>2, MergedReviewIs
  <2>8. MergedPoke.excerpt = alone(p).excerpt
    <3> DEFINE wordy == {q \in Pieces : q.words}
    <3>1. \A q \in Pieces : q.words => q = p
      BY <2>2, <2>3 DEF isEnvelope
    <3>2. MergedPoke.excerpt = IF wordy = {} THEN NoWords ELSE Min({q.commentId : q \in wordy})
      BY WordsDoNot DEF WordsIgnoreArrivalOrder
    <3>3. alone(p).excerpt = IF p.words THEN p.commentId ELSE NoWords
      BY DEF alone
    <3>4. CASE p.words
      <4>1. wordy = {p}
        BY <3>1, <3>4
      <4>2. {q.commentId : q \in {p}} = {p.commentId}
        OBVIOUS
      <4>3. Min({p.commentId}) = p.commentId
        BY <2>4, PieceIs, SmallestOfOne
      <4> QED BY <3>2, <3>3, <3>4, <4>1, <4>2, <4>3
    <3>5. CASE ~p.words
      <4>1. wordy = {}
        BY <3>1, <3>5
      <4> QED BY <3>2, <3>3, <3>5, <4>1
    <3> QED BY <3>4, <3>5
  <2>9. PICK m : MergedPoke.comments = [count |-> 1, mentioned |-> m]
    <3>1. PICK c : c = CommentsOf(notifications)
      OBVIOUS
    <3>2. /\ Cardinality({q \in Range(notifications) : q.commentId # Submitted}) = Len(c)
      BY <2>1, <3>1, CommentsAreCounted
    <3>3. {q \in Range(notifications) : q.commentId # Submitted} = {p}
      BY <2>3 DEF Pieces
    <3>4. Len(c) = 1
      BY <3>2, <3>3, FS_Singleton
    <3>5. c # <<>>
      BY <3>4
    <3>6. MergedPoke.comments = count(c)
      BY <2>1, <3>1 DEF mergeReview
    <3> QED BY <3>4, <3>5, <3>6 DEF count
  <2>10. leadClauses(p, MergedPoke.comments) = <<LEAD(p)>> /\ leadClauses(p, NoComments) = <<LEAD(p)>>
    <3>1. p.type # "review_submitted"
      <4>1. p.type \in CommentTypes
        BY <2>3, <2>4, PieceIs
      <4> QED BY <4>1 DEF CommentTypes
    <3>2. ~hasVerdict(p)
      BY <3>1 DEF hasVerdict
    <3>3. MergedPoke.comments.count = 1
      BY <2>9
    <3>4. /\ commentClause(MergedPoke.comments, FALSE) = <<>>
          /\ commentClause(NoComments, FALSE) = <<>>
      BY <3>3 DEF commentClause
    <3>5. <<>> \o <<>> = <<>>
      BY JoinedClauses
    <3> QED BY <3>1, <3>2, <3>4, <3>5 DEF leadClauses
  <2>11. Message = buildPokeMessage(p, alone(p).excerpt, MergedPoke.comments, NoNews)
    BY <2>7, <2>8, ReviewSays
  <2> QED BY <2>10, <2>11 DEF buildPokeMessage
<1> QED BY <1>1, <1>2

LEMMA EditsKeep == EditsKeepTheMessage
<1> DEFINE asSent == buildPokeMessage(MergedPoke, NoWords, NoComments, NoNews)
<1> SUFFICES ASSUME kind = "request"
             PROVE  /\ <<Message.icon, Message.deed, Message.excerpt>> = <<asSent.icon, asSent.deed, asSent.excerpt>>
                    /\ Message.struck <=> news.resolution # "none"
                    /\ Message.struck => Message.footer.label = RESOLUTION(news.resolution).label
                                      /\ Len(Message.footer.icons) = 1
  BY DEF EditsKeepTheMessage
<1>1. Message = buildPokeMessage(MergedPoke, NoWords, NoComments, news)
  BY DEF Message
<1>2. Message.icon = asSent.icon /\ Message.deed = asSent.deed /\ Message.excerpt = asSent.excerpt
  BY <1>1 DEF buildPokeMessage
<1>3. Message.struck = (news.resolution # "none") /\ Message.footer = footer(news)
  BY <1>1 DEF buildPokeMessage
<1>4. ASSUME news.resolution # "none"
      PROVE  footer(news).label = RESOLUTION(news.resolution).label /\ Len(footer(news).icons) = 1
  BY <1>4 DEF footer
<1> QED BY <1>2, <1>3, <1>4

\* However a batch came to hold what it holds, its message opens with the verdict there is, counts
\* every comment and says of them only what is so of all; one comment reads as it would have alone;
\* and an edit keeps the sentence and strikes it only with what settled it (buildPokeMessage).
THEOREM MessageTellsTheWhole == MessageSpec => []TellsTheWhole
<1>1. BatchInv => TellsTheWhole
  BY SaysTheWhole, WordingIgnores, EditsKeep DEF TellsTheWhole
<1> QED BY <1>1, BatchInvariance, PTL

----------------------------------------------------------------------------
(* The digest.  How far the lines have been laid is defined by recursion over them: that there is such a *)
(* function, and what holds of it at every line, is shown by the least line at which it would not.          *)

\* What the n-th line makes of a chunk, if so far is how the lines before it lie.
NextLaid(lines, before, n) ==
    IF before.width + 1 + lines[n] > MAX_SECTION_CHARS
    THEN [from |-> n, width |-> lines[n]]
    ELSE [from |-> before.from, width |-> before.width + 1 + lines[n]]

LaidUpTo(lines, soFar, m) ==
    soFar = [n \in 1 .. m |-> IF n = 1 THEN [from |-> 1, width |-> lines[1]]
                              ELSE NextLaid(lines, soFar[n - 1], n)]

LEMMA OneMore ==
    ASSUME NEW lines, NEW m \in Nat, NEW soFar, LaidUpTo(lines, soFar, m)
    PROVE  \E longer : LaidUpTo(lines, longer, m + 1)
<1> DEFINE At(g, n) == IF n = 1 THEN [from |-> 1, width |-> lines[1]] ELSE NextLaid(lines, g[n - 1], n)
           longer == [n \in 1 .. m + 1 |-> IF n <= m THEN soFar[n] ELSE At(soFar, n)]
<1>1. ASSUME NEW n \in 1 .. m + 1 PROVE longer[n] = At(soFar, n)
  <2>1. CASE n <= m
    <3>1. n \in 1 .. m
      BY <2>1
    <3>2. soFar = [k \in 1 .. m |-> At(soFar, k)]
      BY Zenon DEF LaidUpTo
    <3>3. soFar[n] = At(soFar, n)
      <4> HIDE DEF At
      <4> QED BY <3>1, <3>2
    <3>4. longer[n] = soFar[n]
      <4> HIDE DEF At
      <4> QED BY <2>1
    <3> QED BY <3>3, <3>4, Zenon
  <2>2. CASE ~(n <= m)
    <3> HIDE DEF At
    <3> QED BY <2>2
  <2> QED BY <2>1, <2>2
<1>2. ASSUME NEW n \in 1 .. m + 1, n # 1 PROVE longer[n - 1] = soFar[n - 1]
  <2>1. n - 1 \in 1 .. m + 1 /\ n - 1 <= m
    BY <1>2
  <2> HIDE DEF At
  <2> QED BY <2>1
<1>3. ASSUME NEW n \in 1 .. m + 1 PROVE At(longer, n) = At(soFar, n)
  <2> HIDE DEF longer
  <2>1. CASE n = 1
    BY <2>1
  <2>2. CASE n # 1
    BY <2>2, <1>2
  <2> QED BY <2>1, <2>2
<1>4. \A n \in 1 .. m + 1 : longer[n] = At(longer, n)
  <2> HIDE DEF longer, At
  <2> QED BY <1>1, <1>3
<1>5. longer = [n \in 1 .. m + 1 |-> longer[n]]
  <2> HIDE DEF At
  <2> QED OBVIOUS
<1>6. longer = [n \in 1 .. m + 1 |-> At(longer, n)]
  <2> HIDE DEF longer, At
  <2> QED BY <1>4, <1>5
<1> QED
  <2> HIDE DEF longer
  <2>1. LaidUpTo(lines, longer, m + 1)
    BY <1>6, Zenon DEF LaidUpTo
  <2> QED BY <2>1

LEMMA LinesAreLaid ==
    ASSUME NEW lines, NEW N \in Nat
    PROVE  \E soFar : LaidUpTo(lines, soFar, N)
<1> DEFINE Bad == {m \in Nat : ~\E soFar : LaidUpTo(lines, soFar, m)}
<1>1. 0 \notin Bad
  <2> DEFINE none == [n \in 1 .. 0 |-> 0]
  <2>1. 1 .. 0 = {}
    OBVIOUS
  <2>2. LaidUpTo(lines, none, 0)
    <3>1. [n \in 1 .. 0 |-> IF n = 1 THEN [from |-> 1, width |-> lines[1]]
                            ELSE NextLaid(lines, none[n - 1], n)] = none
      BY <2>1
    <3> QED BY <3>1 DEF LaidUpTo
  <2> QED BY <2>2
<1>2. SUFFICES ASSUME Bad # {} PROVE FALSE
  OBVIOUS
<1>3. Bad \in SUBSET Nat
  OBVIOUS
<1>4. PICK m \in Bad : \A k \in Bad : m <= k
  <2> HIDE DEF Bad
  <2> QED BY <1>2, <1>3, Least
<1>5. m \in Nat /\ m # 0
  BY <1>1, <1>3, <1>4
<1>6. PICK k \in Nat : m = k + 1
  <2>1. m - 1 \in Nat /\ m = (m - 1) + 1
    BY <1>5
  <2> QED BY <2>1
<1>7. k \notin Bad
  <2> HIDE DEF Bad
  <2> QED BY <1>4, <1>6
<1>8. PICK soFar : LaidUpTo(lines, soFar, k)
  BY <1>7
<1>9. \E longer : LaidUpTo(lines, longer, k + 1)
  BY <1>8, OneMore
<1> QED BY <1>4, <1>6, <1>9

\* What laying lines comes to, line by line.
LEMMA LaidIs ==
    ASSUME NEW lines \in Seq(Nat)
    PROVE  LaidUpTo(lines, laid(lines), Len(lines))
<1>1. DOMAIN lines = 1 .. Len(lines) /\ Len(lines) \in Nat
  OBVIOUS
<1> DEFINE IsLaid(g) == g = [n \in DOMAIN lines |->
                                 IF n = 1 THEN [from |-> 1, width |-> lines[1]]
                                 ELSE IF g[n - 1].width + 1 + lines[n] > MAX_SECTION_CHARS
                                      THEN [from |-> n, width |-> lines[n]]
                                      ELSE [from |-> g[n - 1].from, width |-> g[n - 1].width + 1 + lines[n]]]
<1>2. laid(lines) = CHOOSE g : IsLaid(g)
  BY DEF laid
<1>3. ASSUME NEW g PROVE IsLaid(g) <=> LaidUpTo(lines, g, Len(lines))
  BY <1>1, Zenon DEF LaidUpTo, NextLaid
<1>4. \E g : IsLaid(g)
  <2> HIDE DEF IsLaid
  <2> QED BY <1>1, <1>3, LinesAreLaid
<1>5. IsLaid(laid(lines))
  <2> HIDE DEF IsLaid
  <2> QED BY <1>2, <1>4
<1> QED
  <2> HIDE DEF IsLaid
  <2> QED BY <1>3, <1>5

\* How the lines lie once they are laid: each at the end of a chunk begun with it or before it, as far as it fits.
Lie(lines, N, lie) ==
    /\ lie[1] = [from |-> 1, width |-> lines[1]]
    /\ \A n \in 1 .. N :
          /\ lie[n].from \in 1 .. n
          /\ lie[n].width \in Nat /\ lie[n].width <= MAX_SECTION_CHARS
          /\ \A k \in lie[n].from .. n : lie[k].from = lie[n].from
    /\ \A n \in 1 .. N : n # 1 =>
          /\ lie[n - 1].width + 1 + lines[n] <= MAX_SECTION_CHARS => lie[n].from = lie[n - 1].from
          /\ lie[n].from = n \/ lie[n].from = lie[n - 1].from

LEMMA ListOf ==
    ASSUME NEW W, NEW list \in Seq(W), list # <<>>
    PROVE  /\ Len(list) \in Nat /\ Len(list) # 0 /\ DOMAIN list = 1 .. Len(list)
           /\ \A n \in 1 .. Len(list) : list[n] \in W
OBVIOUS

LEMMA ListOfMore ==
    ASSUME NEW W, NEW V, W \subseteq V, NEW list \in Seq(W)
    PROVE  list \in Seq(V)
OBVIOUS

OfRows(list) == list \in Seq(1 .. MaxRow)

LEMMA LinesAre ==
    ASSUME NEW lines, OfRows(lines), lines # <<>>
    PROVE  /\ Len(lines) \in Nat /\ Len(lines) # 0 /\ DOMAIN lines = 1 .. Len(lines)
           /\ \A n \in 1 .. Len(lines) : lines[n] \in Nat /\ lines[n] <= 1000
<1>1. PICK most \in Nat : most = MaxRow /\ most = 1000
  BY DEF MaxRow
<1>2. PICK W : W = 1 .. most
  OBVIOUS
<1>3. lines \in Seq(W)
  BY <1>1, <1>2, Zenon DEF OfRows
<1>4. /\ Len(lines) \in Nat /\ Len(lines) # 0 /\ DOMAIN lines = 1 .. Len(lines)
      /\ \A n \in 1 .. Len(lines) : lines[n] \in W
  BY <1>3, ListOf
<1>5. \A w \in W : w \in Nat /\ w <= 1000
  BY <1>1, <1>2
<1> QED BY <1>4, <1>5

LEMMA LinesAreNumbers == ASSUME NEW lines, OfRows(lines) PROVE lines \in Seq(Nat)
<1>1. PICK most \in Nat : most = MaxRow
  BY DEF MaxRow
<1>2. PICK W : W = 1 .. most
  OBVIOUS
<1>3. lines \in Seq(W)
  BY <1>1, <1>2, Zenon DEF OfRows
<1>4. W \subseteq Nat
  BY <1>2
<1> QED BY <1>3, <1>4, ListOfMore

LEMMA LaidLie ==
    ASSUME NEW lines, OfRows(lines), lines # <<>>
    PROVE  Lie(lines, Len(lines), laid(lines))
<1>1. PICK N \in Nat : N = Len(lines)
  BY LinesAre
<1>2. N # 0 /\ DOMAIN lines = 1 .. N /\ \A n \in 1 .. N : lines[n] \in Nat /\ lines[n] <= 1000
  BY <1>1, LinesAre
<1>3. PICK lie : lie = laid(lines)
  OBVIOUS
<1>4. LaidUpTo(lines, lie, N)
  <2>1. lines \in Seq(Nat)
    BY LinesAreNumbers
  <2> QED BY <2>1, <1>1, <1>3, LaidIs
<1>5. /\ lie[1] = [from |-> 1, width |-> lines[1]]
      /\ \A n \in 1 .. N : n # 1 => lie[n] = NextLaid(lines, lie[n - 1], n)
  <2> DEFINE At(n) == IF n = 1 THEN [from |-> 1, width |-> lines[1]] ELSE NextLaid(lines, lie[n - 1], n)
  <2>1. lie = [n \in 1 .. N |-> At(n)]
    BY <1>4, Zenon DEF LaidUpTo
  <2>2. \A n \in 1 .. N : lie[n] = At(n)
    <3> HIDE DEF At
    <3> QED BY <2>1
  <2>3. 1 \in 1 .. N
    BY <1>2
  <2>4. lie[1] = At(1)
    <3> HIDE DEF At
    <3> QED BY <2>2, <2>3
  <2>5. \A n \in 1 .. N : n # 1 => At(n) = NextLaid(lines, lie[n - 1], n)
    OBVIOUS
  <2>6. At(1) = [from |-> 1, width |-> lines[1]]
    OBVIOUS
  <2> HIDE DEF At
  <2> QED BY <2>2, <2>4, <2>5, <2>6
<1> DEFINE Fine(n) == /\ lie[n].from \in 1 .. n
                      /\ lie[n].width \in Nat /\ lie[n].width <= MAX_SECTION_CHARS
                      /\ \A k \in lie[n].from .. n : lie[k].from = lie[n].from
           Bad == {n \in 1 .. N : ~Fine(n)}
<1>6. ASSUME NEW n \in 1 .. N, n # 1, Fine(n - 1) PROVE Fine(n)
  <2>1. PICK before : before = lie[n - 1]
    OBVIOUS
  <2>2. lie[n] = NextLaid(lines, before, n)
    BY <1>5, <1>6, <2>1
  <2>3. /\ before.from \in 1 .. n - 1 /\ before.width \in Nat /\ before.width <= MAX_SECTION_CHARS
        /\ \A k \in before.from .. n - 1 : lie[k].from = before.from
    BY <1>6, <2>1
  <2>4. lines[n] \in Nat /\ lines[n] <= 1000
    BY <1>2
  <2>5. CASE before.width + 1 + lines[n] > MAX_SECTION_CHARS
    <3>1. lie[n] = [from |-> n, width |-> lines[n]]
      BY <2>2, <2>5 DEF NextLaid
    <3> QED BY <3>1, <2>4 DEF MAX_SECTION_CHARS
  <2>6. CASE ~(before.width + 1 + lines[n] > MAX_SECTION_CHARS)
    <3>1. lie[n] = [from |-> before.from, width |-> before.width + 1 + lines[n]]
      BY <2>2, <2>6 DEF NextLaid
    <3>2. lie[n].from = before.from /\ lie[n].width = before.width + 1 + lines[n]
      BY <3>1
    <3>3. lie[n].width \in Nat /\ lie[n].width <= MAX_SECTION_CHARS
      <4>1. PICK w \in Nat : w = before.width
        BY <2>3
      <4>2. PICK l \in Nat : l = lines[n] /\ l <= 1000
        BY <2>4
      <4>3. w + 1 + l <= 2800
        BY <4>1, <4>2, <2>6 DEF MAX_SECTION_CHARS
      <4>4. w + 1 + l \in Nat
        BY <4>3
      <4>5. lie[n].width = w + 1 + l
        BY <3>2, <4>1, <4>2
      <4> QED BY <4>3, <4>4, <4>5 DEF MAX_SECTION_CHARS
    <3>4. lie[n].from \in 1 .. n
      BY <3>2, <2>3
    <3>5. ASSUME NEW k \in lie[n].from .. n PROVE lie[k].from = lie[n].from
      <4>1. CASE k = n
        BY <4>1
      <4>2. CASE k # n
        <5>1. k \in before.from .. n - 1
          BY <4>2, <3>2, <2>3
        <5> QED BY <5>1, <2>3, <3>2
      <4> QED BY <4>1, <4>2
    <3> QED BY <3>3, <3>4, <3>5
  <2> QED BY <2>5, <2>6
<1>7. Fine(1)
  <2>1. lie[1].from = 1 /\ lie[1].width = lines[1]
    BY <1>5
  <2>2. lines[1] \in Nat /\ lines[1] <= 1000
    BY <1>2
  <2>3. \A k \in 1 .. 1 : k = 1
    OBVIOUS
  <2> QED BY <2>1, <2>2, <2>3 DEF MAX_SECTION_CHARS
<1>8. Bad = {}
  <2>1. SUFFICES ASSUME Bad # {} PROVE FALSE
    OBVIOUS
  <2>2. Bad \in SUBSET Nat
    OBVIOUS
  <2>3. PICK n \in Bad : \A k \in Bad : n <= k
    <3> HIDE DEF Bad
    <3> QED BY <2>1, <2>2, Least
  <2>4. n \in 1 .. N /\ ~Fine(n)
    BY <2>3, Zenon
  <2>5. n # 1
    BY <2>4, <1>7, Zenon
  <2>6. n - 1 \in 1 .. N
    BY <2>4, <2>5
  <2>7. Fine(n - 1)
    <3>1. n - 1 \notin Bad
      <4> HIDE DEF Bad
      <4> QED BY <2>3, <2>4
    <3> QED BY <3>1, <2>6, Zenon
  <2> HIDE DEF Fine, Bad
  <2> QED BY <2>4, <2>5, <2>7, <1>6
<1>9. \A n \in 1 .. N : Fine(n)
  <2> HIDE DEF Fine
  <2> QED BY <1>8, Zenon
<1>10. ASSUME NEW n \in 1 .. N, n # 1
       PROVE  /\ lie[n - 1].width + 1 + lines[n] <= MAX_SECTION_CHARS => lie[n].from = lie[n - 1].from
              /\ lie[n].from = n \/ lie[n].from = lie[n - 1].from
  <2>1. PICK before : before = lie[n - 1]
    OBVIOUS
  <2>2. lie[n] = NextLaid(lines, before, n)
    BY <1>5, <1>10, <2>1
  <2>3. n - 1 \in 1 .. N
    BY <1>10
  <2>4. before.width \in Nat /\ before.width <= MAX_SECTION_CHARS
    BY <2>1, <2>3, <1>9
  <2>5. lines[n] \in Nat /\ lines[n] <= 1000
    BY <1>2
  <2>6. CASE before.width + 1 + lines[n] > MAX_SECTION_CHARS
    <3>1. lie[n].from = n
      BY <2>2, <2>6 DEF NextLaid
    <3>2. PICK w \in Nat : w = before.width
      BY <2>4
    <3>3. PICK l \in Nat : l = lines[n] /\ l <= 1000
      BY <2>5
    <3>4. ~(w + 1 + l <= 2800)
      BY <3>2, <3>3, <2>6 DEF MAX_SECTION_CHARS
    <3>5. ~(lie[n - 1].width + 1 + lines[n] <= MAX_SECTION_CHARS)
      BY <2>1, <3>2, <3>3, <3>4 DEF MAX_SECTION_CHARS
    <3> QED BY <3>1, <3>5
  <2>7. CASE ~(before.width + 1 + lines[n] > MAX_SECTION_CHARS)
    <3>1. lie[n].from = before.from
      BY <2>2, <2>7 DEF NextLaid
    <3> QED BY <3>1, <2>1
  <2> QED BY <2>6, <2>7
<1>11. Lie(lines, N, lie)
  BY <1>5, <1>9, <1>10 DEF Lie
<1> QED BY <1>1, <1>3, <1>11

\* What a list of lines is divided into, and what of each chunk a digest relies on.
Divided(chunks, lines) ==
    /\ UNION {c.from .. c.to : c \in chunks} = 1 .. Len(lines)
    /\ \A c \in chunks : /\ c.width <= SlackSection
                         /\ \A d \in chunks : c = d \/ c.to < d.from \/ d.to < c.from
    /\ Len(lines) > 1 /\ lines[1] = Heading => \A c \in chunks : c.from = 1 => c.to > 1

LEMMA RoomEnough ==
    /\ \A w \in Nat : w <= 2800 => w <= 3000
    /\ \A l \in Nat : l <= 1000 => 13 + 1 + l <= 2800
OBVIOUS

LEMMA ChunksAre ==
    ASSUME NEW lines, OfRows(lines), lines # <<>>
    PROVE  Divided(chunkLines(lines), lines) /\ chunkLines(lines) # {}
<1>1. PICK N \in Nat : N = Len(lines)
  BY LinesAre
<1>2. N # 0 /\ DOMAIN lines = 1 .. N /\ \A n \in 1 .. N : lines[n] \in Nat /\ lines[n] <= 1000
  BY <1>1, LinesAre
<1>3. PICK lie : lie = laid(lines)
  OBVIOUS
<1>4. Lie(lines, N, lie)
  BY <1>1, <1>3, LaidLie
<1> DEFINE Ends == {n \in 1 .. N : n = N \/ lie[n + 1].from = n + 1}
           chunk(n) == [from |-> lie[n].from, to |-> n, width |-> lie[n].width]
           chunks == {chunk(n) : n \in Ends}
<1>5. chunkLines(lines) = chunks
  BY <1>1, <1>2, <1>3 DEF chunkLines
<1>6. ASSUME NEW n \in 1 .. N
      PROVE  /\ lie[n].from \in 1 .. n /\ lie[n].width \in Nat /\ lie[n].width <= MAX_SECTION_CHARS
             /\ \A k \in lie[n].from .. n : lie[k].from = lie[n].from
  BY <1>4 DEF Lie
<1>7. ASSUME NEW n \in 1 .. N
      PROVE  chunk(n).from = lie[n].from /\ chunk(n).to = n /\ chunk(n).width = lie[n].width
  OBVIOUS
\* The line that a chunk ends on which holds the k-th: the last that is in one chunk with it.
<1>8. ASSUME NEW k \in 1 .. N PROVE \E n \in Ends : k \in lie[n].from .. n
  <2> DEFINE With == {m \in 0 .. N : N - m \in 1 .. N /\ lie[N - m].from = lie[k].from}
  <2>1. N - k \in With
    <3>1. N - (N - k) = k /\ N - k \in 0 .. N
      OBVIOUS
    <3> QED BY <3>1
  <2>2. With \in SUBSET Nat
    OBVIOUS
  <2>3. PICK m \in With : \A j \in With : m <= j
    <3> HIDE DEF With
    <3> QED BY <2>1, <2>2, Least
  <2>4. PICK n \in 1 .. N : n = N - m /\ lie[n].from = lie[k].from
    BY <2>3
  <2>5. m <= N - k /\ m \in Nat
    <3> HIDE DEF With
    <3> QED BY <2>1, <2>2, <2>3
  <2>6. k <= n
    BY <2>4, <2>5
  <2>7. n \in Ends
    <3>1. SUFFICES ASSUME n # N, lie[n + 1].from # n + 1 PROVE FALSE
      OBVIOUS
    <3>2. n + 1 \in 1 .. N /\ n + 1 # 1 /\ (n + 1) - 1 = n
      BY <3>1
    <3>3. lie[n + 1].from = lie[n].from
      BY <3>1, <3>2, <1>4 DEF Lie
    <3>4. m - 1 \in 0 .. N /\ N - (m - 1) = n + 1
      BY <2>4, <2>5, <3>2
    <3>5. m - 1 \in With
      BY <3>2, <3>3, <3>4, <2>4
    <3> HIDE DEF With
    <3> QED BY <3>5, <2>3, <2>5
  <2>8. lie[k].from \in 1 .. k
    BY <1>6
  <2> HIDE DEF Ends
  <2> QED BY <2>4, <2>6, <2>7, <2>8
<1>9. UNION {c.from .. c.to : c \in chunks} = 1 .. N
  <2>1. ASSUME NEW k \in 1 .. N PROVE \E c \in chunks : k \in c.from .. c.to
    <3>1. PICK n \in Ends : k \in lie[n].from .. n
      BY <1>8
    <3>2. chunk(n) \in chunks /\ chunk(n).from = lie[n].from /\ chunk(n).to = n
      BY <3>1
    <3> HIDE DEF chunk, chunks, Ends
    <3> QED BY <3>1, <3>2
  <2>2. ASSUME NEW c \in chunks, NEW k \in c.from .. c.to PROVE k \in 1 .. N
    <3>1. PICK n \in Ends : c = chunk(n)
      BY <2>2
    <3>2. n \in 1 .. N
      OBVIOUS
    <3>3. c.from = lie[n].from /\ c.to = n
      BY <3>1
    <3> HIDE DEF chunk, chunks, Ends
    <3> QED BY <3>2, <3>3, <2>2, <1>6
  <2> HIDE DEF chunk, chunks, Ends
  <2> QED BY <2>1, <2>2
<1>10. ASSUME NEW c \in chunks, NEW d \in chunks PROVE c = d \/ c.to < d.from \/ d.to < c.from
  <2>1. PICK m \in Ends : c = chunk(m)
    BY <1>10
  <2>2. PICK n \in Ends : d = chunk(n)
    BY <1>10
  <2>3. m \in 1 .. N /\ n \in 1 .. N
    OBVIOUS
  <2>4. c.from = lie[m].from /\ c.to = m /\ d.from = lie[n].from /\ d.to = n
    BY <2>1, <2>2
  <2>5. ASSUME NEW a \in Ends, NEW b \in Ends, a < b PROVE a < lie[b].from
    <3>1. a \in 1 .. N /\ b \in 1 .. N /\ lie[a + 1].from = a + 1
      BY <2>5
    <3>2. SUFFICES ASSUME lie[b].from <= a PROVE FALSE
      BY <3>1, <1>6
    <3>3. a + 1 \in lie[b].from .. b
      BY <3>1, <3>2, <2>5, <1>6
    <3>4. lie[a + 1].from = lie[b].from
      BY <3>1, <3>3, <1>6
    <3> QED BY <3>1, <3>2, <3>4
  <2>6. CASE m = n
    BY <2>1, <2>2, <2>6
  <2>7. CASE m < n
    <3> HIDE DEF chunk, chunks, Ends
    <3> QED BY <2>4, <2>5, <2>7
  <2>8. CASE n < m
    <3> HIDE DEF chunk, chunks, Ends
    <3> QED BY <2>4, <2>5, <2>8
  <2> HIDE DEF chunk, chunks, Ends
  <2> QED BY <2>3, <2>6, <2>7, <2>8
<1>11. ASSUME NEW c \in chunks PROVE c.width <= SlackSection
  <2>1. PICK n \in 1 .. N : c.width = lie[n].width
    BY <1>11
  <2>2. lie[n].width \in Nat /\ lie[n].width <= 2800
    BY <1>6 DEF MAX_SECTION_CHARS
  <2>3. PICK w \in Nat : c.width = w /\ w <= 2800
    <3> HIDE DEF chunk, chunks, Ends
    <3> QED BY <2>1, <2>2
  <2>4. w <= 3000
    <3> HIDE DEF chunk, chunks, Ends
    <3> QED BY <2>3, RoomEnough
  <2> HIDE DEF chunk, chunks, Ends
  <2> QED BY <2>3, <2>4 DEF SlackSection
<1>12. ASSUME N > 1, lines[1] = Heading, NEW c \in chunks, c.from = 1 PROVE c.to > 1
  <2>1. PICK n \in Ends : c.to = n
    BY <1>12
  <2>2. n \in 1 .. N
    OBVIOUS
  <2>3. SUFFICES ASSUME n = 1 PROVE FALSE
    <3> HIDE DEF chunks, Ends
    <3> QED BY <2>1, <2>2
  <2>4. lie[2].from = 2
    <3>1. n # N
      BY <1>12, <2>3
    <3>2. lie[n + 1].from = n + 1
      BY <3>1
    <3> QED BY <2>3, <3>2
  <2>5. 2 \in 1 .. N /\ 2 # 1 /\ 2 - 1 = 1 /\ 1 \in 1 .. N
    BY <1>12
  <2>6. lie[1].width = 13 /\ lie[1].from = 1
    BY <1>4, <1>12 DEF Lie, Heading
  <2>7. lines[2] \in Nat /\ lines[2] <= 1000
    <3> HIDE DEF chunk, chunks, Ends
    <3>1. \A k \in 1 .. N : lines[k] \in Nat /\ lines[k] <= 1000
      BY <1>2
    <3>2. PICK m \in 1 .. N : m = 2
      BY <2>5
    <3>3. lines[m] \in Nat /\ lines[m] <= 1000
      BY <3>1
    <3> QED BY <3>2, <3>3
  <2>8. lie[2 - 1].width + 1 + lines[2] <= MAX_SECTION_CHARS
    <3>1. PICK l \in Nat : l = lines[2] /\ l <= 1000
      BY <2>7
    <3>2. 13 + 1 + l <= 2800
      <4> HIDE DEF chunk, chunks, Ends
      <4> QED BY <3>1, RoomEnough
    <3>3. 2 - 1 = 1
      OBVIOUS
    <3> HIDE DEF chunk, chunks, Ends
    <3> QED BY <2>6, <3>1, <3>2, <3>3 DEF MAX_SECTION_CHARS
  <2>9. lie[2].from = lie[2 - 1].from
    BY <1>4, <2>5, <2>8 DEF Lie
  <2> HIDE DEF chunk, chunks, Ends
  <2> QED BY <2>4, <2>5, <2>6, <2>9
<1>13. chunks # {}
  <2>1. N \in Ends
    BY <1>2
  <2> HIDE DEF chunk, Ends
  <2> QED BY <2>1
<1> HIDE DEF chunk, chunks, Ends
<1> QED BY <1>1, <1>5, <1>9, <1>10, <1>11, <1>12, <1>13 DEF Divided

LEMMA FirstOfIs ==
    ASSUME NEW W, NEW list \in Seq(W), NEW n \in Nat
    PROVE  /\ FirstOf(list, n) \in Seq(W)
           /\ Len(FirstOf(list, n)) = IF Len(list) < n THEN Len(list) ELSE n
<1>1. PICK m \in Nat : m = IF Len(list) < n THEN Len(list) ELSE n
  OBVIOUS
<1>2. m <= Len(list)
  BY <1>1
<1>3. SubSeq(list, 1, m) \in Seq(W) /\ Len(SubSeq(list, 1, m)) = m
  BY <1>2
<1> QED BY <1>1, <1>3 DEF FirstOf

\* What one list of lines takes up, and how many of them.
LinesOf(chunks) == UNION {c.from .. c.to : c \in chunks}

LEMMA ListedIs ==
    ASSUME NEW lines, OfRows(lines)
    PROVE  /\ Divided(chunkLines(lines), lines)
           /\ chunkLines(lines) = {} <=> lines = <<>>
           /\ Len(lines) \in Nat
           /\ Cardinality(LinesOf(chunkLines(lines))) = Len(lines)
<1>1. Len(lines) \in Nat
  BY DEF OfRows
<1>2. Divided(chunkLines(lines), lines) /\ (chunkLines(lines) = {} <=> lines = <<>>)
  <2>1. CASE lines = <<>>
    <3>1. DOMAIN lines = {} /\ Len(lines) = 0
      BY <2>1
    <3>2. chunkLines(lines) = {}
      BY <3>1 DEF chunkLines
    <3>3. 1 .. 0 = {}
      OBVIOUS
    <3>4. Divided({}, lines)
      BY <3>1, <3>3 DEF Divided
    <3> QED BY <2>1, <3>2, <3>4
  <2>2. CASE lines # <<>>
    BY <2>2, ChunksAre, Zenon
  <2> QED BY <2>1, <2>2
<1>3. LinesOf(chunkLines(lines)) = 1 .. Len(lines)
  BY <1>2 DEF Divided, LinesOf
<1>4. PICK N \in Nat : N = Len(lines)
  BY <1>1
<1>5. Cardinality(1 .. N) = N
  <2>1. Cardinality(1 .. N) = IF 1 > N THEN 0 ELSE N - 1 + 1
    BY FS_Interval
  <2> QED BY <2>1
<1> QED BY <1>1, <1>2, <1>3, <1>4, <1>5

\* The rows of one heading, the heading in front.
Headed(list) == IF list = <<>> THEN <<>> ELSE <<Heading>> \o list

LEMMA HeadedIs ==
    ASSUME NEW list, OfRows(list)
    PROVE  /\ OfRows(Headed(list)) /\ Len(list) \in Nat
           /\ Headed(list) = <<>> <=> list = <<>>
           /\ Len(Headed(list)) = IF Len(list) = 0 THEN 0 ELSE Len(list) + 1
           /\ list # <<>> => Len(Headed(list)) > 1 /\ Headed(list)[1] = Heading
<1>1. PICK most \in Nat : most = MaxRow /\ most = 1000
  BY DEF MaxRow
<1>2. PICK W : W = 1 .. MaxRow /\ Heading \in W
  <2>1. 13 \in 1 .. most /\ Heading = 13
    BY <1>1 DEF Heading
  <2>2. Heading \in 1 .. MaxRow
    BY <1>1, <2>1
  <2> QED BY <2>2, Zenon
<1>3. <<Heading>> \in Seq(W) /\ list \in Seq(W) /\ Len(<<Heading>>) = 1 /\ <<Heading>>[1] = Heading
  BY <1>2 DEF OfRows
<1>4. CASE list = <<>>
  BY <1>4 DEF Headed, OfRows
<1>5. CASE list # <<>>
  <2>1. PICK both : both = <<Heading>> \o list
    OBVIOUS
  <2>2. PICK first \in Seq(W) : first = <<Heading>> /\ Len(first) = 1 /\ first[1] = Heading
    BY <1>3
  <2>3. both \in Seq(W) /\ Len(both) = Len(list) + 1 /\ both[1] = Heading
    BY <1>3, <2>1, <2>2
  <2>4. Len(list) \in Nat /\ Len(list) # 0
    BY <1>5 DEF OfRows
  <2>5. Len(both) > 1 /\ both # <<>>
    BY <2>3, <2>4
  <2>6. Headed(list) = both
    BY <1>5, <2>1 DEF Headed
  <2> QED BY <1>2, <1>5, <2>3, <2>4, <2>5, <2>6 DEF OfRows
<1> QED BY <1>4, <1>5

DigestInv == digest \in Digests \cup {NoDigest}

LEMMA DigestStays == MessageSpec => []DigestInv
<1>1. MessageInit => DigestInv
  BY DEF MessageInit, DigestInv
<1>2. DigestInv /\ [MessageNext]_messageVars => DigestInv'
  BY DEF MessageNext, messageVars, DigestInv, Growing, Reviewed, Settled
<1> QED BY <1>1, <1>2, PTL DEF MessageSpec

\* What of its sections a digest relies on.
LEMMA SectionsAre ==
    ASSUME NEW lines, OfRows(lines), NEW c \in chunkLines(lines)
    PROVE  /\ \A d \in chunkLines(lines) : c = d \/ c.to < d.from \/ d.to < c.from
           /\ c.width <= SlackSection
           /\ Len(lines) > 1 /\ lines[1] = Heading /\ c.from = 1 => c.to > 1
BY ListedIs DEF Divided

LEMMA RowsAddUp == DigestInv => DigestAddsUp
<1> SUFFICES ASSUME DigestInv PROVE DigestAddsUp
  OBVIOUS
<1>1. OfRows(digest.team) /\ OfRows(digest.others)
  <2>1. CASE digest \in Digests
    BY <2>1, DigestsAssumption DEF OfRows
  <2>2. CASE digest = NoDigest
    BY <2>2 DEF NoDigest, OfRows
  <2> QED BY <2>1, <2>2 DEF DigestInv
<1>2. PICK T \in Nat, O \in Nat : T = Len(digest.team) /\ O = Len(digest.others)
  BY <1>1 DEF OfRows
<1> DEFINE shownTeam == FirstOf(digest.team, MAX_DIGEST_ROWS)
           shownOthers == FirstOf(digest.others, MAX_DIGEST_ROWS - Len(shownTeam))
<1>3. PICK t \in Nat : t = IF T < 20 THEN T ELSE 20
  OBVIOUS
<1>4. OfRows(shownTeam) /\ Len(shownTeam) = t
  <2>1. 20 \in Nat /\ MAX_DIGEST_ROWS = 20
    BY DEF MAX_DIGEST_ROWS
  <2> QED BY <1>1, <1>2, <1>3, <2>1, FirstOfIs DEF OfRows
<1>5. PICK left \in Nat : left = 20 - t
  BY <1>3
<1>6. PICK o \in Nat : o = IF O < left THEN O ELSE left
  OBVIOUS
<1>7. OfRows(shownOthers) /\ Len(shownOthers) = o
  <2>1. MAX_DIGEST_ROWS - Len(shownTeam) = left
    BY <1>4, <1>5 DEF MAX_DIGEST_ROWS
  <2> QED BY <1>1, <1>2, <1>6, <2>1, FirstOfIs DEF OfRows
<1>8. /\ shownTeam = <<>> <=> t = 0
      /\ shownOthers = <<>> <=> o = 0
      /\ digest.team = <<>> <=> T = 0
  <2> HIDE DEF shownTeam, shownOthers
  <2> QED BY <1>1, <1>2, <1>4, <1>7 DEF OfRows
<1>9. shownTeam = <<>> <=> digest.team = <<>>
  BY <1>3, <1>8
<1>10. DigestSent = [told     |-> T + O,
                     sections |-> IF digest.team = <<>> THEN <<chunkLines(shownOthers)>>
                                  ELSE <<chunkLines(Headed(shownTeam)), chunkLines(Headed(shownOthers))>>,
                     more     |-> T + O - t - o]
  BY <1>2, <1>4, <1>7, <1>9, Zenon DEF DigestSent, buildDigestMessage, Headed
<1>11. PICK told, more, sections :
          /\ told = T + O /\ more = T + O - t - o
          /\ DigestSent = [told |-> told, sections |-> sections, more |-> more]
          /\ sections = IF digest.team = <<>> THEN <<chunkLines(shownOthers)>>
                        ELSE <<chunkLines(Headed(shownTeam)), chunkLines(Headed(shownOthers))>>
  BY <1>10
<1>12. DigestSent.told = told /\ DigestSent.more = more /\ DigestSent.sections = sections
  BY <1>11
<1> HIDE DEF shownTeam, shownOthers
<1> DEFINE headed == digest.team # <<>>
           listed(g) == Cardinality(LinesOf(sections[g])) - (IF headed /\ sections[g] # {} THEN 1 ELSE 0)
           shown == IF headed THEN listed(1) + listed(2) ELSE listed(1)
<1>13. ASSUME /\ shown + more = told
              /\ shown <= 20
              /\ \A g \in DOMAIN sections : \A c \in sections[g] :
                    /\ \A d \in sections[g] : c = d \/ c.to < d.from \/ d.to < c.from
                    /\ c.width <= SlackSection
                    /\ headed /\ c.from = 1 => c.to > 1
              /\ headed => listed(1) = T \/ (listed(1) = 20 /\ T > 20)
       PROVE  DigestAddsUp
  BY <1>2, <1>12, <1>13 DEF DigestAddsUp, MAX_DIGEST_ROWS, LinesOf
<1>14. CASE digest.team = <<>>
  <2>1. sections = <<chunkLines(shownOthers)>> /\ ~headed
    BY <1>11, <1>14
  <2>2. sections[1] = chunkLines(shownOthers) /\ DOMAIN sections = {1}
    BY <2>1
  <2>3. listed(1) = o
    BY <1>7, <2>1, <2>2, ListedIs
  <2>4. t = 0
    BY <1>8, <1>9, <1>14
  <2>5. ASSUME NEW g \in DOMAIN sections, NEW c \in sections[g]
        PROVE  (\A d \in sections[g] : c = d \/ c.to < d.from \/ d.to < c.from) /\ c.width <= SlackSection
    <3>1. sections[g] = chunkLines(shownOthers)
      BY <2>2
    <3> QED BY <3>1, <1>7, SectionsAre
  <2>6. shown = o
    BY <2>1, <2>3
  <2>7. o + more = told /\ o <= 20
    BY <1>5, <1>6, <1>11, <2>4
  <2> QED BY <1>13, <2>1, <2>5, <2>6, <2>7
<1>15. CASE digest.team # <<>>
  <2>1. sections = <<chunkLines(Headed(shownTeam)), chunkLines(Headed(shownOthers))>> /\ headed
    BY <1>11, <1>15
  <2>2. /\ sections[1] = chunkLines(Headed(shownTeam)) /\ sections[2] = chunkLines(Headed(shownOthers))
        /\ DOMAIN sections = {1, 2}
    BY <2>1
  <2>3. ASSUME NEW list, OfRows(list), NEW n \in Nat, n = Len(list), NEW g, sections[g] = chunkLines(Headed(list))
        PROVE  /\ listed(g) = n
               /\ \A c \in sections[g] :
                    /\ \A d \in sections[g] : c = d \/ c.to < d.from \/ d.to < c.from
                    /\ c.width <= SlackSection
                    /\ c.from = 1 => c.to > 1
    <3>1. PICK lines : lines = Headed(list) /\ OfRows(lines)
      BY <2>3, HeadedIs
    <3>2. /\ lines = <<>> <=> list = <<>>
          /\ Len(lines) = IF n = 0 THEN 0 ELSE n + 1
          /\ list # <<>> => Len(lines) > 1 /\ lines[1] = Heading
          /\ list = <<>> <=> n = 0
      <4>1. list = <<>> <=> n = 0
        BY <2>3 DEF OfRows
      <4> QED BY <3>1, <2>3, <4>1, HeadedIs
    <3>3. /\ Cardinality(LinesOf(sections[g])) = Len(lines)
          /\ sections[g] = {} <=> lines = <<>>
      BY <2>3, <3>1, ListedIs
    <3>4. listed(g) = n
      <4>1. CASE n = 0
        <5>1. Cardinality(LinesOf(sections[g])) = 0 /\ sections[g] = {}
          BY <3>2, <3>3, <4>1
        <5> QED BY <4>1, <5>1
      <4>2. CASE n # 0
        <5>1. Cardinality(LinesOf(sections[g])) = n + 1 /\ sections[g] # {}
          BY <3>2, <3>3, <4>2
        <5> QED BY <4>2, <5>1, <2>1
      <4> QED BY <4>1, <4>2
    <3>5. ASSUME NEW c \in sections[g]
          PROVE  /\ \A d \in sections[g] : c = d \/ c.to < d.from \/ d.to < c.from
                 /\ c.width <= SlackSection
                 /\ c.from = 1 => c.to > 1
      <4>1. list # <<>>
        BY <3>2, <3>3, <3>5
      <4>2. c \in chunkLines(lines) /\ sections[g] = chunkLines(lines)
        BY <2>3, <3>1, <3>5
      <4> QED BY <4>1, <4>2, <3>1, <3>2, SectionsAre
    <3> QED BY <3>4, <3>5
  <2>4. listed(1) = t /\ listed(2) = o
    BY <1>4, <1>7, <2>2, <2>3
  <2>5. \A g \in DOMAIN sections : \A c \in sections[g] :
           /\ \A d \in sections[g] : c = d \/ c.to < d.from \/ d.to < c.from
           /\ c.width <= SlackSection
           /\ c.from = 1 => c.to > 1
    BY <1>4, <1>7, <2>2, <2>3
  <2>6. shown = t + o
    BY <2>1, <2>4
  <2>7. t + o + more = told /\ t + o <= 20 /\ (t = T \/ (t = 20 /\ T > 20))
    BY <1>3, <1>5, <1>6, <1>11
  <2> QED BY <1>13, <2>1, <2>4, <2>5, <2>6, <2>7
<1> QED BY <1>14, <1>15

\* What a digest lists and what it says is left over are what it says are waiting, whatever the lists
\* and the widths of their rows; every row is in one section and only one, no section is too long
\* for Slack or a heading alone, and a teammate's row is left out only for twenty teammates' rows
\* (buildDigestMessage, chunkLines).
THEOREM DigestsAddUp == MessageSpec => []DigestAddsUp
BY DigestStays, RowsAddUp, PTL
=============================================================================
