----------------------------- MODULE MCWebhooks -----------------------------
(***************************************************************************)
(* What becomes of one webhook: the pokes its handler submits (Routing), what  *)
(* the pieces of a batch are merged into and how the message reads              *)
(* (ReviewMerge, SlackMessage), and the edits of messages already sent          *)
(* (PokeResolution).  A behaviour is one of the three stages; the variables of  *)
(* the others stand still in it.                                                *)
(*                                                                              *)
(* ann and bo have signed up, cy has not; app is a GitHub App and ci a machine   *)
(* that only its name gives away.  ann opened thread c.                          *)
(***************************************************************************)
EXTENDS Routing, PokeResolution, SlackMessage, TLC

CONSTANTS ann, bo, cy, app, ci, core, other, c, toAnn, toBo

----------------------------------------------------------------------------
\* Routing.

MCHolderOf == [login \in {"ann", "bo", "gone"} |->
                  CASE login = "ann" -> ann [] login = "bo" -> bo [] OTHER -> Nobody]
MCTeamMembers == [team \in {core, other} |-> {ann, bo, cy}]
MCAuthorOf == (c :> ann)

Quiet == [event |-> "", action |-> "", sender |-> cy, author |-> ann, reviewer |-> Nobody,
          reviewTeam |-> NoTeam, merged |-> FALSE, isPullRequest |-> TRUE,
          replyTo |-> NoComment, logins |-> {}, teams |-> {}, org |-> TRUE,
          installation |-> TRUE, private |-> FALSE]
PullRequest(action) == [Quiet EXCEPT !.event = "pull_request", !.action = action]
ReviewComment ==
    [Quiet EXCEPT !.event = "pull_request_review_comment", !.action = "created"]
IssueComment == [Quiet EXCEPT !.event = "issue_comment", !.action = "created"]

askedByBot    == [PullRequest("review_requested") EXCEPT !.sender = app, !.reviewer = bo]
botAsksForBot == [askedByBot EXCEPT !.author = ci]
askedTeam     == [PullRequest("review_requested") EXCEPT !.sender = bo, !.reviewTeam = core]
merged        == [PullRequest("closed") EXCEPT !.sender = ci, !.merged = TRUE]
abandoned     == [PullRequest("closed") EXCEPT !.private = TRUE]
armed         == [PullRequest("auto_merge_enabled") EXCEPT !.sender = app]
opened        == [PullRequest("opened") EXCEPT !.sender = ann, !.logins = {"bo", "gone"},
                                               !.teams = {core, other}, !.private = TRUE]
reviewed      == [Quiet EXCEPT !.event = "pull_request_review", !.action = "submitted",
                               !.teams = {core}, !.private = TRUE]
replied       == [ReviewComment EXCEPT !.sender = bo, !.replyTo = c, !.logins = {"ann"},
                                       !.author = cy]
botReplied    == [ReviewComment EXCEPT !.sender = app, !.replyTo = c, !.teams = {core}]
ciCommented   == [IssueComment EXCEPT !.sender = ci, !.logins = {"bo"}, !.private = TRUE]
onAnIssue     == [IssueComment EXCEPT !.isPullRequest = FALSE, !.logins = {"ann"},
                                      !.teams = {core}]
filed         == [Quiet EXCEPT !.event = "issues", !.action = "opened", !.sender = bo,
                               !.logins = {"ann", "bo"}, !.teams = {core}, !.org = FALSE]
unplaced      == [reviewed EXCEPT !.installation = FALSE]

AllEvents == {askedByBot, botAsksForBot, askedTeam, merged, abandoned, armed, opened, reviewed,
              replied, botReplied, ciCommented, onAnIssue, filed, unplaced}
\* The two with the most recipients and the most questions asked along the way.
BusyEvents == {reviewed, botReplied}

Settings(muted, mode, allowed, blocked) ==
    [mutedTypes |-> muted, botMode |-> mode, allowedBots |-> allowed, blockedBots |-> blocked]
open    == Settings({}, "all", {}, {})
blocks  == Settings({"comment_reply"}, "all", {app}, {app, ci})
allows  == Settings({}, "none", {app}, {app})
silent  == Settings({"review_submitted", "issue_comment"}, "none", {}, {})
AllSettings == {open, blocks, allows, silent}
FewSettings == {allows, silent}

Subscription(scope, repository, repositoryTypes, types) ==
    [scope |-> scope, repository |-> repository, repositoryTypes |-> repositoryTypes,
     types |-> types]
everything == Subscription("all", "none", {}, NotificationType)
narrowed   == Subscription("all", "on_narrowed",
                           {"pull_request_mention", "issue_mention", "review_requested"}, {})
picked     == Subscription("selected", "on", {}, NotificationType \ {"pull_request_mention"})
unpicked   == Subscription("selected", "none", {}, NotificationType)
AllPreferences == {NoSubscription, everything, narrowed, picked, unpicked}
FewPreferences == {NoSubscription, everything}

Situation(events, choices, subscriptions, n) ==
    [events |-> events, settings |-> choices, preferences |-> subscriptions, changes |-> n]
\* Every webhook for every pairing of settings and subscriptions; and the two busiest while
\* something changes under them.
MCWorlds == {Situation(AllEvents, AllSettings, AllPreferences, 0),
             Situation(BusyEvents, FewSettings, FewPreferences, 1)}

----------------------------------------------------------------------------
\* Resolution.  Two pokes about one pull request: ann was asked through the core team, bo by
\* name, and bo keeps requests while GitHub asks.  cy reviews; a row of Events is one webhook as
\* readResolution or readReviewer reads it.

MCMessages == {toAnn, toBo}
MCReader == [m \in MCMessages |-> IF m = toAnn THEN ann ELSE bo]
MCTeamOf == [m \in MCMessages |-> IF m = toAnn THEN core ELSE NoTeam]

Webhook(what, actor, requested, teams, removed) ==
    [kind |-> what, actor |-> actor, requested |-> requested, teams |-> teams,
     removed |-> removed]

cyComments  == Webhook("commented", cy, {}, {}, NoTeam)
cyApproves  == Webhook("approved", cy, {bo}, {core}, NoTeam)
cyObjects   == Webhook("changes_requested", cy, {}, {core}, NoTeam)
boComments  == Webhook("commented", bo, {}, {}, NoTeam)
boApproves  == Webhook("approved", bo, {}, {core}, NoTeam)
teamRemoved == Webhook("removed", cy, {ann}, {}, core)
teamOff     == Webhook("removed", cy, {bo}, {}, core)
landed      == Webhook("merged", cy, {}, {}, NoTeam)

MCEvents == {cyComments, cyApproves, cyObjects, boComments, boApproves, teamRemoved, teamOff, landed}

MCScenarios ==
    { \* Nearly everything that can go wrong, with readers who review and requests taken back.
      [events |-> {cyApproves, boComments, teamRemoved}, faults |-> Faults \ {"workspace"}],
      \* A comment, two verdicts of one reviewer and a removal, one handler at a time.
      [events |-> {cyComments, cyApproves, cyObjects, teamOff}, faults |-> {"slack", "workspace"}],
      \* The same verdicts beside a restart, a failing database and lost answers.
      [events |-> {cyComments, cyApproves, cyObjects}, faults |-> {"crash", "answers", "database"}],
      \* A merge beside a comment and a verdict.
      [events |-> {cyComments, boApproves, landed}, faults |-> {"overlap"}] }

\* A comment beside a verdict.
StrikeScenario == {[events |-> {cyComments, boApproves}, faults |-> {"overlap"}]}
----------------------------------------------------------------------------
\* Messages.  Three inline comments and one submission, or the reader and two teams: the fewest
\* that let a comment be first written, first landed and neither.  A digest is as long as twice
\* what it lists, of rows a title of eighty ordinary letters makes, and of rows one that is all
\* markup does.

MCCommentIds == 1 .. 3
MCTeams == {"core", "infra"}
MCReviewers == {[who |-> "bo", verdict |-> "none"], [who |-> "bo", verdict |-> "changes_requested"],
                [who |-> "cy", verdict |-> "approved"]}

Plain  == 290
Marked == 780
Widths == {[i \in 1 .. 40 |-> Plain], [i \in 1 .. 40 |-> Marked],
           [i \in 1 .. 40 |-> IF i % 3 = 0 THEN Marked ELSE Plain]}
MCDigests == {[team |-> SubSeq(w, 1, t), others |-> SubSeq(w, 1, o)] : w \in Widths, t \in 0 .. 21, o \in 0 .. 21}

----------------------------------------------------------------------------
\* The three together.

VARIABLE stage

webhooksVars == <<routingVars, resolutionVars, messageVars, stage>>

RoutingAtRest ==
    /\ e = filed /\ changes = 0 /\ believed = "none"
    /\ settings = [u \in Users |-> open] /\ preferences = [u \in Users |-> NoSubscription]
    /\ spoken = [t \in Comments |-> {}]
    /\ RoutingInit
ResolutionAtRest == scenario = (CHOOSE s \in Scenarios : TRUE) /\ ResolutionInit
MessagesAtRest == kind = "request" /\ MessageInit

WebhooksInit ==
    \/ stage = "routing" /\ RoutingInit /\ ResolutionAtRest /\ MessagesAtRest
    \/ stage = "resolution" /\ ResolutionInit /\ RoutingAtRest /\ MessagesAtRest
    \/ stage = "message" /\ MessageInit /\ RoutingAtRest /\ ResolutionAtRest

WebhooksNext ==
    \/ stage = "routing" /\ RoutingNext /\ UNCHANGED <<resolutionVars, messageVars, stage>>
    \/ stage = "resolution" /\ ResolutionNext /\ UNCHANGED <<routingVars, messageVars, stage>>
    \/ stage = "message" /\ MessageNext /\ UNCHANGED <<routingVars, resolutionVars, stage>>

WebhooksSpec == WebhooksInit /\ [][WebhooksNext]_webhooksVars
============================================================================
