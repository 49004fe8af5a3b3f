------------------------------ MODULE Routing ------------------------------
(***************************************************************************)
(* One GitHub webhook on its way through GithubWebhookRouterService.route,    *)
(* from payload to at most one poke per person.  Candidates are resolved from *)
(* the payload, teams and threads are turned into people, people into users,  *)
(* and each user's candidates are put through their own gates one await at a  *)
(* time: own action, subscription, mutes, bots, repository access.            *)
(*                                                                           *)
(* The handler reads settings and subscriptions as it goes, and their owners  *)
(* change them meanwhile, so both are variables of their own.  Other handlers *)
(* share nothing with this one but the memory of who spoke in a thread.       *)
(*                                                                           *)
(* Candidates are sets.  Where the code's order decides anything - a stable   *)
(* sort between candidates of one type - the model leaves open which of two   *)
(* teams is named, and it works through the people in any order.              *)
(***************************************************************************)
EXTENDS NotificationTypes, FiniteSets

CONSTANTS
    Accounts,    \* GitHub accounts
    Users,       \* those of them with a row here
    Apps,        \* those GitHub says are machines
    BotNamed,    \* machine accounts only their -bot suffix gives away
    Logins,      \* handles somebody may write
    HolderOf,    \* the user whose row holds each handle, or Nobody
    Teams, TeamMembers,
    OwnTeams,    \* the teams of the organisation the event names
    Comments,    \* review comments that open a thread
    AuthorOf,    \* who wrote each of them
    Worlds,      \* what is explored together: webhooks, as the payload describes them, what
                 \* settings and subscriptions their readers may have, and how many settings,
                 \* subscriptions and threads change under the handler
    Nobody, NoComment, NoSubscription

ASSUME UsersAssumption == Users \subseteq Accounts /\ Nobody \notin Accounts
ASSUME HolderAssumption == HolderOf \in [Logins -> Users \cup {Nobody}]
ASSUME TeamsAssumption ==
    TeamMembers \in [Teams -> SUBSET Accounts] /\ OwnTeams \subseteq Teams /\ NoTeam \notin Teams
ASSUME AuthorAssumption == AuthorOf \in [Comments -> Accounts \cup {Nobody}]

\* A request is for one person or for one team, as GitHub sends them.
Payload ==
    {w \in [event: STRING, action: STRING, sender: Accounts, author: Accounts \cup {Nobody},
            reviewer: Accounts \cup {Nobody}, reviewTeam: Teams \cup {NoTeam}, merged: BOOLEAN,
            isPullRequest: BOOLEAN, replyTo: Comments \cup {NoComment}, logins: SUBSET Logins,
            teams: SUBSET Teams, org: BOOLEAN, installation: BOOLEAN, private: BOOLEAN] :
        w.reviewer = Nobody \/ w.reviewTeam = NoTeam}
ReaderSettings ==
    [mutedTypes: SUBSET NotificationType, botMode: {"all", "none"},
     allowedBots: SUBSET Accounts, blockedBots: SUBSET Accounts]
NotificationPreferences ==
    [scope: {"all", "selected"}, repository: {"none", "off", "on", "on_narrowed"},
     repositoryTypes: SUBSET NotificationType, types: SUBSET NotificationType]

ASSUME NoSubscriptionAssumption == NoSubscription \notin NotificationPreferences
ASSUME WorldsAssumption ==
    \A w \in Worlds : /\ w.events \subseteq Payload
                      /\ w.settings \subseteq ReaderSettings
                      /\ w.preferences \subseteq NotificationPreferences \cup {NoSubscription}

VARIABLES
    e,           \* the webhook
    settings,    \* each user's poke settings
    preferences, \* each user's subscription to the event's installation
    spoken,      \* who is remembered to have replied in each thread
    believed,    \* the cached answer to "has anybody allowed this bot", or "none"
    changes,     \* how much may still change under the handler
    pc,          \* where the handler is
    pokes,       \* the candidates
    found,       \* the settings each recipient's row had when it was looked up
    waiting,     \* recipients the loop has not come to
    current,     \* the recipient in hand, or Nobody
    step,        \* what is next for them
    wanted,      \* what is left of their candidates
    sent,        \* pokes submitted
    dropped,     \* why each recipient got nothing
    counted,     \* what the sender counts were told: recipient and outcome
    read         \* what the handler was answered along the way

handler == <<pc, pokes, found, waiting, current, step, wanted, sent, dropped, counted, read>>
world == <<e, settings, preferences, spoken, believed, changes>>
routingVars == <<world, handler>>

----------------------------------------------------------------------------
BOT_CHATTER_TYPES == {"comment_reply", "pull_request_comment", "issue_comment",
                      "pull_request_mention", "issue_mention"}

isGithubApp(account) == account \in Apps
looksLikeBot(account) == account \in Apps \cup BotNamed
isAllowed(s, account) == s.botMode = "none" /\ account \in s.allowedBots
isBlocked(s, account) == s.botMode = "all" /\ account \in s.blockedBots
isBotFor(s, account) ==
    ~isAllowed(s, account) /\ (isBlocked(s, account) \/ looksLikeBot(account))

\* Mutant of botDropReason: an allowed bot's chatter is dropped like any other's.
botDropReason_Deaf(s, type) ==
    IF looksLikeBot(e.sender) /\ type \in BOT_CHATTER_TYPES THEN "bot_chatter" ELSE "null"

\* Why a poke is a bot's that this reader does not want, or "null".
botDropReason(s, type) ==
    IF ~isBotFor(s, e.sender) THEN "null"
    ELSE IF type \in BOT_CHATTER_TYPES THEN "bot_chatter"
    ELSE IF s.botMode = "all" /\ ~isBlocked(s, e.sender) THEN "null"
    ELSE IF type = "review_requested" /\ (e.author = Nobody \/ ~isBotFor(s, e.author)) THEN "null"
    ELSE "bot_muted"

isPokeTypeMuted(s, type) == type \in s.mutedTypes

\* Mutant of isNotificationAllowed: a repository that was picked is poked about whatever its
\* owner switched off for it.
isNotificationAllowed_AnyType(p, type) ==
    p.scope = "all" \/ p.repository \in {"on", "on_narrowed"}

\* A repository's own choice wins over the installation's; within it, no list inherits.
isNotificationAllowed(p, type) ==
    /\ IF p.scope = "selected" THEN p.repository \in {"on", "on_narrowed"}
                               ELSE p.repository # "off"
    /\ type \in IF p.repository = "on_narrowed" THEN p.repositoryTypes ELSE p.types

----------------------------------------------------------------------------
\* Candidates: [by, to] names the recipient the way the payload does, via the team a sentence
\* or a request named, starter whether the reader opened the thread that was replied in.
Poke(by, to, type, via) ==
    [by |-> by, to |-> to, type |-> type, via |-> via, starter |-> FALSE]

\* What a team's or a thread's candidate becomes for somebody in it, and for whoever opened it.
toMember(p, a)  == Poke("id", a, p.type, p.via)
toStarter(p, a) == [by |-> "id", to |-> a, type |-> p.type, via |-> p.via, starter |-> TRUE]
toEach(P, people) == {toMember(p, a) : p \in P, a \in people}

mentionPokes(type) ==
    {Poke("login", login, type, NoTeam) : login \in e.logins}
        \cup {Poke("team", team, type, team) : team \in e.teams}

toAuthor(type) == IF e.author = Nobody THEN {} ELSE {Poke("id", e.author, type, NoTeam)}

\* A person is asked before a team is, and a team only where the payload names its organisation.
requestPokes ==
    IF e.reviewer # Nobody THEN {Poke("id", e.reviewer, "review_requested", NoTeam)}
    ELSE IF e.reviewTeam # NoTeam /\ e.org
         THEN {Poke("team", e.reviewTeam, "review_requested", e.reviewTeam)}
    ELSE {}

\* Mutant of resolvePullRequest: an abandoned pull request is told of as a merged one.
resolvePullRequest_AnyClose ==
    IF e.action = "review_requested" THEN requestPokes
    ELSE IF e.action = "closed" THEN toAuthor("pull_request_merged")
    ELSE IF e.action = "auto_merge_enabled" THEN toAuthor("auto_merge_enabled")
    ELSE IF e.action = "opened" THEN mentionPokes("pull_request_mention")
    ELSE {}

resolvePullRequest ==
    IF e.action = "review_requested" THEN requestPokes
    ELSE IF e.action = "closed" /\ e.merged THEN toAuthor("pull_request_merged")
    ELSE IF e.action = "auto_merge_enabled" THEN toAuthor("auto_merge_enabled")
    ELSE IF e.action = "opened" THEN mentionPokes("pull_request_mention")
    ELSE {}

resolvePullRequestReview ==
    IF e.action # "submitted" THEN {}
    ELSE toAuthor("review_submitted") \cup mentionPokes("pull_request_mention")

resolvePullRequestReviewComment ==
    IF e.action # "created" THEN {}
    ELSE toAuthor("pull_request_comment")
           \cup (IF e.replyTo = NoComment THEN {}
                 ELSE {Poke("thread", e.replyTo, "comment_reply", NoTeam)})
           \cup mentionPokes("pull_request_mention")

\* A conversation comment on a pull request arrives as one on an issue.
resolveIssueComment ==
    IF e.action # "created" THEN {}
    ELSE IF e.isPullRequest
         THEN toAuthor("pull_request_comment") \cup mentionPokes("pull_request_mention")
         ELSE toAuthor("issue_comment") \cup mentionPokes("issue_mention")

resolveIssues == IF e.action = "opened" THEN mentionPokes("issue_mention") ELSE {}

resolve ==
    IF e.event = "pull_request" THEN resolvePullRequest
    ELSE IF e.event = "pull_request_review" THEN resolvePullRequestReview
    ELSE IF e.event = "pull_request_review_comment" THEN resolvePullRequestReviewComment
    ELSE IF e.event = "issue_comment" THEN resolveIssueComment
    ELSE IF e.event = "issues" THEN resolveIssues
    ELSE {}

----------------------------------------------------------------------------
SettingsChoices   == UNION {w.settings : w \in Worlds}
PreferenceChoices == UNION {w.preferences : w \in Worlds}

RoutingInit ==
    /\ \E w \in Worlds : /\ e \in w.events
                        /\ settings \in [Users -> w.settings]
                        /\ preferences \in [Users -> w.preferences]
                        /\ changes = w.changes
    /\ spoken \in [Comments -> {{}, Users}]
    /\ believed \in {"none", "yes", "no"}
    /\ pc = "remember"
    /\ pokes = {}
    /\ found = settings
    /\ waiting = {}
    /\ current = Nobody
    /\ step = "next"
    /\ wanted = {}
    /\ sent = {}
    /\ dropped = [u \in Users |-> "null"]
    /\ counted = {}
    /\ read = [chatter |-> "yes", teams |-> {}, starter |-> Nobody, thread |-> {},
               preferences |-> [u \in Users |-> NoSubscription],
               access |-> [u \in Users |-> "unasked"]]

\* The handler is answered something along the way.
Learn(what, answer) == read' = [read EXCEPT ![what] = answer]
LearnThread(starter, others) == read' = [read EXCEPT !.starter = starter, !.thread = others]

\* rememberComment, and then editing outstanding pokes, which is PokeResolution's: a reply's
\* writer joins the thread it was left in, unless GitHub says they are a machine.
rememberComment ==
    /\ pc = "remember"
    /\ pc' = "suppress"
    /\ spoken' = IF /\ e.event = "pull_request_review_comment" /\ e.action = "created"
                    /\ e.replyTo # NoComment /\ ~isGithubApp(e.sender)
                 THEN [spoken EXCEPT ![e.replyTo] = @ \cup {e.sender}]
                 ELSE spoken
    /\ UNCHANGED <<e, settings, preferences, believed, changes, pokes, found, waiting, current,
                   step, wanted, sent, dropped, counted, read>>

\* What a GitHub App may not say goes, unless the answer to "has anybody allowed it" is yes -
\* a fresh answer, or one up to a minute old.
allowedByAnybody == \E u \in Users : isAllowed(settings[u], e.sender)

suppressBotChatter ==
    LET all  == resolve
        kept == {p \in all : p.type \notin BOT_CHATTER_TYPES}
    IN  /\ pc = "suppress"
        /\ IF ~isGithubApp(e.sender) \/ kept = all
           THEN pokes' = all /\ UNCHANGED <<believed, read>>
           ELSE \E answer \in {IF allowedByAnybody THEN "yes" ELSE "no"} \cup ({believed} \ {"none"}) :
                  /\ believed' = answer
                  /\ pokes' = IF answer = "yes" THEN all ELSE kept
                  /\ Learn("chatter", answer)
        /\ pc' = IF pokes' = {} \/ ~e.installation THEN "done" ELSE "expand"
        /\ UNCHANGED <<e, settings, preferences, spoken, changes, found, waiting, current, step,
                       wanted, sent, dropped, counted>>

\* Teams become the people in them; one of another organisation, or one GitHub does not
\* answer about, reaches nobody and costs nobody else.
expandTeamRecipients ==
    /\ pc = "expand"
    /\ \E answered \in SUBSET (IF e.org THEN OwnTeams ELSE {}) :
          /\ pokes' = {p \in pokes : p.by # "team"} \cup
                 UNION {{toMember(p, a) : a \in TeamMembers[p.to]} :
                            p \in {p \in pokes : p.by = "team" /\ p.to \in answered}}
          /\ Learn("teams", answered)
    /\ pc' = "replies"
    /\ UNCHANGED <<world, found, waiting, current, step, wanted, sent, dropped, counted>>

\* The replies among the candidates, addressed to their thread, and who has spoken in it.
replies     == {p \in pokes : p.by = "thread"}
spokenThere == UNION {spoken[p.to] : p \in replies}

\* Mutant of resolveReplyTargets: whoever opened the thread is told as one of those in it too.
resolveReplyTargets_TwiceOver ==
    /\ pc = "replies"
    /\ \E starter \in {AuthorOf[p.to] : p \in replies} \cup {Nobody} :
          LET told == spokenThere \cup ({starter} \ {Nobody})
          IN  /\ pokes' = (pokes \ replies) \cup toEach(replies, told)
              /\ LearnThread(starter, spokenThere)
    /\ pc' = "group"
    /\ UNCHANGED <<world, found, waiting, current, step, wanted, sent, dropped, counted>>

\* Mutant of resolveReplyTargets: a thread nobody can be found in stays a candidate.
resolveReplyTargets_Unresolved ==
    /\ pc = "replies"
    /\ \E starter \in {AuthorOf[p.to] : p \in replies} \cup {Nobody} :
          LET others == spokenThere \ {starter, e.sender}
              opened == {toStarter(p, starter) : p \in replies}
              joined == toEach(replies, others)
          IN  /\ pokes' = (pokes \ (IF joined = {} THEN {} ELSE replies)) \cup joined
                            \cup (IF starter = Nobody THEN {} ELSE opened)
              /\ LearnThread(starter, others)
    /\ pc' = "group"
    /\ UNCHANGED <<world, found, waiting, current, step, wanted, sent, dropped, counted>>

\* A thread becomes whoever opened it, if that can be established, and whoever else has spoken
\* in it, without the two people who must not be among those.
resolveReplyTargets ==
    /\ pc = "replies"
    /\ \E starter \in {AuthorOf[p.to] : p \in replies} \cup {Nobody} :
          LET others == spokenThere \ {starter, e.sender}
              opened == {toStarter(p, starter) : p \in replies}
              joined == toEach(replies, others)
          IN  /\ pokes' = (pokes \ replies) \cup joined
                            \cup (IF starter = Nobody THEN {} ELSE opened)
              /\ LearnThread(starter, others)
    /\ pc' = "group"
    /\ UNCHANGED <<world, found, waiting, current, step, wanted, sent, dropped, counted>>

\* Nobody is asked to review their own pull request.
withoutAuthorReviewRequests(P) ==
    {p \in P : p.type # "review_requested" \/ e.author = Nobody \/ p.to # e.author}

\* The user a recipient resolves to: by id, or by the row that holds the handle.
readRecipient(p) ==
    IF p.by = "login" THEN HolderOf[p.to] ELSE IF p.to \in Users THEN p.to ELSE Nobody

\* Candidates are gathered under the user they reach, whichever way they reach them.  Each
\* row is read at its own moment; nobody else's row matters to what it says.
groupByUser ==
    LET asked == withoutAuthorReviewRequests(pokes)
    IN  /\ pc = "group"
        /\ pokes' = asked
        /\ waiting' = {readRecipient(p) : p \in asked} \ {Nobody}
        /\ found' = settings
        /\ pc' = IF waiting' = {} THEN "done" ELSE "loop"
        /\ UNCHANGED <<world, current, step, wanted, sent, dropped, counted, read>>

candidatesOf(u) == {p \in pokes : readRecipient(p) = u}

Drop(u, reason) ==
    /\ dropped' = [dropped EXCEPT ![u] = reason]
    /\ current' = Nobody
    /\ step' = "next"
    /\ pc' = IF waiting = {} THEN "done" ELSE "loop"
    /\ UNCHANGED <<pokes, found, waiting, sent, wanted>>

\* Mutant of takeNext: nobody's own action is kept from them.
takeNext_Anybody(u) ==
    /\ pc = "loop" /\ current = Nobody /\ u \in waiting
    /\ waiting' = waiting \ {u}
    /\ current' = u /\ step' = "preferences"
    /\ UNCHANGED <<world, pc, pokes, found, wanted, sent, dropped, counted, read>>

\* Nobody is told of their own action.
takeNext(u) ==
    /\ pc = "loop" /\ current = Nobody /\ u \in waiting
    /\ waiting' = waiting \ {u}
    /\ IF u = e.sender
       THEN /\ dropped' = [dropped EXCEPT ![u] = "self"]
            /\ pc' = IF waiting' = {} THEN "done" ELSE "loop"
            /\ UNCHANGED <<current, step>>
       ELSE /\ current' = u /\ step' = "preferences"
            /\ UNCHANGED <<dropped, pc>>
    /\ UNCHANGED <<world, pokes, found, wanted, sent, counted, read>>

\* Mutant of gates: the candidates are collapsed before they are filtered.
gates_CollapseFirst(u) ==
    LET p     == preferences[u]
        s     == found[u]
        first == {c \in candidatesOf(u) :
                    \A d \in candidatesOf(u) : comparePriority(c.type, d.type) <= 0}
        kept  == {c \in first : /\ ~isPokeTypeMuted(s, c.type)
                                /\ p # NoSubscription /\ isNotificationAllowed(p, c.type)
                                /\ botDropReason(s, c.type) = "null"}
    IN  /\ pc = "loop" /\ current = u /\ step = "preferences"
        /\ IF kept = {} THEN Drop(u, "muted") /\ UNCHANGED counted
           ELSE /\ wanted' = kept /\ step' = "access"
                /\ UNCHANGED <<pc, pokes, found, waiting, current, sent, dropped, counted>>
        /\ Learn("preferences", [read.preferences EXCEPT ![u] = p])
        /\ UNCHANGED world

\* The subscription is read, and everything up to the access check follows from it and from
\* the row as it was looked up.  What a bot was kept from saying is counted as held.
gates(u) ==
    LET p       == preferences[u]
        s       == found[u]
        allowed == {c \in candidatesOf(u) :
                      ~isPokeTypeMuted(s, c.type) /\ isNotificationAllowed(p, c.type)}
        kept    == {c \in allowed : botDropReason(s, c.type) = "null"}
        winner  == CHOOSE c \in allowed : \A d \in allowed : comparePriority(c.type, d.type) <= 0
    IN  /\ pc = "loop" /\ current = u /\ step = "preferences"
        /\ IF p = NoSubscription THEN Drop(u, "not_subscribed") /\ UNCHANGED counted
           ELSE IF allowed = {}
           THEN /\ Drop(u, IF \A c \in candidatesOf(u) : isPokeTypeMuted(s, c.type)
                           THEN "type_muted" ELSE "muted")
                /\ UNCHANGED counted
           ELSE IF kept = {}
           THEN /\ Drop(u, botDropReason(s, winner.type))
                /\ counted' = counted \cup {<<u, "held">>}
           ELSE /\ wanted' = kept
                /\ step' = "access"
                /\ UNCHANGED <<pc, pokes, found, waiting, current, sent, dropped, counted>>
        /\ Learn("preferences", [read.preferences EXCEPT ![u] = p])
        /\ UNCHANGED world

\* Mutant of maySeeRepository: a question that could not be asked is a yes.
maySeeRepository_Open(u) ==
    /\ pc = "loop" /\ current = u /\ step = "access"
    /\ \E answer \in IF e.private THEN {"yes", "no", "unknown"} ELSE {"public"} :
          /\ Learn("access", [read.access EXCEPT ![u] = answer])
          /\ IF answer # "no"
             THEN /\ step' = "submit"
                  /\ UNCHANGED <<pc, pokes, found, waiting, current, wanted, sent, dropped>>
             ELSE Drop(u, "no_repo_access")
    /\ UNCHANGED <<world, counted>>

\* Whether the reader may see the repository, asked with their own token; a question that
\* could not be answered is a no.
maySeeRepository(u) ==
    /\ pc = "loop" /\ current = u /\ step = "access"
    /\ \E answer \in IF e.private THEN {"yes", "no", "unknown"} ELSE {"public"} :
          /\ Learn("access", [read.access EXCEPT ![u] = answer])
          /\ IF answer \in {"yes", "public"}
             THEN /\ step' = "submit"
                  /\ UNCHANGED <<pc, pokes, found, waiting, current, wanted, sent, dropped>>
             ELSE Drop(u, IF answer = "no" THEN "no_repo_access" ELSE "access_unknown")
    /\ UNCHANGED <<world, counted>>

\* Mutant of submit: each of the candidates that are left is sent.
submit_Each(u) ==
    /\ pc = "loop" /\ current = u /\ step = "submit"
    /\ sent' = sent \cup {[to |-> u, type |-> c.type, via |-> c.via, starter |-> c.starter] : c \in wanted}
    /\ step' = "record"
    /\ UNCHANGED <<world, pc, pokes, found, waiting, current, wanted, dropped, counted, read>>

\* The most specific of what is left is handed to the batcher; named outright wins over named
\* as part of a team.
submit(u) ==
    /\ pc = "loop" /\ current = u /\ step = "submit"
    /\ \E c \in wanted :
          /\ \A d \in wanted : /\ comparePriority(c.type, d.type) <= 0
                               /\ (c.type = d.type /\ d.via = NoTeam) => c.via = NoTeam
          /\ sent' = sent \cup
                 {[to |-> u, type |-> c.type, via |-> c.via, starter |-> c.starter]}
    /\ step' = "record"
    /\ UNCHANGED <<world, pc, pokes, found, waiting, current, wanted, dropped, counted, read>>

\* PokeSenderStoreService.record swallows its own failures.
record(u) ==
    /\ pc = "loop" /\ current = u /\ step = "record"
    /\ counted' = counted \cup {<<u, "reached">>}
    /\ current' = Nobody
    /\ step' = "next"
    /\ pc' = IF waiting = {} THEN "done" ELSE "loop"
    /\ UNCHANGED <<world, pokes, found, waiting, wanted, sent, dropped, read>>

\* A database error ends the handler, and with it whoever the loop had not come to.
Throws ==
    /\ \/ pc \in {"suppress", "group"}
       \/ pc = "loop" /\ step \in {"preferences", "submit"}
    /\ pc' = "failed"
    /\ UNCHANGED <<world, pokes, found, waiting, current, step, wanted, sent, dropped, counted, read>>

\* Meanwhile, people change their settings and subscriptions, and threads go on.
Change ==
    /\ changes > 0
    /\ pc \notin {"done", "failed"}
    /\ changes' = changes - 1
    /\ \/ \E u \in Users, s \in SettingsChoices : settings' = [settings EXCEPT ![u] = s]
            /\ UNCHANGED <<preferences, spoken>>
       \/ \E u \in Users, p \in PreferenceChoices : preferences' = [preferences EXCEPT ![u] = p]
            /\ UNCHANGED <<settings, spoken>>
       \/ \E c \in Comments, a \in Accounts \ Apps : spoken' = [spoken EXCEPT ![c] = @ \cup {a}]
            /\ UNCHANGED <<settings, preferences>>
    /\ UNCHANGED <<e, believed, handler>>

route ==
    \/ rememberComment \/ suppressBotChatter \/ expandTeamRecipients \/ resolveReplyTargets
    \/ groupByUser
    \/ \E u \in Users : \/ takeNext(u) \/ gates(u) \/ maySeeRepository(u)
                        \/ submit(u) \/ record(u)
    \/ Throws

RoutingNext == route \/ Change

RoutingSpec == RoutingInit /\ [][RoutingNext]_routingVars

----------------------------------------------------------------------------
Candidate(by) ==
    {p \in pokes : p.by \in by /\ p.type \in NotificationType /\ p.via \in Teams \cup {NoTeam}}

\* Every variable has its type; once teams and threads are resolved, candidates are people.
RoutingTypeOK ==
    /\ pc \in {"remember", "suppress", "expand", "replies", "group", "loop", "done", "failed"}
    /\ step \in {"next", "preferences", "access", "submit", "record"}
    /\ pokes = Candidate({"id", "login", "team", "thread"})
    /\ pc \in {"group", "loop"} => pokes = Candidate({"id", "login"})
    /\ settings \in [Users -> SettingsChoices] /\ found \in [Users -> SettingsChoices]
    /\ preferences \in [Users -> PreferenceChoices]
    /\ spoken \in [Comments -> SUBSET Accounts]
    /\ believed \in {"none", "yes", "no"}
    /\ waiting \subseteq Users /\ current \in Users \cup {Nobody} /\ current \notin waiting
    /\ (current = Nobody) = (step = "next")
    /\ sent \subseteq [to: Users, type: NotificationType, via: Teams \cup {NoTeam}, starter: BOOLEAN]
    /\ counted \subseteq Users \X {"reached", "held"}
    /\ wanted \subseteq pokes

\* What an event has to do with somebody, said person by person rather than candidate by
\* candidate; teams and threads are whatever GitHub and memory answered.
NamedIn(u) ==
    \/ \E login \in e.logins : HolderOf[login] = u
    \/ \E team \in e.teams \cap read.teams : u \in TeamMembers[team]

Concerns(u, type) ==
    LET is(event, action) == e.event = event /\ e.action = action
        reviewComment == is("pull_request_review_comment", "created")
        onPullRequest == is("issue_comment", "created") /\ e.isPullRequest
        onIssue       == is("issue_comment", "created") /\ ~e.isPullRequest
    IN  \/ /\ type = "review_requested" /\ is("pull_request", "review_requested") /\ u # e.author
           /\ \/ u = e.reviewer
              \/ e.reviewTeam \in read.teams /\ u \in TeamMembers[e.reviewTeam]
        \/ type = "pull_request_merged" /\ is("pull_request", "closed") /\ e.merged /\ u = e.author
        \/ type = "auto_merge_enabled" /\ is("pull_request", "auto_merge_enabled") /\ u = e.author
        \/ type = "review_submitted" /\ is("pull_request_review", "submitted") /\ u = e.author
        \/ /\ type = "comment_reply" /\ reviewComment
           /\ u = read.starter \/ u \in read.thread
        \/ /\ type = "pull_request_comment" /\ u = e.author
           /\ reviewComment \/ onPullRequest
        \/ type = "issue_comment" /\ onIssue /\ u = e.author
        \/ /\ type = "pull_request_mention" /\ NamedIn(u)
           /\ \/ is("pull_request", "opened") \/ is("pull_request_review", "submitted")
              \/ reviewComment \/ onPullRequest
        \/ /\ type = "issue_mention" /\ NamedIn(u)
           /\ is("issues", "opened") \/ onIssue

\* Whether somebody, by what they had chosen when the handler asked, hears of a kind of event.
Listens(u, type) ==
    LET p == read.preferences[u]
    IN  /\ type \notin found[u].mutedTypes
        /\ p # NoSubscription
        /\ p.repository # "off"
        /\ p.repository = "none" => p.scope = "all" /\ type \in p.types
        /\ p.repository = "on" => type \in p.types
        /\ p.repository = "on_narrowed" => type \in p.repositoryTypes

\* Whether an account is a machine to somebody: their own word first, then GitHub's, then its
\* name.
MachineTo(u, account) ==
    LET s == found[u]
    IN  IF s.botMode = "none" /\ account \in s.allowedBots THEN FALSE
        ELSE IF s.botMode = "all" /\ account \in s.blockedBots THEN TRUE
        ELSE account \in Apps \cup BotNamed

\* A machine may not talk to anybody; what it does reaches those who let machines act and have
\* not blocked it, and a review request reaches them too when a person's work is behind it.
MayActOn(u, type) ==
    LET s == found[u]
    IN  \/ ~MachineTo(u, e.sender)
        \/ /\ type \notin BOT_CHATTER_TYPES
           /\ \/ s.botMode = "all" /\ e.sender \notin s.blockedBots
              \/ type = "review_requested" /\ ~(e.author # Nobody /\ MachineTo(u, e.author))

Due(u) ==
    {type \in NotificationType :
        /\ Concerns(u, type) /\ Listens(u, type) /\ MayActOn(u, type)
        /\ read.chatter = "yes" \/ type \notin BOT_CHATTER_TYPES}

\* One webhook is one poke to a person, however many candidates they are behind.
OnePokeEach == \A p, q \in sent : p.to = q.to => p = q

\* Whoever is poked did not do it themselves, may see the repository, and hears of the most
\* specific of what they were due and of nothing else, however many ways the event reached them
\* and whatever was muted or a machine's among those.
NothingUnasked ==
    /\ OnePokeEach
    /\ \A p \in sent :
          /\ p.to # e.sender
          /\ e.private => read.access[p.to] = "yes"
          /\ p.type \in Due(p.to)
          /\ \A type \in Due(p.to) : comparePriority(p.type, type) <= 0

\* A handler that comes to its end has poked everybody who was due something and may see it:
\* no mute, no machine and no other recipient takes a poke down that it was not about.
NothingLost ==
    pc = "done" /\ e.installation =>
        \A u \in Users \ {e.sender} :
            Due(u) # {} /\ read.access[u] \notin {"no", "unknown"} => \E p \in sent : p.to = u

\* Whoever opened a thread is told they were replied to, everybody else in it that it moved
\* on, and nobody is told both or either of their own reply.
ThreadToldOnce ==
    pc \in {"group", "loop"} =>
        LET told == {p \in pokes : p.type = "comment_reply"}
        IN  /\ \A p, q \in told : p.to = q.to => p = q
            /\ \A p \in told : p.to = e.sender => p.starter

\* The sender counts agree with the pokes, of a loop that was ended by a throw too: an account is counted
\* as having reached exactly whom it poked, and as held back exactly where being a machine is what
\* the poke was lost for; whoever the loop had not come to is neither.
CountsAgree ==
    pc \in {"done", "failed"} =>
        \A u \in Users :
            /\ <<u, "reached">> \in counted <=> \E p \in sent : p.to = u
            /\ <<u, "held">> \in counted <=>
                  /\ u # e.sender /\ MachineTo(u, e.sender)
                  /\ \E p \in pokes : readRecipient(p) = u /\ Listens(u, p.type)
                  /\ \A p \in pokes :
                        readRecipient(p) = u /\ Listens(u, p.type) => ~MayActOn(u, p.type)

\* Whoever is due a poke hears of it, once, in the voice they are due it in, and the panel is told of
\* it as it was: nothing lost, no thread told twice, no count that disagrees (the end of route; the
\* counts also where a throw has ended the loop).
DueHearOnce == RoutingTypeOK /\ NothingLost /\ ThreadToldOnce /\ CountsAgree
============================================================================
