-------------------------- MODULE SlackConnection --------------------------
(***************************************************************************)
(* Where pokes go in Slack: each user's links (who they are in a workspace)     *)
(* and each workspace's row (the token allowed to message people there).  Three  *)
(* kinds of job read and write them, a step per await: an authorization that       *)
(* comes back (SlackService.connect), a delivery (send) and one of Slack's events.  *)
(*                                                                           *)
(* Of a link's updatedAt only the order matters, which is readForUser's, so a    *)
(* user's links are kept as that order.                                           *)
(***************************************************************************)
EXTENDS Integers, FiniteSets

CONSTANTS
    Users, Teams,
    Nobody, Nowhere,
    Connects,      \* authorizations that may be under way at once
    Deliveries,    \* deliveries that may be under way at once
    Budgets,       \* how many authorizations, and how many changes in Slack, failures,
                   \* restarts and disconnections, one behaviour may have
    Faults         \* what may happen: "crash", "slack"

ASSUME BudgetsAssumption == Budgets \subseteq [connects : Nat, changes : Nat]
ASSUME NobodyAssumption == Nobody \notin Users /\ Nowhere \notin Teams
ASSUME FaultsAssumption == Faults \subseteq {"crash", "slack"}
ASSUME TeamsAssumption == IsFiniteSet(Teams)

Jobs == Connects \cup Deliveries
None == 0

VARIABLES
    recent,      \* each user's links, by workspace: <<s, t>> where that to s was written no
                 \* earlier than that to t
    link,        \* what the links say: the person's Slack id, and the cached DM channel
    row,         \* each workspace's row: its token, None where there is no row, and whether revoked
    job,         \* the jobs under way
    handling,    \* workspaces whose event is between its two writes
    live,        \* the token Slack accepts for each workspace, None where proke is not installed
    issued,      \* the last token each workspace was issued
    who,         \* each person's id in each workspace, None while they are not in it
    ids,         \* the last id each person was given there
    channel,     \* their DM channel with proke there
    events,      \* Slack's events on their way
    budget,      \* what is left of it
    died, left,  \* workspaces ever uninstalled, people who ever left one
    torn         \* users whom a restart caught between upsert's two writes

store   == <<recent, link, row>>
slack   == <<live, issued, who, ids, channel, events>>
history == <<died, left, torn>>
slackVars    == <<store, job, handling, slack, budget, history>>

Idle == [at |-> "idle", user |-> Nobody, team |-> Nowhere, id |-> None, token |-> None, dm |-> None]
Unlinked == [id |-> None, dm |-> None]

Linked(u, t) == <<t, t>> \in recent[u]
links(u) == {t \in Teams : Linked(u, t)}

\* readForUser: where a user's pokes go.
destination(u) ==
    IF links(u) = {} THEN Nowhere
    ELSE CHOOSE t \in links(u) : \A s \in links(u) : <<t, s>> \in recent[u]

\* Of a user's links, those to the teams in kept.
among(u, kept) == {p \in recent[u] : p[1] \in kept /\ p[2] \in kept}

\* A write to a link makes it the most recently written.
touched(u, t) ==
    LET others == links(u) \ {t}
    IN  [recent EXCEPT ![u] = among(u, others) \cup ({t} \X (others \cup {t}))]

writes(u, t, id, dm) == link' = [link EXCEPT ![u] = [@ EXCEPT ![t] = [id |-> id, dm |-> dm]]]

SlackInit ==
    /\ \E home \in [Users -> Teams \cup {Nowhere}], installed \in SUBSET Teams :
          /\ recent = [u \in Users |-> IF home[u] = Nowhere THEN {} ELSE {<<home[u], home[u]>>}]
          /\ link = [u \in Users |-> [t \in Teams |->
                       IF home[u] = t THEN [id |-> 1, dm |-> None] ELSE Unlinked]]
          /\ live = [t \in Teams |-> IF t \in installed THEN 1 ELSE None]
    /\ issued = live
    /\ row = [t \in Teams |-> [token |-> live[t], revoked |-> FALSE]]
    /\ job = [j \in Jobs |-> Idle]
    /\ who = [u \in Users |-> [t \in Teams |-> 1]]
    /\ ids = who /\ channel = who
    /\ handling = {} /\ events = {} /\ budget \in Budgets /\ died = {} /\ left = {} /\ torn = {}

----------------------------------------------------------------------------
\* An authorization comes back: Slack knows the person there, and where they were asked to add
\* proke, it hands over the token it accepts from now on.
authorize(c, u, t, adds) ==
    /\ job[c].at = "idle" /\ budget.connects > 0 /\ who[u][t] # None
    /\ budget' = [budget EXCEPT !.connects = @ - 1]
    /\ issued' = IF adds /\ live[t] = None THEN [issued EXCEPT ![t] = @ + 1] ELSE issued
    /\ live' = IF adds THEN [live EXCEPT ![t] = issued'[t]] ELSE live
    /\ job' = [job EXCEPT ![c] = [Idle EXCEPT !.at = IF adds THEN "install" ELSE "upsert",
                  !.user = u, !.team = t, !.id = who[u][t], !.token = IF adds THEN live'[t] ELSE None]]
    /\ UNCHANGED <<store, handling, who, ids, channel, events, history>>

spend       == budget.changes > 0 /\ budget' = [budget EXCEPT !.changes = @ - 1]
goes(j, at) == job' = [job EXCEPT ![j] = [@ EXCEPT !.at = at]]
ends(j)     == job' = [job EXCEPT ![j] = Idle]
rest        == UNCHANGED <<handling, slack, budget, died, left>>
quiet       == rest /\ UNCHANGED torn

install(c) ==
    /\ job[c].at = "install"
    /\ row' = [row EXCEPT ![job[c].team] = [token |-> job[c].token, revoked |-> FALSE]]
    /\ goes(c, "upsert")
    /\ quiet /\ UNCHANGED <<recent, link>>

\* link: Slack says who authorized neither on the way back nor when asked.  An installation stays.
unidentified(c) ==
    /\ job[c].at = "upsert" /\ "slack" \in Faults
    /\ ends(c)
    /\ quiet /\ UNCHANGED store

upsert(c) ==
    LET u == job[c].user
        t == job[c].team
    IN  /\ job[c].at = "upsert"
        /\ writes(u, t, job[c].id, link[u][t].dm)
        /\ recent' = touched(u, t)
        /\ goes(c, "drop")
        /\ quiet /\ UNCHANGED row

\* Mutant of dropOthers: a second workspace is added, and the first stays.
dropOthers_Keeps(c) ==
    /\ job[c].at = "drop"
    /\ goes(c, "status")
    /\ quiet /\ UNCHANGED store

\* The second write of SlackLinkWriteService.upsert.
dropOthers(c) ==
    LET u == job[c].user
        t == job[c].team
    IN  /\ job[c].at = "drop"
        /\ link' = [link EXCEPT ![u] = [s \in Teams |-> IF s = t THEN @[s] ELSE Unlinked]]
        /\ recent' = [recent EXCEPT ![u] = among(u, {t})]
        /\ torn' = torn \ {u}
        /\ goes(c, "status")
        /\ rest /\ UNCHANGED row

\* readConnection, whose answer decides on the welcome: the link, then its workspace.
readConnection(c) ==
    LET t == destination(job[c].user)
    IN  /\ job[c].at = "status"
        /\ IF t = Nowhere THEN ends(c)
           ELSE job' = [job EXCEPT ![c] = [@ EXCEPT !.at = "workspace", !.team = t]]
        /\ quiet /\ UNCHANGED store

sendWelcomePoke(c) ==
    /\ job[c].at = "workspace"
    /\ IF row[job[c].team].token = None \/ row[job[c].team].revoked THEN ends(c) ELSE goes(c, "link")
    /\ quiet /\ UNCHANGED store

connectStep(c) ==
    install(c) \/ unidentified(c) \/ upsert(c) \/ dropOthers(c) \/ readConnection(c) \/ sendWelcomePoke(c)

----------------------------------------------------------------------------
deliver(d, u) ==
    /\ job[d].at = "idle"
    /\ job' = [job EXCEPT ![d] = [Idle EXCEPT !.at = "link", !.user = u]]
    /\ quiet /\ UNCHANGED store

readForUser(j) ==
    LET u == job[j].user
        t == destination(u)
    IN  /\ job[j].at = "link"
        /\ IF t = Nowhere THEN ends(j)
           ELSE job' = [job EXCEPT ![j] = [@ EXCEPT !.at = "token", !.team = t,
                                              !.id = link[u][t].id, !.dm = link[u][t].dm]]
        /\ quiet /\ UNCHANGED store

readLiveWithToken(j) ==
    LET w == row[job[j].team]
    IN  /\ job[j].at = "token"
        /\ IF w.token = None \/ w.revoked THEN ends(j)
           ELSE job' = [job EXCEPT ![j] = [@ EXCEPT !.token = w.token,
                                              !.at = IF job[j].dm = None THEN "open" ELSE "cached"]]
        /\ quiet /\ UNCHANGED store

\* What Slack makes of a call: the token is dead, the person is gone, or the channel is.
accepts(j) == job[j].token = live[job[j].team]
knows(j)   == job[j].id = who[job[j].user][job[j].team]
open(j)    == job[j].dm = channel[job[j].user][job[j].team]

refused(j) ==
    \/ ~accepts(j) /\ goes(j, "revoke")
    \/ accepts(j) /\ ~knows(j) /\ goes(j, "unlink")

\* A call fails in a way that says nothing of either.
fails(j) ==
    /\ "slack" \in Faults /\ spend
    /\ job[j].at \in {"cached", "open", "post"}
    /\ ends(j)
    /\ UNCHANGED <<store, handling, slack, history>>

\* The cached channel: of somebody who is gone, Slack may as well say that the channel is.
postCached(j) ==
    /\ job[j].at = "cached"
    /\ \/ refused(j)
       \/ accepts(j) /\ ~(knows(j) /\ open(j)) /\ goes(j, "clear")
       \/ accepts(j) /\ knows(j) /\ open(j) /\ ends(j)
    /\ quiet /\ UNCHANGED store

clearDmChannel(j) ==
    LET u == job[j].user
        t == job[j].team
    IN  /\ job[j].at = "clear"
        /\ IF Linked(u, t) THEN writes(u, t, link[u][t].id, None) /\ recent' = touched(u, t)
           ELSE UNCHANGED <<link, recent>>
        /\ goes(j, "open")
        /\ quiet /\ UNCHANGED row

openDirectMessage(j) ==
    /\ job[j].at = "open"
    /\ \/ refused(j)
       \/ accepts(j) /\ knows(j)
          /\ job' = [job EXCEPT ![j] = [@ EXCEPT !.at = "post",
                                                 !.dm = channel[job[j].user][job[j].team]]]
    /\ quiet /\ UNCHANGED store

postOpened(j) ==
    /\ job[j].at = "post"
    /\ \/ refused(j)
       \/ accepts(j) /\ ~open(j) /\ ends(j)
       \/ accepts(j) /\ knows(j) /\ open(j) /\ goes(j, "cache")
    /\ quiet /\ UNCHANGED store

\* Mutant of cacheDmChannel: the channel is not kept.
cacheDmChannel_Forgets(j) ==
    /\ job[j].at = "cache"
    /\ ends(j)
    /\ quiet /\ UNCHANGED store

cacheDmChannel(j) ==
    LET u == job[j].user
        t == job[j].team
    IN  /\ job[j].at = "cache"
        /\ IF Linked(u, t) THEN writes(u, t, link[u][t].id, job[j].dm) /\ recent' = touched(u, t)
           ELSE UNCHANGED <<link, recent>>
        /\ ends(j)
        /\ quiet /\ UNCHANGED row

revokedRow(t) == IF row[t].token = None THEN row ELSE [row EXCEPT ![t] = [@ EXCEPT !.revoked = TRUE]]

\* Mutant of markRevoked: the refusal is logged, and not written back.
markRevoked_LogsOnly(j) ==
    /\ job[j].at = "revoke"
    /\ ends(j)
    /\ quiet /\ UNCHANGED store

\* handleFailure: the refusal is written back.
markRevoked(j) ==
    /\ job[j].at = "revoke"
    /\ row' = revokedRow(job[j].team)
    /\ ends(j)
    /\ quiet /\ UNCHANGED <<recent, link>>

\* The links in gone are deleted.
unlinks(gone) ==
    /\ link' = [u \in Users |-> [t \in Teams |-> IF <<u, t>> \in gone THEN Unlinked ELSE link[u][t]]]
    /\ recent' = [u \in Users |-> among(u, {t \in Teams : <<u, t>> \notin gone})]

\* Mutant of deleteLink: everything the person was linked to goes.
deleteLink_User(j) ==
    /\ job[j].at = "unlink"
    /\ unlinks({job[j].user} \X Teams)
    /\ ends(j)
    /\ quiet /\ UNCHANGED row

deleteLink(j) ==
    /\ job[j].at = "unlink"
    /\ unlinks({<<job[j].user, job[j].team>>})
    /\ ends(j)
    /\ quiet /\ UNCHANGED row

sendStep(j) ==
    \/ readForUser(j) \/ readLiveWithToken(j)
    \/ postCached(j) \/ clearDmChannel(j) \/ openDirectMessage(j) \/ postOpened(j) \/ cacheDmChannel(j)
    \/ markRevoked(j) \/ deleteLink(j)

----------------------------------------------------------------------------
\* Mutant of isWorkspaceGone: any revoked token is the workspace's end.
isWorkspaceGone_Any(e) == TRUE

\* tokens_revoked counts only where the bot's is among them.
isWorkspaceGone(e) == e.tokens = "bot"

handle(e) ==
    /\ e \in events
    /\ events' = events \ {e}
    /\ IF isWorkspaceGone(e)
       THEN row' = revokedRow(e.team) /\ handling' = handling \cup {e.team}
       ELSE UNCHANGED <<row, handling>>
    /\ UNCHANGED <<recent, link, job, live, issued, who, ids, channel, budget, history>>

deleteForTeam(t) ==
    /\ t \in handling
    /\ handling' = handling \ {t}
    /\ unlinks(Users \X {t})
    /\ UNCHANGED <<row, job, slack, budget, died, left, torn>>

disconnect(u) ==
    /\ links(u) # {} /\ spend
    /\ unlinks({u} \X Teams)
    /\ UNCHANGED <<row, job, handling, slack, died, left, torn>>

\* The process is replaced: what it had under way is gone.
Replaced ==
    /\ "crash" \in Faults /\ spend
    /\ job' = [j \in Jobs |-> Idle]
    /\ handling' = {}
    /\ torn' = torn \cup {job[c].user : c \in {k \in Connects : job[k].at = "drop"}}
    /\ UNCHANGED <<store, slack, died, left>>

\* Slack's side: proke is uninstalled, a member's token dies, somebody leaves or comes back under
\* another id, a DM channel is replaced.
Slack ==
    /\ spend
    /\ \/ \E t \in Teams :
             \/ /\ live[t] # None
                /\ live' = [live EXCEPT ![t] = None]
                /\ events' = events \cup {[team |-> t, tokens |-> "bot"]}
                /\ died' = died \cup {t}
                /\ UNCHANGED <<who, ids, channel, left>>
             \/ /\ events' = events \cup {[team |-> t, tokens |-> "user"]}
                /\ UNCHANGED <<live, who, ids, channel, died, left>>
       \/ \E u \in Users, t \in Teams :
             \/ /\ IF who[u][t] = None
                   THEN /\ ids' = [ids EXCEPT ![u] = [@ EXCEPT ![t] = ids[u][t] + 1]]
                        /\ who' = [who EXCEPT ![u] = [@ EXCEPT ![t] = ids[u][t] + 1]]
                   ELSE who' = [who EXCEPT ![u] = [@ EXCEPT ![t] = None]] /\ UNCHANGED ids
                /\ left' = left \cup {<<u, t>>}
                /\ UNCHANGED <<live, channel, events, died>>
             \/ /\ channel' = [channel EXCEPT ![u] = [@ EXCEPT ![t] = channel[u][t] + 1]]
                /\ UNCHANGED <<live, who, ids, events, died, left>>
    /\ UNCHANGED <<store, job, handling, issued, torn>>

SlackNext ==
    \/ \E c \in Connects : \/ \E u \in Users, t \in Teams, adds \in BOOLEAN : authorize(c, u, t, adds)
                           \/ connectStep(c)
    \/ \E d \in Deliveries, u \in Users : deliver(d, u)
    \/ \E j \in Jobs : sendStep(j) \/ fails(j)
    \/ \E e \in events : handle(e)
    \/ \E t \in Teams : deleteForTeam(t)
    \/ \E u \in Users : disconnect(u)
    \/ Replaced
    \/ Slack

SlackSpec == SlackInit /\ [][SlackNext]_slackVars

\* What has begun goes on, Slack's events arrive, and pokes keep coming for everybody.
SlackFairSpec ==
    /\ SlackSpec
    /\ \A c \in Connects : WF_slackVars(connectStep(c))
    /\ \A j \in Jobs : WF_slackVars(sendStep(j))
    /\ \A t \in Teams : WF_slackVars(deleteForTeam(t))
    /\ WF_slackVars(\E e \in events : handle(e))
    /\ \A u \in Users : WF_slackVars(\E d \in Deliveries : deliver(d, u))

----------------------------------------------------------------------------
\* Every variable has its type, and a link's fields are there exactly where the link is.
LinksTyped ==
    /\ recent \in [Users -> SUBSET (Teams \X Teams)]
    /\ \A u \in Users, t \in Teams : Linked(u, t) <=> link[u][t].id # None
    /\ link \in [Users -> [Teams -> [id : Nat, dm : Nat]]]
    /\ row \in [Teams -> [token : Nat, revoked : BOOLEAN]]
    /\ DOMAIN job = Jobs
    /\ \A j \in Jobs : /\ job[j].user \in Users \cup {Nobody}
                       /\ job[j].team \in Teams \cup {Nowhere}
                       /\ job[j].at = "idle" <=> job[j].user = Nobody
    /\ handling \subseteq Teams
    /\ live \in [Teams -> Nat] /\ \A t \in Teams : live[t] \in {None, issued[t]}
    /\ who \in [Users -> [Teams -> Nat]] /\ ids \in [Users -> [Teams -> Nat]]
    /\ channel \in [Users -> [Teams -> Nat]]
    /\ events \subseteq [team : Teams, tokens : {"bot", "user"}]

\* Of any two links of a user's it can be told which was written later.
Ordered ==
    \A u \in Users :
        /\ \A p \in recent[u] : Linked(u, p[1]) /\ Linked(u, p[2])
        /\ \A s, t \in links(u) : <<s, t>> \in recent[u] \/ <<t, s>> \in recent[u]
        /\ \A s, t \in links(u) : <<s, t>> \in recent[u] /\ <<t, s>> \in recent[u] => s = t
        /\ \A r, s, t \in links(u) : <<r, s>> \in recent[u] /\ <<s, t>> \in recent[u] => <<r, t>> \in recent[u]

\* slack-link-write.service.ts:21-23: the dashboard offers one Slack destination, so a second
\* authorization moves the pokes rather than sending two of everything: once a user's
\* authorizations are through, one link at most is left, whatever else was writing links.  (A
\* restart between the two writes leaves two, until the next authorization.)
OneDestination ==
    \A u \in Users \ torn :
        (\A c \in Connects : job[c].user = u => job[c].at \notin {"upsert", "drop"}) =>
            \A s, t \in links(u) : s = t

\* Links and workspaces are well formed, and pokes go to one place (create, dropOthers).
LinksStandAlone == LinksTyped /\ Ordered /\ OneDestination

\* slack-events.controller.ts:108-118: one deactivated account once disconnected all of their
\* colleagues: a workspace is taken for gone only if Slack did end it, and a link goes only with
\* its workspace, with a person who left, or by its owner's own act.
RevokedOnlyIfDied == \A t \in Teams : row[t].revoked => t \in died

UnlinkedWithCause ==
    \A u \in Users, t \in Teams :
       Linked(u, t) /\ ~Linked(u, t)'
          => \/ t \in died \/ <<u, t>> \in left
             \/ disconnect(u)
             \/ \E c \in Connects : job[c].user = u /\ job[c].team # t /\ dropOthers(c)

KeptUnless == [][RevokedOnlyIfDied' /\ UnlinkedWithCause]_slackVars

\* slack-notification-delivery.service.ts:92-93: refusals are written back, or "a revoked token or a
\* departed user would otherwise be rediscovered on every single event, forever".  While pokes keep
\* coming, everybody's destination ends up one that nothing is tried at, or one where a single call
\* lands.
Settles ==
    <>[](\A u \in Users :
            LET t == destination(u) IN
            \/ t = Nowhere \/ row[t].token = None \/ row[t].revoked
            \/ row[t].token = live[t] /\ link[u][t] = [id |-> who[u][t], dm |-> channel[u][t]])

============================================================================
