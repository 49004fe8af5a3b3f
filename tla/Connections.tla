---------------------------- MODULE Connections ----------------------------
(***************************************************************************)
(* Listening to an account on GitHub: ConnectionsService answering the page's    *)
(* requests a step per await, the installation webhooks it races with, and the    *)
(* page (connectionsLogic) that shows a click before the server has confirmed it.  *)
(*                                                                           *)
(* One installation is modelled, since nothing here relates two of them.  What      *)
(* GitHub says about it is a number that grows with each change, and the account      *)
(* is suspended while that number is odd.  GitHub gives no id a second time.          *)
(***************************************************************************)
EXTENDS Integers, FiniteSets

CONSTANTS
    Users,
    Owner,         \* whoever owns the account it is installed on
    Slots,         \* requests one page may have under way at once
    ConnectionWorlds \* what may happen: which requests, how many, how many changes, which faults

Asks     == {"load", "on", "off", "narrow", "remove"}
Accounts == {"Organization", "User"}

ASSUME OwnerAssumption  == Owner \in Users
ASSUME SlotsAssumption  == IsFiniteSet(Slots)
ASSUME ConnectionWorldsAssumption ==
    ConnectionWorlds \subseteq [account : Accounts, slots : SUBSET Slots, asks : SUBSET Asks,
                      turns : Nat, edits : Nat,
                      faults : SUBSET {"github", "break", "lost", "revoked"}]

Absent   == -1
Deleted == -2

VARIABLES
    connectionWorld, \* what may still happen
    phase, details,   \* the installation at GitHub: absent, live or gone, and what GitHub says of it
    sees, everSaw,  \* who may see it there, and who ever might
    authorized,     \* whose token GitHub accepts
    token,          \* who has one on file
    mirror,         \* the installations row: the details it was written with, Absent where there is none
    subs,           \* the subscriptions: "none", "all" as on insert, or "chosen"
    events,         \* installation webhooks on their way: Deleted, or the details they carry
    clearing,       \* whether a deletion's handler is between its two writes
    call,           \* the requests under way
    page,           \* the last list each page was answered: the row, and what its viewer is to it
    pretend,        \* the status the row is shown as before the server has confirmed it
    latest,         \* connectionsLogic's latestToggle
    removers,       \* by whom proke was made to uninstall the app
    tooLate,        \* what was written once the installation was gone: users' opt-ins, the mirror
    heard           \* whether a deletion has been carried through, by its webhook or by proke

github  == <<phase, details, sees, everSaw, authorized, events>>
mongo   == <<token, mirror, subs>>
browser == <<page, pretend, latest>>
history == <<removers, tooLate, heard>>
connectionsVars    == <<connectionWorld, github, mongo, clearing, call, browser, history>>

Statuses == {"unlisted", "available", "subscribed", "suspended"}
Roles    == {"unknown", "owner", "member"}
Row      == [status : Statuses, role : Roles]
Opts     == {"none", "all", "chosen"}
Seen     == {Absent} \cup Nat

Asked(op, at, click, after) == [op |-> op, at |-> at, click |-> click, after |-> after,
                                live |-> Absent, row |-> Absent, opt |-> "none"]
Idle    == Asked("none", "idle", 0, "none")
BlankRow   == [status |-> "unlisted", role |-> "unknown"]
Wanted(op) == IF op = "on" THEN "subscribed" ELSE "available"

ConnectionsInit ==
    /\ connectionWorld \in ConnectionWorlds
    /\ phase = "absent" /\ details = 0 /\ sees = {} /\ everSaw = {} /\ events = {}
    /\ authorized = Users /\ token = Users
    /\ mirror = Absent /\ subs = [u \in Users |-> "none"] /\ clearing = FALSE
    /\ call = [u \in Users |-> [s \in Slots |-> Idle]]
    /\ page = [u \in Users |-> BlankRow] /\ pretend = [u \in Users |-> "none"]
    /\ latest = [u \in Users |-> 0]
    /\ removers = {} /\ tooLate = {} /\ heard = FALSE

Befalls(f)         == f \in connectionWorld.faults
goes(u, s, at)   == call' = [call EXCEPT ![u][s].at = at]
At(u, s, op, at) == call[u][s].op = op /\ call[u][s].at = at
serving          == UNCHANGED <<connectionWorld, github, clearing, browser>>
reading          == serving /\ UNCHANGED <<mongo, history>>

----------------------------------------------------------------------------
\* The page.

\* OrganisationsPanel: whether there is a row at all.
listed(u) == page[u].status # "unlisted"

\* connections: the row as it is drawn.
shown(u) == IF pretend[u] # "none" /\ listed(u) THEN pretend[u] ELSE page[u].status

asks(u, s, op) ==
    /\ s \in connectionWorld.slots /\ op \in connectionWorld.asks /\ connectionWorld.turns > 0
    /\ call[u][s].at = "idle"
    /\ connectionWorld' = [connectionWorld EXCEPT !.turns = @ - 1]

loadConnections(u, s) ==
    /\ asks(u, s, "load")
    /\ call' = [call EXCEPT ![u][s] = Asked("load", "read", 0, "none")]
    /\ UNCHANGED <<github, mongo, clearing, browser, history>>

\* isPending: a removal is under way, so the row's buttons are not to be pressed.
pending(u) == \E s \in Slots : "remove" \in {call[u][s].op, call[u][s].after}

\* ConnectionRow: the button offers the opposite of what the row shows, and a suspended account
\* has none.
offers(u) ==
    IF pending(u) THEN {}
    ELSE CASE shown(u) = "subscribed" -> {"off", "remove"}
           [] shown(u) = "available" -> {"on", "remove"}
           [] shown(u) = "suspended" -> {"remove"}
           [] OTHER -> {}

\* toggle, up to the write.
toggle(u, s) ==
    \E op \in offers(u) \ {"remove"} :
        /\ asks(u, s, op)
        /\ latest' = [latest EXCEPT ![u] = @ + 1]
        /\ pretend' = [pretend EXCEPT ![u] = Wanted(op)]
        /\ call' = [call EXCEPT ![u][s] =
                       Asked(op, IF op = "on" THEN "read" ELSE "delete", latest'[u], "none")]
        /\ UNCHANGED <<github, mongo, clearing, page, history>>

uninstall(u, s) ==
    /\ "remove" \in offers(u) /\ asks(u, s, "remove")
    /\ call' = [call EXCEPT ![u][s] = Asked("remove", "read", 0, "none")]
    /\ UNCHANGED <<github, mongo, clearing, browser, history>>

\* The write has landed: fetch first, forget second.
fetches(u, s) ==
    /\ call[u][s].at = "ok" /\ call[u][s].op \in {"on", "off", "remove"}
    /\ call' = [call EXCEPT ![u][s] = Asked("load", "read", call[u][s].click, call[u][s].op)]
    /\ reading

\* Mutant of handsBack: the pretence is dropped once the list was asked for, whatever it answered.
handsBack_Always(u, s, status) == call[u][s].after \in {"on", "off"}

\* toggle, after the fetch: the latest click's pretence goes once the list agrees with it.
handsBack(u, s, status) ==
    /\ call[u][s].after \in {"on", "off"} /\ call[u][s].click = latest[u]
    /\ status \in {"unlisted", Wanted(call[u][s].after)}

settles(u, s, row) ==
    /\ page' = [page EXCEPT ![u] = row]
    /\ pretend' = IF handsBack(u, s, row.status) THEN [pretend EXCEPT ![u] = "none"] ELSE pretend
    /\ call' = [call EXCEPT ![u][s] = Idle]
    /\ UNCHANGED <<connectionWorld, github, mongo, clearing, latest, history>>

\* Mutant of statusOf: a suspended account that was opted in to reads as listened to.
statusOf_OptIn(r) ==
    IF r.live = Absent THEN "unlisted"
    ELSE IF r.opt # "none" THEN "subscribed"
    ELSE IF r.row % 2 = 1 THEN "suspended" ELSE "available"

\* readForUser's answer: the mirror wins where it has a row.
statusOf(r) ==
    LET resolved == IF r.row = Absent THEN r.live ELSE r.row
    IN  IF r.live = Absent THEN "unlisted"
        ELSE IF resolved % 2 = 1 THEN "suspended"
        ELSE IF r.opt # "none" THEN "subscribed" ELSE "available"

\* ownsPersonalAccount, by account id.
ownsPersonalAccount(u) == u = Owner

\* GithubOrgMembershipDataService.readRole: null where GitHub does not say.
readRole(u) == {IF u = Owner THEN "admin" ELSE "member"} \cup (IF Befalls("github") THEN {"null"} ELSE {})

\* Mutant of readViewerRole: an unknown standing reads as an owner's.
readViewerRole_Guesses(u) ==
    IF connectionWorld.account = "Organization"
    THEN {IF role = "member" THEN "member" ELSE "owner" : role \in readRole(u)}
    ELSE {IF ownsPersonalAccount(u) THEN "owner" ELSE "member"}

\* The label on the row: the membership of an organisation, or whose account it is.
readViewerRole(u) ==
    IF connectionWorld.account = "Organization"
    THEN {CASE role = "admin" -> "owner" [] role = "member" -> "member" [] OTHER -> "unknown" :
             role \in readRole(u)}
    ELSE {IF ownsPersonalAccount(u) THEN "owner" ELSE "member"}

\* The label and the repositories are asked for together, and either's failure costs the row both.
readViewerAccess(u) == readViewerRole(u) \cup (IF Befalls("github") THEN {"unknown"} ELSE {})

loaded(u, s) ==
    /\ At(u, s, "load", "answer")
    /\ \E role \in readViewerAccess(u) :
          LET status == statusOf(call[u][s])
          IN  settles(u, s, IF status = "unlisted" THEN BlankRow ELSE [status |-> status, role |-> role])

\* The load failed: the list before it stays.
loadFailed(u, s) == At(u, s, "load", "no") /\ settles(u, s, page[u])

\* A write failed.  Only the latest click's pretence is undone.
writeFailed(u, s) ==
    /\ call[u][s].at = "no" /\ call[u][s].op # "load"
    /\ pretend' = IF call[u][s].op \in {"on", "off"} /\ call[u][s].click = latest[u]
                  THEN [pretend EXCEPT ![u] = "none"] ELSE pretend
    /\ call' = [call EXCEPT ![u][s] = Idle]
    /\ UNCHANGED <<connectionWorld, github, mongo, clearing, page, latest, history>>

browse(u, s) ==
    \/ fetches(u, s) \/ loaded(u, s) \/ loadFailed(u, s) \/ writeFailed(u, s)

----------------------------------------------------------------------------
\* The server.

\* readByIdOrThrow: without a token on file the list is empty, and a write refused.
readUser(u, s) ==
    /\ call[u][s].at = "read"
    /\ goes(u, s, CASE u \in token -> "list"
                    [] u \notin token /\ call[u][s].op = "load" -> "answer"
                    [] OTHER -> "no")
    /\ reading

\* What follows the list: assertUserCanAccessInstallation lets a subscription be created, and the
\* ownership check of a removal comes after it.
next(op) == CASE op = "load" -> "rows" [] op = "on" -> "create" [] OTHER -> "role"

\* listForUser.  A page GitHub does not answer ends the paging, so nothing is listed.
listForUser(u, s) ==
    /\ call[u][s].at = "list" /\ u \in authorized
    /\ \E live \in {IF phase = "live" /\ u \in sees THEN details ELSE Absent}
                   \cup (IF Befalls("github") THEN {Absent} ELSE {}) :
          call' = [call EXCEPT ![u][s] = [@ EXCEPT !.live = live,
                     !.at = IF live # Absent \/ call[u][s].op = "load" THEN next(call[u][s].op) ELSE "no"]]
    /\ reading

\* GitHub rejects the token: it is dropped, the list is empty, and a write refused.
tokenRejected(u, s) ==
    /\ call[u][s].at = "list" /\ u \notin authorized
    /\ token' = token \ {u}
    /\ goes(u, s, IF call[u][s].op = "load" THEN "answer" ELSE "no")
    /\ serving /\ UNCHANGED <<mirror, subs, history>>

\* The two reads of a load, which leave together: the user's opt-ins and the mirror.
readRows(u, s) ==
    LET seen == call[u][s].live
    IN  /\ At(u, s, "load", "rows")
        /\ call' = [call EXCEPT ![u][s] = [@ EXCEPT
                       !.opt = subs[u],
                       !.row = IF seen = Absent THEN Absent ELSE mirror,
                       !.at  = IF seen # Absent /\ mirror = Absent THEN "fill" ELSE "answer"]]
        /\ reading

writesMirror(to) ==
    /\ mirror' = to
    /\ tooLate' = IF phase = "gone" /\ to # Absent THEN tooLate \cup {"mirror"} ELSE tooLate

backfillMirror(u, s) ==
    /\ At(u, s, "load", "fill")
    /\ writesMirror(call[u][s].live)
    /\ goes(u, s, "answer")
    /\ serving /\ UNCHANGED <<token, subs, removers, heard>>

\* Mutant of createSubscription: a redundant subscribe writes the defaults over what was chosen.
createSubscription_Resets(u) == subs' = [subs EXCEPT ![u] = "all"]

\* SubscriptionWriteService.create: the defaults go in on insert only.
createSubscription(u) == subs' = [subs EXCEPT ![u] = IF @ = "none" THEN "all" ELSE @]

subscribe(u, s) ==
    /\ At(u, s, "on", "create")
    /\ createSubscription(u)
    /\ tooLate' = IF phase = "gone" THEN tooLate \cup {u} ELSE tooLate
    /\ goes(u, s, "ok")
    /\ serving /\ UNCHANGED <<token, mirror, removers, heard>>

unsubscribe(u, s) ==
    /\ At(u, s, "off", "delete")
    /\ subs' = [subs EXCEPT ![u] = "none"]
    /\ goes(u, s, "ok")
    /\ serving /\ UNCHANGED <<token, mirror, history>>

\* Mutant of updatePreferences: an upsert, so that choosing is opting in.
updatePreferences_Upserts(u) ==
    /\ connectionWorld.turns > 0 /\ "narrow" \in connectionWorld.asks
    /\ connectionWorld' = [connectionWorld EXCEPT !.turns = @ - 1]
    /\ subs' = [subs EXCEPT ![u] = "chosen"]
    /\ UNCHANGED <<github, token, mirror, clearing, call, browser, history>>

\* Nobody's page asks for it yet: a caller of the API does.  NotFound where nothing matched.
updatePreferences(u) ==
    /\ connectionWorld.turns > 0 /\ "narrow" \in connectionWorld.asks
    /\ connectionWorld' = [connectionWorld EXCEPT !.turns = @ - 1]
    /\ subs' = IF subs[u] = "none" THEN subs ELSE [subs EXCEPT ![u] = "chosen"]
    /\ UNCHANGED <<github, token, mirror, clearing, call, browser, history>>

\* Mutant of mayUninstall: anything but a confirmed member.
mayUninstall_Unless(u) ==
    IF connectionWorld.account = "Organization" THEN {role # "member" : role \in readRole(u)} ELSE {ownsPersonalAccount(u)}

\* What the check may say of u.  Short of a confirmed admin it is a refusal.
mayUninstall(u) ==
    IF connectionWorld.account = "Organization" THEN {role = "admin" : role \in readRole(u)} ELSE {ownsPersonalAccount(u)}

assertUserMayUninstall(u, s) ==
    /\ At(u, s, "remove", "role")
    /\ \E may \in mayUninstall(u) : goes(u, s, IF may THEN "delete" ELSE "no")
    /\ reading

\* GithubAppInstallationsService.uninstall.  Already gone is the outcome wanted.
uninstallAtGithub(u, s) ==
    /\ At(u, s, "remove", "delete")
    /\ phase' = "gone"
    /\ events' = IF phase = "live" THEN events \cup {Deleted} ELSE events
    /\ removers' = removers \cup {u}
    /\ goes(u, s, "unmirror")
    /\ UNCHANGED <<connectionWorld, details, sees, everSaw, authorized, mongo, clearing, browser, tooLate, heard>>

unmirror(u, s) ==
    /\ At(u, s, "remove", "unmirror")
    /\ writesMirror(Absent)
    /\ goes(u, s, "clear")
    /\ serving /\ UNCHANGED <<token, subs, removers, heard>>

\* Mutant of deleteByInstallation: only the opt-in of whoever removed it goes.
deleteByInstallation_Own == subs' = [u \in Users |-> IF u = Owner THEN "none" ELSE subs[u]]

deleteByInstallation == subs' = [u \in Users |-> "none"]

clear(u, s) ==
    /\ At(u, s, "remove", "clear")
    /\ deleteByInstallation
    /\ heard' = TRUE
    /\ goes(u, s, "ok")
    /\ serving /\ UNCHANGED <<token, mirror, removers, tooLate>>

\* Anything the request was waiting for fails, or its answer never arrives.
breaksOff(u, s) ==
    /\ Befalls("break") /\ call[u][s].at \notin {"idle", "no"}
    /\ goes(u, s, "no")
    /\ reading

serve(u, s) ==
    \/ readUser(u, s) \/ listForUser(u, s) \/ tokenRejected(u, s)
    \/ readRows(u, s) \/ backfillMirror(u, s)
    \/ subscribe(u, s) \/ unsubscribe(u, s) \/ assertUserMayUninstall(u, s)
    \/ uninstallAtGithub(u, s) \/ unmirror(u, s) \/ clear(u, s)

----------------------------------------------------------------------------
\* Installation webhooks, each handled on its own and awaited by nobody.

handleDeleted ==
    /\ Deleted \in events
    /\ events' = events \ {Deleted}
    /\ writesMirror(Absent) /\ clearing' = TRUE
    /\ UNCHANGED <<connectionWorld, phase, details, sees, everSaw, authorized, token, subs, call, browser, removers, heard>>

handleDeletedRest ==
    /\ clearing /\ clearing' = FALSE
    /\ deleteByInstallation /\ heard' = TRUE
    /\ UNCHANGED <<connectionWorld, github, token, mirror, call, browser, removers, tooLate>>

handleUpsert ==
    \E carried \in events \ {Deleted} :
       /\ events' = events \ {carried}
       /\ writesMirror(carried)
       /\ UNCHANGED <<connectionWorld, phase, details, sees, everSaw, authorized, token, subs, clearing, call, browser,
                      removers, heard>>

\* A webhook that never arrives, or a process that stops inside its handler.
webhookLost ==
    /\ Befalls("lost")
    /\ \/ \E e \in events : events' = events \ {e} /\ UNCHANGED clearing
       \/ clearing /\ clearing' = FALSE /\ UNCHANGED events
    /\ UNCHANGED <<connectionWorld, phase, details, sees, everSaw, authorized, mongo, call, browser, history>>

webhook == handleDeleted \/ handleDeletedRest \/ handleUpsert

----------------------------------------------------------------------------
\* GitHub and its users.

edits == connectionWorld.edits > 0 /\ connectionWorld' = [connectionWorld EXCEPT !.edits = @ - 1]

installed ==
    /\ phase = "absent" /\ phase' = "live"
    /\ events' = events \cup {details}
    /\ \E seers \in SUBSET Users : Owner \in seers /\ sees' = seers /\ everSaw' = seers
    /\ UNCHANGED <<connectionWorld, details, authorized>>

\* Suspended, reinstated, or given other repositories.
changed ==
    /\ edits /\ phase = "live"
    /\ details' = details + 1 /\ events' = events \cup {details'}
    /\ UNCHANGED <<phase, sees, everSaw, authorized>>

removed ==
    /\ edits /\ phase = "live" /\ phase' = "gone"
    /\ events' = events \cup {Deleted}
    /\ UNCHANGED <<details, sees, everSaw, authorized>>

\* Somebody joins the account, leaves it, or takes proke's authorization back.
people ==
    /\ edits
    /\ \E u \in Users \ {Owner} :
         \/ sees' = sees \cup {u} /\ everSaw' = everSaw \cup {u} /\ UNCHANGED authorized
         \/ sees' = sees \ {u} /\ UNCHANGED <<everSaw, authorized>>
         \/ Befalls("revoked") /\ authorized' = authorized \ {u} /\ UNCHANGED <<sees, everSaw>>
    /\ UNCHANGED <<phase, details, events>>

Github ==
    /\ installed \/ changed \/ removed \/ people
    /\ UNCHANGED <<mongo, clearing, call, browser, history>>

ConnectionsNext ==
    \/ \E u \in Users, s \in Slots :
          loadConnections(u, s) \/ toggle(u, s) \/ uninstall(u, s)
          \/ browse(u, s) \/ serve(u, s) \/ breaksOff(u, s)
    \/ \E u \in Users : updatePreferences(u)
    \/ webhook \/ webhookLost \/ Github

ConnectionsSpec == ConnectionsInit /\ [][ConnectionsNext]_connectionsVars

----------------------------------------------------------------------------
\* Properties.

\* Type correctness.
ConnectionsTypeOK ==
    /\ phase \in {"absent", "live", "gone"} /\ details \in Nat /\ mirror \in Seen
    /\ sees \subseteq Users /\ everSaw \subseteq Users
    /\ authorized \subseteq Users /\ token \subseteq Users
    /\ subs \in [Users -> Opts] /\ page \in [Users -> Row]
    /\ pretend \in [Users -> {"none", "available", "subscribed"}] /\ latest \in [Users -> Nat]
    /\ removers \subseteq Users /\ tooLate \subseteq Users \cup {"mirror"}
    /\ clearing \in BOOLEAN /\ heard \in BOOLEAN

\* Nobody is opted in to an account GitHub never showed them, nobody but its owner has proke removed
\* from it, and nobody else's row calls them its owner, however requests, refusals and membership
\* changes interleave: the comments above assertUserCanAccessInstallation and assertUserMayUninstall.
ActsOnlyWithStanding ==
    /\ \A u \in Users : subs[u] # "none" => u \in everSaw
    /\ removers \subseteq {Owner}
    /\ \A u \in Users : page[u].role = "owner" => u = Owner

atRest(u) == \A s \in Slots : call[u][s].at = "idle"
settled   == events = {} /\ ~clearing /\ \A u \in Users : atRest(u)

\* Once everything about a removed installation was carried through, by the webhook or by the page
\* that removed it, no opt-in and no row of it is left but what was written after it was gone, by
\* a request that had asked GitHub before or by a webhook that came after the deletion's.
GoneLeavesNothing ==
    settled /\ phase = "gone" /\ (heard \/ ~Befalls("lost")) =>
        /\ \A u \in Users : subs[u] # "none" => u \in tooLate
        /\ mirror # Absent => "mirror" \in tooLate

\* A redundant subscribe, of another page or a second click, never resets what somebody chose: what
\* was chosen stays until they turn the account off or the installation goes.
ChoiceStays == [][\A u \in Users : subs[u] = "chosen" => subs'[u] \in {"chosen", "none"}]_subs

\* While the latest click is being written and fetched the row shows it, whatever other clicks and
\* loads answer meanwhile.
ShowsTheClick ==
    \A u \in Users, s \in Slots :
        /\ {"on", "off"} \cap {call[u][s].op, call[u][s].after} # {}
        /\ call[u][s].click = latest[u]
        /\ call[u][s].at \notin {"idle", "no"} \/ call[u][s].op = "load"
        /\ listed(u)
        => shown(u) \in {Wanted(op) : op \in {"on", "off"} \cap {call[u][s].op, call[u][s].after}}

\* At rest, the row says what is stored, however GitHub failed, while nothing changed the account.
tellsTruth(u) ==
    atRest(u) /\ listed(u) /\ phase = "live" /\ details = 0 /\ ~Befalls("break") =>
        shown(u) = IF subs[u] = "none" THEN "available" ELSE "subscribed"

RowKeepsItsWord ==
    /\ ShowsTheClick
    /\ Cardinality(connectionWorld.slots) = 1 => \A u \in Users : tellsTruth(u)

=============================================================================
