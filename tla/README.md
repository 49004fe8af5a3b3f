# Proke in TLA+

Proke tells people on Slack about what happens on GitHub that concerns them: a
review asked of them, a verdict on their pull request, a reply in their thread.
The backend (`src/backend`, NestJS on MongoDB) takes GitHub App webhooks, decides
whom an event concerns, and sends one Slack message per person; it goes back to
edit review requests that were settled, keeps an inbox of pull requests, sends a
daily digest, a weekly reminder and announcements. The frontend (`src/frontend`,
React with kea) is the dashboard and the inbox.

These modules model the parts of it whose behaviour depends on the order in which
things happen - handlers that interleave at every `await`, two processes that
overlap while a deploy replaces one by the other, tabs of one browser, clicks that
are shown before they are saved, crashes, and what Slack, GitHub or the database
answer and when - and the pure rules those parts apply: what a batch merges into,
what a message says, which heading a pull request is under. Each module is checked
on small instances with TLC; about twelve of them there are theorems, for every value of
their constants, proved with TLAPS.

Paths below are relative to the repository; `backend/` is `src/backend/src/` and
`frontend/` is `src/frontend/src/`.

To check a configuration: `tlc -config X.cfg MCX.tla` (`PokeResolutionUnstruck.cfg` is
of MCWebhooks, `PokesPanelReopened.cfg` of MCPokesPanel). To check the proofs:
`tlapm X_proofs.tla`.

## 1. The system's parts

| part | code | state it keeps | operations | modules |
| --- | --- | --- | --- | --- |
| webhook intake | `backend/webhooks/github/github-webhook.controller.ts` | none | verify the signature, start a detached handler, answer 202 | partly, in Routing |
| routing | `backend/webhooks/github/github-webhook-router.service.ts`, `notifications/core/bot-accounts.ts` | memory of who spoke in a thread; cached answers | `route`: candidates, teams, threads, gates, one poke each | Routing, NotificationTypes |
| review batching | `backend/notifications/delivery/review-batch.service.ts` | a map of open batches, a timer each | `submit`, `flush`, `flushAll` on shutdown | ReviewMerge, ReviewBatch, PokeFate |
| message rendering | `backend/notifications/delivery/slack-message.ts` | none | a poke, its edits, a digest | SlackMessage (partly) |
| poke resolution | `backend/notifications/delivery/poke-resolution.service.ts`, `notifications/messages/` | a row per message that may have to be edited | remember, annotate, strike | PokeResolution |
| Slack delivery and connection | `backend/notifications/delivery/slack-notification-delivery.service.ts`, `backend/slack/`, `webhooks/slack/slack-events.controller.ts` | links (who is where), workspaces (tokens) | connect, disconnect, deliver, write refusals back, handle Slack's events | SlackConnection (partly) |
| in-memory cache | `backend/shared/cache/in-memory-cache.service.ts` | entries with times to live, loads in flight | `wrap`, `set`, `delete`, `deleteByPrefix`, sweep, evict | InMemoryCache |
| digest | `backend/notifications/digest/digest.service.ts`, `user/write/user-write.service.ts` | settings and the last day claimed, on the user's row | sweep, claim, post; a save that claims the day | Digest; its contents in SlackMessage |
| listen reminder | `backend/notifications/listen-reminder/` | two stamps on the user's row | sweep, claim, post; the button | ListenReminder |
| announcements | `backend/notifications/announcements/` | a run per announcement, a claim per copy | a pass per start over the list | Announcements |
| connections, installations, subscriptions | `backend/connections/`, `installations/`, `subscriptions/`, `webhooks/github/github-webhook-installations.service.ts`; `frontend/lib/logics/connectionsLogic.ts`, `OrganisationsPanel.tsx` | installations mirrored, opt-ins with their filters; the page's rows | list, subscribe, filter, unsubscribe, uninstall; installation webhooks; clicks | Connections |
| sessions | `backend/auth/session/`; `frontend/lib/auth/session.ts`, `lib/logics/authLogic.ts` | refresh tokens; a copy in every tab and in local storage | sign in, renew, retry, sign out, reopen | Sessions |
| GitHub login, user rows, account deletion | `backend/auth/github/`, `backend/user/` | user rows by id and by handle, the GitHub token, everything keyed to a user | log in, rename, clear a refused token, delete | Accounts |
| inbox refresh, store and warmer | `backend/inbox/` | a snapshot per user and build settings | read, refresh, sweep | Inbox |
| inbox page | `frontend/lib/logics/inboxLogic.ts`, `inboxSettingsLogic.ts` | rows shown, settings pressed, settings agreed | open, press, hide, show, refresh | InboxPage |
| inbox classifier and filters | `backend/inbox/inbox-classifier.ts`, `core/entities/inbox-filters.interface.ts`, `github-inbox-data.service.ts`; `frontend/components/inbox/` | none | classify, group, normalise, press | InboxRows |
| poke settings | `backend/notifications/settings/`, `notifications/core/entities/poke-settings.ts`; `frontend/lib/logics/pokeSettingsLogic.ts`, `PokesPanel.tsx` | settings on the user's row; what the panel shows | save, press | PokeSettings |
| poke senders | `backend/notifications/senders/` | counts per sender on a reader's row, pieces counted lately | record, evict, suggest | PokeSenders |
| migrations, GitHub App data, Slack's panel, analytics, crypto, remaining components, deployment | | | | not modelled (section 6) |

How they interact. GitHub's webhook enters at the controller, which answers at once
and lets a handler run on. The handler first edits earlier messages (resolution),
then routes; routing reads users, settings, subscriptions, teams and threads,
mostly through the one in-memory cache, counts who poked whom (senders), and hands
what is left to the batcher; the batcher hands one message to the delivery service
when its window ends; delivery reads the link and the workspace, calls Slack, writes
refusals back to both, and files a row that resolution finds later. The digest, the
reminder and the announcements are sweeps in the same process that end in the same
delivery service; each claims in the database before it posts, since the processes
of two deploys overlap. The digest's rows come from the inbox, whose sweep and page
refresh one snapshot. The dashboard's three pages (accounts, inbox, pokes) save to
rows that webhooks and sweeps read, each showing a press before the server has
agreed; all of them go through the session, whose access token is checked by
signature alone. Slack's events write links and workspaces from outside.

What is hard, and what makes each part correct:

- *Routing*: everything is read before it is used, some of it several awaits
  before. Whoever is poked was due that poke and may see the repository; whoever was
  due one gets exactly one, the most important; counts agree with pokes.
- *Review batching and rendering*: arrivals, timers and shutdown meet in one map. A
  piece is told of once and waits one window at most; the message does not depend on
  the order of arrival and says everything its pieces said, as do its later edits.
- *Poke resolution*: handlers edit from a row they read before; edits, rows and
  failures of either interleave, and an edit may land though its answer is lost.
  Nothing is struck that should stand, and what is settled ends up struck.
- *Slack connection*: refusals are written back after an await in which the link or
  the token may have been replaced. Nobody is unlinked for somebody else's reason;
  refusals do not repeat for ever.
- *Cache*: loads that overlap with writes, deletes and each other. One load per key,
  nothing served too late, the limit kept, everybody answered.
- *Digest, reminder, announcements*: claims by processes that overlap, crash and
  start over. At most once, never to who should not get it, and in the end to
  everybody who should.
- *Connections*: standing is checked at GitHub and written after an await;
  installation webhooks land in any order. Nobody acts without standing, a removal
  leaves nothing behind, and the row shows the latest click.
- *Sessions and accounts*: a renewal, a sign-out and a refused request cross between
  tabs; a login takes a handle off another row in a write of its own; an account goes
  collection by collection. Revoked means dead within one time to live, nobody is
  signed out of a live session, a login is stopped or undone only by one that overtook
  it, nothing survives an account but what was under way.
- *Inbox*: half the settings are in the snapshot's key and half applied as it is
  served; page and sweep refresh it. What is on screen is what was asked for, comes
  right, and every row is under one heading, the one that the settings say.
- *Poke settings and senders*: a press saves the whole set built on a save that is
  still under way; an older tab saves fewer fields. What was pressed last is kept, a
  save touches what it mentions, and a suggestion rests on a right count.

`PROJECT.json` lists the hazards one by one, each at its line, with the properties
that watch it; two have none, with the reason.

## 2. Modules and how they correspond to the code

A state change of the code is an action, named for the function that makes it where
one function does; a function with awaits is cut at them, and each stretch is an
action (a `pc`, `at` or `job` says which is next). The database's single-document
operations are atomic, as MongoDB's are. What the code keeps in memory is lost by
`Restart`, `Crash` or `Kill`; what it keeps in MongoDB stays. Slack, GitHub and people
are actions of their own, bounded.

From a webhook to Slack:

- **NotificationTypes** - the kinds of poke and their ranks, which the three below share.
- **Routing** - one run of `route` for one webhook. `settings`, `preferences` and
  `spoken` are the database and the thread memory and may change under the handler;
  `read` records what the handler was answered, so that properties can be
  stated person by person against it and without the code's order of filtering.
- **ReviewMerge** - the pure part of the batcher: `merge`, `mergeReview`,
  `pickRequest`, `count`, as operators over a sequence of pieces in arrival order.
  Its only actions are arrivals, so a run visits every batch in every order.
- **SlackMessage** - over the same batch, what its message says (`sentence`,
  `leadClauses`, `leadIcon`, `footer`), what an edit makes of it (`reviewedLabel`,
  `RESOLUTION`), and how a digest's rows are cut at twenty, given headings and laid into
  sections (`chunkLines`, in characters). A sentence is a sequence of clauses, each a verb
  with whether it claims a count; words are left out.
- **ReviewBatch** - the batcher as a process. `batches` is the `Map`, `age` its
  timers, `sending` the deliveries in flight and who awaits them (the timer's nobody,
  the shutdown hook's `flushAll`). `Stop`/`Exit` is a graceful shutdown, `Kill` the
  `docker rm -f` of the deployment template.
- **PokeFate** - what submitting promises, with no timers in it; ReviewBatch
  implements it (`KeepsPromise`, with `fateNow` as refinement mapping).
- **PokeResolution** - the messages of one pull request. `slack` is what Slack shows,
  `rows` what MongoDB has, `jobs` the edits under way, each with the row as it was when
  its handler read it. A request that failed after it was sent, or whose process stopped,
  is a job nobody waits for (`Stray`): Slack applies it, at once or after much else, or
  never does. A `scenario` picks which webhooks occur and what may go wrong.
- **SlackConnection** - links, workspace rows, and three kinds of job over them: an
  authorization, a delivery, an event of Slack's. Of `updatedAt` only the order, which
  decides where pokes go, is kept: `recent`, a set of pairs for each user.
- **InMemoryCache** - `entries` is the `Map` in its insertion order, `inFlight` the map
  of loads, and a load has the three moments at which something else can come
  between: the source decides, the value is stored, the callers hear.

Sweeps:

- **Digest** - one person's row, `passes` (the sweeps of all replicas as far as this
  person goes) and `saves` (the settings page's second write).
- **ListenReminder** - sweeps of overlapping processes: three reads, a conditional
  claim, a post. Instants are kept as ages, which is all the queries compare, so that
  time can go on for ever in a finite state space.
- **Announcements** - passes of overlapping starts over a list: the run's first start
  fixes the audience, a copy is claimed before it is posted, a pass that meets an error
  leaves the run open.

What people set and see:

- **Connections** - one installation. `phase` and `details` are GitHub's truth, `mirror`
  and `subs` MongoDB's, `events` the webhooks under way, `call` the requests (one record
  per slot, its `at` the next stretch of the handler), `page`, `pretend` and `latest` the
  browser's row, the click shown ahead and the number of the latest. `loadConnections`,
  `toggle` and `uninstall` are the page's; `browse`, `readUser`, `listForUser`, `readRows`,
  `createSubscription` and the rest of `serve` the server's; `handleDeleted`, its
  `handleDeletedRest` and `handleUpsert` the webhooks'.
- **Sessions** - `row`, `dead` and `over` are the refresh-token rows and when a session
  ended; `tab` is each tab's copy in memory, `storage` the browser's, `renewal` the shared
  promise of a renewal, `req` each request with the token it was sent with. `ask`,
  `firstRefusal`, `resume`, `secondRefusal` and `signOut` are session.ts and authLogic;
  `refresh`, `redeem` and `revoke` the server.
- **Accounts** - `user` is the collection of rows, `keyed` what other collections hold for
  each, `signing` the logins, `use` the requests that ask GitHub with a stored token,
  `writing` the handlers that write for a user they read before, `deletion` how far an
  account's deletion has got. `handle` and `granted` are GitHub's. Nothing in the code
  keeps two logins apart, so any may overlap: `outrun` is history, of the logins and the
  uses of a token that another login has overtaken by writing to the row, or under the
  name, that they had read before.
- **Inbox** - the server. A settings value is `[b, v]`: the half a snapshot is built and
  filed under, and the half applied when it is served. `call` is a request or a worker of
  the sweep, `warming` the sweep, `story` what may still happen. GitHub's side is a version
  number.
- **InboxPage** - extends it by the page: `edited` over `agreed` over `profile` is what
  inboxSettingsLogic shows, `rows` what inboxLogic holds, `newest` the request of each
  kind whose answer still counts. A render follows each kea action before the next message
  is handled, so the effect that hands changed settings over is part of the action, and
  an action reaches whichever visit of the page is open when it comes.
- **InboxRows** - the rules by which a snapshot is built (`classify`) and served
  (`groupWaitingOnYou`, `respond`), the forms in which settings travel (`toInboxFilters`,
  `filterParams`, `inboxFiltersKey`, `normalizeInboxSettings`), and FilterControls'
  presses. A behaviour draws one answer of GitHub, whole, in part or refused, and settings,
  and presses. A list is its members laid out by place (`arranged`, `filtered`): which
  names are kept and in what order is said by sets, and the order is the one that sorting has.
- **PokeSettings** - `row` is what is stored, a function over the fields that have been
  saved (a row of an earlier version has fewer), `panel` what pokeSettingsLogic holds,
  `calls` the saves under way. `updateSettings` is what a body becomes, `Over` what saving
  it does, `Answer` what comes back. Lists are sets. The two writes of a save that takes
  the day's digest are one here; Digest has them apart.
- **PokeSenders** - extends it by `senders`, the row of counts, and `counted`, the bounded
  memory of pieces, which a restart and its time to live empty (`PiecesForgotten`).
  `countingPipeline` is the update of one row, with ties for the last place falling either
  way; `suggestBots` what the panel offers.
- **Dashboard** - the three pages together: Connections, InboxRows and PokeSenders, which
  share the person and nothing else, so that a step is of one of them.
  `SavesTouchTheirOwn`, which is about the saves of all three, is stated here.

Instances and proofs:

- **MC*** - the values of the constants for TLC. Three of them put components side by
  side that share only the person or the pull request: **MCWebhooks** (Routing;
  ReviewMerge with SlackMessage; PokeResolution), **MCDashboard** (Dashboard with one page
  open) and **MCSessions** (Sessions, Accounts). A behaviour is of one
  component while the others stand still: one run asks about each by itself, and no
  product of state spaces is built that would show nothing.
- **Webhooks_proofs** (Routing, ReviewMerge with SlackMessage, and PokeResolution),
  **Delivery_proofs** (ReviewBatch and SlackConnection),
  **Inbox_proofs** (InMemoryCache and InboxPage), **Digest_proofs**, **ListenReminder_proofs**,
  **Announcements_proofs**, **Dashboard_proofs** (Connections, InboxRows, PokeSettings and
  PokeSenders, and the three pages together), **Sessions_proofs** (Sessions and Accounts) - theorems, section 5.

Every module has mutants beside its definitions (`flush_KeepsEntry`,
`claim_ReadsOnly`, `createSubscription_Resets`, ...): the definition with a plausible bug
in it. They take no part in a specification; each property is known to fail when the
definition is replaced by its mutant.

## 3. Runs

Passing runs (states are distinct states; all finish in under four minutes on two
workers):

| run | instance | what it shows |
| --- | --- | --- |
| `webhooks` | 14 kinds of webhook, 5 accounts of which 2 users, 4 settings x 5 subscriptions each, 2 of the webhooks with a change under them; batches of 3 comments and a submission, or of the reader and 2 teams, in every order; digests of up to 21 + 21 rows of three widths; 2 messages (one by team) in 4 scenarios of 3 or 4 webhooks; 1 652 064 states | nobody is poked who was not due it, and once (`NothingUnasked`); whoever is due hears, threads are told once, counts agree, of a loop a throw ended too (`DueHearOnce`); arrival order changes nothing (`MergedInAnyOrder`); messages and their edits say the whole of their batch (`TellsTheWhole`); a digest's numbers add up and fit (`DigestAddsUp`); rows know whom messages name, nothing is struck that was not settled, a merge strikes everything where nothing fails, and with one handler at a time names come once, and strikes stay but for the three mishaps of section 3 (`StruckJustly`) |
| `review_batch` | 2 pieces of a review, 1 of another, 1 unbatched; window of 2 ticks; 191 184 states | no piece told twice, no wait beyond a window, a flush survives a graceful exit, everything accepted ends, PokeFate is implemented |
| `in_memory_cache` | 1 key with 2 callers for 6 ticks; 3 keys in a cache of 2; 468 792 states | single flight, freshness and the limit (`Sound`), what goes first, every caller hears |
| `digest` | days of 3 hours; 2 replicas with crashes, or 1 with divided saves; 559 841 states | one digest a day, none on a day turned on late (`OncePerDayInTime`), nobody due for ever |
| `listen_reminder` | week of 2 ticks, 2 processes; 2 people, or 1 with 3 changes or faults; 311 548 states | one post a week and none in somebody's first (`SweepsWithinTheWeek`), nobody forgotten |
| `slack_connection` | 1 user, 2 workspaces; 1 authorization and 2 changes, or 2 authorizations; 661 310 states | links go only for a reason of their own and workspaces are taken for gone only if they are (`KeptUnless`), one destination (`LinksStandAlone`), refusals stop (`Settles`) |
| `announcements` | 2 replicas, 3 starts, 2 announcements, 1 user who comes or goes once; 319 592 states | one copy, to the first start's audience; completed means reached; a pass that is let run completes the list |
| `dashboard` | 2 users of one installation in 5 worlds of 3 or 4 turns, with one or two requests at once; one answer of GitHub's per behaviour with up to 2 presses of the filters; poke settings over 2 types, 4 logins and 2 hours, with 2 or 3 presses, an older tab, or 4 pokes on a row with room for 2; 788 944 states | standing, removal and the page's row (`ActsOnlyWithStanding`, `GoneLeavesNothing`, `RowKeepsItsWord`); every row of the inbox where the settings put it (`RowsWhereTheyBelong`); presses in quick succession are all kept (`SavedAsPressed`); a save touches what it mentions (`SavesTouchTheirOwn`); suggestions rest on right counts (`SuggestsWhoPoked`), and newcomers push out people before bots (`RoomIsMadeByPeople`) |
| `sessions` | 2 tabs with 2 requests each, 2 sessions, an access token of 2 ticks, a refresh token of 3 and a margin of 1, in 5 worlds; 2 people, 3 handles, 3 rows and 2 logins in 5 worlds; 540 897 states | a revoked session's tokens die within one time to live (`OutlivesByATtl`), nobody is signed out of a live session (`KeptSignedIn`), no request loops (`EveryRequestEnds`), handles and deletions (`KeepsAndLeaves`), only who was outrun is stopped by a login or undoes one (`LoginsStand`) |
| `inbox` | 2 users, one of whom cannot be refreshed, 3 requests at once, a sweep of 1 worker, 4 settings, 6 worlds; 268 879 states | rows and switches are what was asked for and stored (`ShownAsSet`); a page in view comes right without being blanked (`ComesRightUnblanked`); who comes is kept warm, who does not is left alone (`SweptRightly`) |

Runs that find a disagreement, each with its shortest counterexample:

| run | property | what happens |
| --- | --- | --- |
| `poke_resolution_unstruck` | `StrikeLands` | a comment's edit rebuilt from the row before the verdict lands after the strikethrough and undoes it (`poke-resolution.service.ts:135-136` says this must not happen) |
| `pokes_panel_reopened` | `FirstFrameIsTheTruth` | a setting saved on one visit of the dashboard is not shown on the next, because the logic with the server's answer went with the page and the profile it falls back to was read as the app loaded; the next press saves the old set whole (`pokeSettingsLogic.ts:24-26`) |

Other disagreements seen while modelling. They are not kept as runs; where one would
break a property, the property is stated for the behaviours without it, and its
comment says so.

- `review-batch.service.ts:57-58` says that nothing is lost by a restart: the hook
  awaits only what it flushed itself, and a batch its timer flushed just before, or a
  piece submitted just after, is cut off by the exit.
- `review-batch.service.ts:203-204`: with no envelope in a batch, comments of one rank
  lead in arrival order, not in the order they were written.
- `poke-resolution.service.ts:199-219` and `:333`: a restart or a failing database between the
  strikethrough and the deletion of its row leaves the row, and so does an answer of Slack's that
  is lost after the edit was applied (`slack-api.service.ts:187-201`), which `handleFailure` cannot
  tell from a refusal. A later comment's edit then shows the struck request as outstanding again.
  That strikes stay is stated for behaviours without the three.
- `poke-message-write.service.ts:42`: a comment and a verdict of one reviewer, handled at
  once, add them twice.
- `github-comment-author-data.service.ts:44-47`: an author filed from a webhook is
  overwritten by a lookup that began before it.
- `user-write.service.ts:272`: a sweep, or a restart, between a save's two writes posts
  the digest that the second was to skip. At `:224`, after a save from a zone where it is
  still yesterday, the day that comes again is sent again.
- `user-write.service.ts:224-228` speaks of one digest per person and day: for somebody whose
  hour is midnight, a pass that began before it and claims after another replica has claimed
  the new day gives that day back, and a second digest follows. The run's hours keep clear
  of midnight by the time a pass may take, and the theorem assumes that they do.
- `listen-reminder.service.ts:44`: the button is pressed between a claim and its post.
- `announcement.service.ts:29-30` and `:106`: of two passes in step one posts the second
  announcement while the other holds the first; and a copy whose post throws after its
  claim is taken for sent by the next start.
- `slack-link-read.service.ts:14-15`: a delivery to the old workspace caches its channel
  and so makes the old link the latest.
- `slack-workspace-write.service.ts:25-27`: a late uninstall event, or a late refusal,
  revokes the row that a reinstall has just written.
- `slack-link-write.service.ts:21-23` and `:57`: two authorizations delete each other's
  link; a refusal of an old Slack id deletes the link written with the new one.
- `user-write.service.ts:36-39` with `github-auth-login.service.ts:48`: of two first logins of one
  person both find no row. The second takes the handle off the row the first has just created
  and is then refused by the unique `githubId`: the row is left without a handle, and no mention
  finds it, till the next login. `user.entity.ts:100-104` calls the release what keeps the index
  satisfiable. Two logins that prove one handle around a rename can be refused in the same way.
- `user-write.service.ts:86-90`: of two later logins that overlap, the older may write last and
  leave its older token on the row. `inbox-refresh.service.ts:80`: a refresh that read the token
  before a login, and is refused, clears the token that login has written. `LoginsStand` permits
  both to who was outrun, and nobody else.
- `authLogic.ts:159`: signing out while a renewal is under way is undone by its answer,
  which writes the session back.
- `connectionsLogic.ts:66`: of two clicks answered out of order the row may settle on the
  earlier's answer until the next load.
- `pokeSettingsLogic.ts:39-41`, and the saves of inboxSettingsLogic: two saves that overtake
  one another on the network leave the older one stored.
- `github-viewer-teams-data.service.ts:98-101`: of a team with more than 100 members only
  the first page counts, while the panel lists the team as in force.
- `LoginsInput.tsx:52-53`: its default normalisation lets `x[bot]` become a chip, which the
  server's pattern for a list's entries refuses.

## 4. Bounds and fairness

Several modules draw, in `Init`, one of a set of small worlds (`Worlds`, `Scenarios`,
`Budgets`, `ConnectionWorlds`, `AccountWorlds`): one run then covers several instances
that would be too large together. A world is a restriction of what may happen, never
a change of how it happens.

- *One user* in Digest, SlackConnection and Announcements: users share nothing there
  but the pool that works through them, which is modelled by passes that take other
  time (`others`, the lag), and for announcements the theorems hold for any number.
  Where people meet there are two: ListenReminder, Connections (an owner and a member),
  Accounts (a handle passes between them), the inbox's sweep (one whose refresh
  throws comes before or after the other), routing (what one recipient leaves to
  the next).
- *Two replicas*, processes or tabs: an overlap of deploys is two, and what two tabs of a
  browser can do to one another a third does again. Three starts: the first, one that
  overlaps it, and one that comes after both.
- *One installation, one account's row, one reader*: nothing in their code relates two. A
  user's page has two slots for requests, since the second is what overtakes; InboxPage
  has three, so that a load, a refresh and a save can be under way together.
- *Ticks*: a window, a week, a time to live of two ticks, a day of three hours are
  the smallest with a moment before, at and after each boundary; a refresh token of three
  outlives an access token. `MaxLag`, `MaxLoad` say how long a sweep or a load may
  take; both leave it time to cross the boundary.
- *Changes, faults and turns* (`changes`, `budget`, `MaxLinks`, `MaxSaves`, `turns`,
  `presses`, `moves`) are bounded at one to four, since each of the hazards takes one or
  two.
- *Routing*'s webhooks cover every event and action the code distinguishes, with senders
  that are a person, an app, and a machine known by its name.
- *Pure rules*: batches have every subset of the pieces in every order; digests lie on
  both sides of twenty rows and of a section's length; pull requests lie on both sides of
  every rule, and GitHub's answers come whole, in part and refused.
- A run's counters (`now`, `clock`, `world.ticks`) end at a bound where time must end;
  ListenReminder's ages, SlackConnection's budgets and the inbox's visits do not, so their
  liveness is over infinite behaviours. Digest's liveness property is checked on
  behaviours that run to the last hour and then stay there, with the sweeps still firing.

Fairness, and why the code has it:

- A step of a job, a load, a delivery, a pass, a request's handler or its answer is weakly
  fair: every call awaited returns or throws. The code sets no timeout of its own:
  `github-fetch.ts`, `slack-api.service.ts` and the dashboard call a bare `fetch`, and what ends a
  call that is never answered is the platform (Node's `fetch` gives up on a connection, and on
  headers or a body that do not come; the browser and MongoDB's driver have limits of theirs). That
  they do is an assumption. No step is assumed to succeed.
- Timers and sweeps are weakly fair: `setTimeout`, `@Interval` and the page's minute fire.
- *Digest* assumes strong fairness of GitHub answering: a refresh that is tried again
  and again in the end succeeds. Without it somebody may stay due.
- *SlackConnection* assumes that pokes keep coming to everybody, which is what its
  property is conditional on, and that Slack's events arrive.
- *Announcements* assumes that a process that ended is started again.
- *Sessions* assumes that the server answers or fails (`refresh`, `revoke`, `request`) and
  that a renewal's promise resumes those who wait on it (`renewed`). Nothing makes
  anybody ask, sign out or come back.
- *Inbox* assumes that requests are served and heard, that minutes and days pass and that
  the sweep takes its turns. Nothing is owed by the reader, and `ComesRight` is
  conditional on the page staying in view.
- Nothing is assumed of webhooks, people, restarts or faults. `webhooks` and `dashboard` are
  safety only: a handler has no loop that could fail to end, and a press is answered by
  a request whose steps the other runs show to end.

Deadlock is checked where a system runs for ever (ReviewBatch, ListenReminder,
SlackConnection). A merged batch, a handler, a pull request's edits, a pass over the
announcements and a run of ticks come to an end, a person may stop pressing, and a page that
is closed asks for nothing, so it is off in the others.

## 5. Proofs

The theorems hold for every value of the constants that satisfies the modules'
assumptions, which TLC evaluates in the runs. Each component has the same shape: an inductive
invariant in named parts (`IInv`, where a module holds one), a lemma for `Init`, one per
action or group of actions, `Invariance`, and the theorems that follow from it. TLC checked
each invariant on the component's instance before it was proved.

**Webhooks_proofs**, Routing (assumes users among the accounts, logins that are held by a user
or nobody, and webhooks, settings and subscriptions of the shape the module states).
`NobodyIsPokedUnasked` (`NothingUnasked`), `WhoeverIsDueHears` (`DueHearOnce`) and
`CandidatesAreTheConcerned`. The properties speak of who is concerned; the code of
candidates that it expands, groups and filters. Two lemmas bridge them for every payload
and every answer: expanding leaves a candidate of a kind for exactly whom an event of that
kind concerns, and what the gates keep of somebody's candidates is what they are due. `IInv`
says where a handler stands in terms of those: what is read and found by which stage
(`Stages`, `NotYet`, `ThreadRead`), that whoever is still to be taken has been asked about
nothing and sent nothing (`TurnsToCome`), what the one being served has been put through
(`InHand`), that what was sent is the best of what its reader's gates let through
(`SentWell`), that whoever was done with was served (`Through`) and that counts agree with
pokes (`Tally`). It holds although settings change under the handler, since it speaks of
what `read` was answered.

**Webhooks_proofs**, PokeResolution (assumes events and scenarios of the shape the module
states, and that `NoRow` is no row). `StruckJustlyHolds` (`StruckJustly`). `ResolutionInv`
says that a message has a row only once it was posted and filed (`Filed`) and that the row
knows whom it names (`Named`); what a job may conclude from the row it read, which has since
grown, gone or stayed, and why it strikes, whether somebody waits for its edit or not (`JobsFine`,
`OneJobEach`); that a merge has struck, or has a job about to strike, every message it found, where
nothing fails (`Merging`); and that with one handler at a time what is struck has no row, or its row
goes next (`StaysSettled`), which is why it stays - unless a restart, a failing database or a lost
answer came between the two, for which neither is claimed.

**Webhooks_proofs**, ReviewMerge with SlackMessage (assumes that the ids of comments are
positive numbers, and that no row of a digest is longer than a title of eighty letters and
names as long as GitHub allows make it, `MaxRow`). `BatchMergesInAnyOrder` (`MergedInAnyOrder`), `MessageTellsTheWhole`
(`TellsTheWhole`) and `DigestsAddUp` (`DigestAddsUp`). `BatchInvariance` is about the batch (`BatchInv`): no two pieces of one
review are of the same comment, nobody is reported to have reviewed what is a review already,
and the pieces of a request are asks. What a
merge leads with is defined by sorting and picking: the proof rests on two facts about any finite
set of pieces, that places enumerate the ids in order (what is sorted by id is the same whatever
order it arrived in) and that something in it is foremost by priority. From them the merged
batch is a function of the set of its pieces, and the message says of each piece what that set
says. A digest's lines are laid one after another (`laid`, by recursion over them): that there
is such a function, and that a chunk at every line begins with it or before it and fits
(`Lie`), is shown by the least line at which it would fail; a chunk's last line is the greatest
that lies in it, so that the chunks divide the lines (`Divided`).

**Delivery_proofs**, ReviewBatch (assumes `NoKey` is no key, `BatchKey` is total, `Window` is a
natural number). `TypeCorrect`, `ToldAtMostOnce` (`NeverTwice`), `BoundedWait`
(`WaitBounded`), `FlushIsAwaited` (`FlushSurvivesExit`) and `PromiseIsKept`
(`KeepsPromise`: the batcher implements PokeFate). `NeverTwice` alone is not inductive: it
does not say that a piece is in one place only. `IInv` adds that (not yet submitted, held
under its own key, in one delivery, told, failed or lost), that a piece that is held has
waited no longer than its batch's timer has run (which bounds the wait, since an open
batch's timer is never past the window), and that what the hook flushed is in a delivery
the hook awaits, or done with. The refinement needs it too: a delivery that ends is one
step of PokeFate because its pieces, being in one place, are all still under way; a stop is
one because what it loses is neither told nor failed; and holding, ageing and flushing
are stutters.

**Delivery_proofs**, SlackConnection (assumes finitely many workspaces, that nobody and nowhere
are no user and no workspace, and budgets that are natural numbers). `OnePlaceForPokes`
(`LinksStandAlone`) and `LinksAreKept` (`KeptUnless`, an action property). `SlackInv` says
that what a job has in hand is what its step says (`JobsSound`): the ids by which the person is
known in a workspace or was before they left it (`KnownAs`), a token that Slack accepts or did
before an uninstall (`TokenOf`). The same holds of rows and links (`RowsSound`, `LinksKnown`),
and what an event in flight or half handled says did happen (`EventsSound`): so whatever a job
concludes from what it read some steps ago, and writes or deletes by, has a cause. `OneOrTorn`
says that somebody has two links only between the two writes of an authorization of theirs, or
where a restart came between those. That a person with links has a latest one, which the code
takes from the database's order, is shown by the least number of links at which it would fail.

**Inbox_proofs**, InMemoryCache (assumes a positive limit and times that are natural
numbers). `SoundHolds` (`Sound`) and `StalestGoesFirst` (`EvictsStalestFirst`, an action
property). `IInv` adds to the types that entries are one per key, in the order of their
writing (`Tidy`); that a load is registered under its key for as long as it runs
(`Registered`, which is single flight); that it takes no longer than `MaxLoad` and its answer
was true after it began (`LoadsInTime`); and that an entry was true when it was written, or
no longer before than a load takes (`EntriesCurrent`, `Fresh`). What eviction leaves, and how
removals renumber the entries, is shown by the least place at which a claim would fail:
the naturals' well-foundedness serves where induction over the sequence would.

**Inbox_proofs**, InboxPage (assumes finitely many people, the reader among them, slots for requests
that are no worker's, and settings among which are the defaults). `PageShowsWhatIsSet`
(`ShownAsSet`) and `RowsStayOnThePage` (`BlankedFromAboveOnly`, the action property in
`ComesRightUnblanked`). `InboxInv` says that a slot holds what its step says, and an answer the
build half it was asked under (`SlotsSound`, `SnapshotsBuilt`, `RowsBuilt`); and of the switches, for
as long as no save has met one of the mishaps that `ShownAsSet` excepts, that the newest save is what
is on screen, that it is stored once answered, and that what was last agreed to is stored while no
save is under way or the only one has not arrived (`AsStored`). It holds through overlapping saves
because an older one that arrives after a newer is a mishap of its own (`Reorders`), and one that
fails behind a newer takes the newer's edit off the screen: the two exceptions are what the
proof needs and no more.

**Digest_proofs** (assumes zones that are integers, hours within the day, and bounds that are
natural numbers). `OnceADay` (`OncePerDayInTime`), for any replicas, saves and crashes,
where the person stays in one zone (`OneZone`) and no digest hour is so soon after midnight
that a pass outlasts the day it was due in (`ClearOfMidnight`); section 3 says what happens
without either. `IInv` says that a replica has one sweep under way (`OneSweepEach`), that what
is under way began no longer ago than it may take (`Lately`), that its hour had come when it
began (`ComeWhenBegun`), that the day on the row is one whose hour has come (`ComeWhenTaken`),
that what is posted or about to be is of a taken day, each of another (`EachOfItsOwn`), and
that a day turned on too late is taken before anything else is (`LateIsTaken`). A claim is of
the day it began in, which with its hour past `MaxLag` is still the current one: so the days on
the row only grow, and each is claimed once.

**Announcements_proofs** (assumes at least one announcement and worker, and bounds that
are natural numbers). `TypeCorrect`, `PostedAtMostOnce`, `AudienceIsFixed`,
`OneCopyToTheInvitedHolds` (`OneCopyToTheInvited`), `CompletedMeansReached`
(`CompletedReachedAll`). `IInv` is `TypeOK` with four parts: `Clocks` (no instant lies in
the future, a pass knows its own), `ClaimsHeld` (a copy about to be posted is claimed,
unposted, and in one pass's hand only - this is what makes "claim, then post" at most once
across processes), `InvitedOnly` (whoever a pass reads as its audience was connected when
the run began: a later link has a later instant) and `NobodyMissed` (whoever is in the
audience of a pass without an error is still to be taken or has been claimed - at the
pool's end nobody is left to be taken, which is `CompletedReachedAll`).

**ListenReminder_proofs** (assumes a positive number of workers and a sweep shorter than
a week). `TypeCorrect` and `AtMostWeekly` (`SweepsWithinTheWeek`). Stamps are ages that grow
together, so a claim is pinned to its sweep by its age: `ClaimIsFresh` (whoever is in a sweep's
hand was claimed exactly as long ago as the sweep has run), hence `OneHand` (in no other's:
their stamp is too new to be owed), `PostFollowsClaim` (a post is later than its claim by no
more than a sweep takes) and so `PostIsOld` (who is claimed again was posted to a week
ago, less that). `LinkIsOld` says that whoever is still to be claimed was connected for a
week when they were read, unless they connected anew since; `Sets` is what types leave out.

**Dashboard_proofs**, Connections (assumes the owner is a user, finitely many slots for requests, and
worlds of the shape the module states). `TypeCorrect`, `StandingIsChecked`
(`ActsOnlyWithStanding`) and `NothingIsLeftBehind` (`GoneLeavesNothing`). `IInv` adds that a
request past its check carries what GitHub listed for its user (`ListedFirst`), that only the
owner's requests are past the owner's check and only the owner's row says so (`OwnersOnly`),
and that while an account is gone its deletion is in an event under way, half done, in a
request that clears, or carried through but for those who wrote too late
(`DeletionCarried`). `WhatWasChosenStays` proves
`ChoiceStays`, the part of `SavesTouchTheirOwn` that is about connections: no step makes an
opt-in that somebody chose over into one that was given. Of the page, `RowKeepsItsWordHolds`
(`RowKeepsItsWord`), from an invariant `PInv` of its own: requests have a form at each step
(`Shaped`), clicks are numbered as they are made and the latest is what is shown ahead
(`Clicked`), nobody has details that GitHub has yet to have (`NothingAhead`), and where a page
asks for one thing at a time its row is what is stored, but for a click that has landed
(`CalmRows`).

**Sessions_proofs** (assumes the margin is less than an access token's life and sessions
are numbered from one). `TypeCorrect`, `TokensOutliveByATtl` (`OutlivesByATtl`) and
`NobodyIsSignedOutEarly` (`KeptSignedIn`, an action property). For the first, `IInv` says
that a session that is over has no row (`OverHasNoRow`), that every copy of a token is of a
session that has its row or is over (`NoneIsMadeUp`), and that one nobody has logged in to has
left no trace (`NotYetIssued`): a renewal needs the row, so that it cannot issue anything for
a session that is over, and what was issued before ages at the rate at which it is dead. For the
second, a further invariant `KInv` for behaviours in which only clocks are wrong says that a
renewal is of the session its tab holds (`RenewsItsOwn`), that a renewal refused is of a
session that is over (`RefusedIsOver`), that its answer is taken before it ages
(`AnswerIsFresh`), and that the retry it resumes is taken (`RetryIsTaken`): so the second
refusal, the one that signs out, can only be of a session that is over.

**Sessions_proofs**, Accounts (assumes finitely many ids, numbered from one, worlds of the shape
the module states, and that no name is both of a login and of a use of a token).
`KeepsAndLeavesHolds` (`KeepsAndLeaves`) and `LoginsStandHolds` (`LoginsStand`, an action
property), for logins that overlap in any way. `AccountsInv` says that what is under
way knows whose it is (`UnderWay`), that a row is one person's from its creation to its
deletion and a person has one (`RowsAreSomebodys`), that all a deletion leaves in a collection
it has been through came after it (`PassedIsEmptied`), and that a row that went is gone for
good (`GoneForGood`); that what a login read is still so when it comes to write, for as long as
nothing has outrun it (`Undisturbed`), that its token is then newer than any on its person's row
and that what a use of a token holds is what is on the row (`Newest`), and that whoever was given a handle
holds it (`NamedIsTheirs`); and that a refusal was of a token that had been withdrawn
(`RefusedWhenOutrun`), which is why it clears no good one but where it was outrun.

**Dashboard_proofs**, PokeSettings and PokeSenders (assumes that logins are spelled as
themselves, nine among the hours, worlds whose rows and bodies hold values of the fields' kinds,
and a row with room for one). `PressesAreKept` (`SavedAsPressed`), `SuggestionsAreEarned`
(`SuggestsWhoPoked`), `RoomIsMade` (`RoomIsMadeByPeople`), and two parts of
`SavesTouchTheirOwn`: `SavesAreAnswered` (`AnswersWhatIsStored`) and `OlderTabsLeaveTheRest`
(`LeavesWhatItDoesNotKnow`). The three invariants are of three parts of the state, and
`PokesInOrder` is their conjunction. `PanelInv`: saves are numbered as they were pressed, and,
where nothing went wrong on the way, what is on screen is what was pressed, saves not yet taken
are the last ones and the newest carries all of it, and once all are taken the row does too
(`AsMeant`) - whole sets may be saved behind one another because each is built on the screen.
`RowInv`: a row has each sender once, within its bound, of no more kept back than came
(`HeldOfCount`), and whoever is in it or in what was read of it has poked, for as often as was
let through at least once (`EarnedTheirs`). `CountInv`: as long as nothing was lost or crowded
out, pieces remembered are those there have been today and a sender's numbers are the numbers
of pokes (`CountedRight`). `CountsPokesOnce` has a hypothesis that the proof found wanting: a
piece is of one account. The code tells pieces apart without it, so that a request which two
people make within ten minutes counts for the first of them.

**Dashboard_proofs**, InboxRows (assumes words among which are the empty one and the ghost's
name, that GitHub names a pull request once in each half of its answer and none that is merged
among the open ones, rows that hold lists of names and switches, no empty login typed, and
room for one team at least). `EveryRowWhereItBelongs` (`RowsWhereTheyBelong`) and `APressMovesOne`
(`PressMovesOne`). `RowsInv` says that a row is one the service can read (`Legible`)
and that each snapshot is sorted by what its key says of the settings (`SortedBy`). What laying
out a set of places yields (`ArrangedIs`: everything once, in order) needs no induction:
the places ahead of those ahead of the n-th are distinct and fewer than n. From it, lists
that are normalized are tidy and stay as they are, a query says what it was made of
(`QuerySays`), and two settings that are filed under one key sort alike (`KeyDecides`), which is
what lets a snapshot built for one press be served after another.

**Dashboard_proofs**, Dashboard: `EachSaveTouchesItsOwn` (`SavesTouchTheirOwn`) puts its four
parts together: a page takes steps of its own specification while the others stand still
(`PagesKeepToThemselves`), so what each keeps to by itself it keeps to beside the others.

Only model-checked: every liveness property, since the prover has no rules for fairness and
`ENABLED`. Every invariant that a passing run checks is the property of a theorem, and so is every
action property.

## 6. Not modelled, and why

- The parts of a message that claim nothing (`slack-message.ts`: escaping, links, emoji,
  the fixed texts of announcement and reminder); analytics, metrics, logs, which nothing
  reads back; layout and routes of the frontend.
- Ciphers, signatures, token formats: library primitives. The HTTP clients and GitHub App
  data: I/O behind the cache; what they may answer is an action's choice.
- The text parsing of mentions: what it finds is an input of Routing (`logins`,
  `teams`). Redelivery of a webhook: the comment at `github-webhook.controller.ts:77` accepts
  the repeated poke.
- Migrations: run once, one after another, before the process serves anything.
- Slack's panel of the dashboard (`slackLogic.ts`): a flag with a disconnect shown before
  its answer; connectionsLogic, which is modelled, does the same over more.
- Between modules: each is checked with the others as its environment, and those that share
  a run stand still while one moves. A delivery's row is filed after its post
  (`slack-notification-delivery.service.ts:137`); an event between the two finds no row, and
  nothing in the code promises otherwise.
- In SlackConnection: the state token, failures of the OAuth exchange before anything is
  written, rate limits and failing database writes. In Digest: several people. In
  Sessions: browsers that share no local storage are further sessions. In Accounts: who
  else reads the row while a login writes it, but for what is written to keyed collections.
  In Connections: several installations on one page. In Inbox and
  InboxPage: forgetting a deleted person's snapshots, and the flags that say rows are stale or
  that GitHub wants a new login. In PokeSettings:
  servers of an earlier version.

## 7. Plan

1. **Intake**: the controller with redelivery, composed of Routing's outcome, ReviewBatch
   and PokeResolution's rows: one event's poke from webhook to strike, with the row filed
   after the post.
2. **SlackPanel**: slackLogic over SlackConnection.
3. Abstract specifications of a subscription (it exists only where its owner asked and the
   installation stands) and of a session (live, ending, over), refined by Connections and
   Sessions.
4. Proofs: the refinements of item 3.
