------------------------------ MODULE InboxRows ------------------------------
(***************************************************************************)
(* What an inbox holds and how it is read: the rules that sort GitHub's pull   *)
(* requests into headings, half of them when a snapshot is built (classify)      *)
(* and half each time it is served (groupWaitingOnYou), the settings those        *)
(* rules answer to, the forms the settings travel in, and the panel that           *)
(* moves them.  When each of these runs is the matter of Inbox and InboxPage.       *)
(*                                                                           *)
(* A login, or an org/slug, is who it names and whether it is spelled in            *)
(* capitals.  Time is in hours.                                                      *)
(***************************************************************************)
EXTENDS Integers, FiniteSets, SequencesExt

CONSTANTS
    Words,      \* the logins and slugs there are, the empty one and a deleted account's among them
    Githubs,    \* what GitHub may answer: facts, of each half Refused or Said(a sequence
                \* of nodes), and of teams which it names, and of each its members
    Rows,       \* what inboxSettings may hold before the panel is touched
    Typed,      \* the logins somebody may type into the panel, of the letters LIST_ENTRY lets through
    MaxTeams,   \* MAX_TEAMS
    MaxPresses  \* bound: how often the panel is pressed

ASSUME BoundsAssumption == MaxTeams \in Nat \ {0} /\ MaxPresses \in Nat

Now       == 1000
Unread    == -1               \* a timestamp nothing can be made of, or none
Refused   == <<>>             \* GitHub would not say
Said(x)   == <<x>>            \* and what it did
NoSnapshot == [at |-> "none"]
Viewer    == "me"

ASSUME WordsAssumption == {"", "ghost"} \subseteq Words

Names == [of : Words, capitals : BOOLEAN]
Nameless == [of |-> "", capitals |-> FALSE]     \* what an empty string splits into

Nodes ==
    [id : Int, number : Int, whole : BOOLEAN, by : Names, machine : BOOLEAN, isDraft : BOOLEAN,
     updatedAt : (Nat \ {0}) \cup {Unread}, mergedAt : (Nat \ {0}) \cup {Unread},
     hasUnresolvedThreads : BOOLEAN, reviewDecision : STRING]

Lists == {"excludedTeams", "ignoredAuthors"}
Halves == {"yours", "merged", "waitingOnYou"}

\* A pull request is named once in a half, and one that was merged is not open.
ASSUME GithubsAssumption ==
    \A github \in Githubs :
        /\ github.facts \in [Halves -> Seq(Seq(Nodes))]
        /\ \A half \in Halves : Len(github.facts[half]) <= 1
        /\ \A half \in Halves : github.facts[half] # Refused =>
              \A i, j \in DOMAIN github.facts[half][1] :
                 github.facts[half][1][i].id = github.facts[half][1][j].id => i = j
        /\ github.facts.yours # Refused /\ github.facts.merged # Refused =>
              \A i \in DOMAIN github.facts.yours[1], j \in DOMAIN github.facts.merged[1] :
                 github.facts.yours[1][i].id # github.facts.merged[1][j].id
        /\ github.answer.named \in Seq(Seq(Names)) /\ Len(github.answer.named) <= 1
        /\ \A team \in DOMAIN github.answer.members :
              team \in Names /\ team.of # "" /\ github.answer.members[team] \in Seq(SUBSET Names)
        /\ github.answer.named # Refused => ToSet(github.answer.named[1]) \subseteq DOMAIN github.answer.members

\* What a deploy may have left in a row; and the panel lets no empty login through.
ASSUME RowsAssumption ==
    \A stored \in Rows :
        /\ \A name \in DOMAIN stored \cap Lists : stored[name] \in Seq(Names)
        /\ \A name \in DOMAIN stored \cap {"includeApproved", "separateTeam", "separateBots"} :
              stored[name] \in BOOLEAN
ASSUME TypedAssumption == \A login \in Typed : login \in Names /\ login.of # ""

VARIABLES
    facts, answer, \* GitHub's side, which does not move here
    inboxSettings, \* the user row's: only the filters it has a value for
    snapshots,     \* InboxStoreService: what is filed, by key
    presses        \* how often the panel was pressed

rowsVars == <<facts, answer, inboxSettings, snapshots, presses>>

toLowerCase(name) == [name EXCEPT !.capitals = FALSE]

\* What s holds at the places I, in the order of the pairs of places in earlier.
arranged(s, I, earlier) ==
    [n \in 1 .. Cardinality(I) |->
        s[CHOOSE i \in I : Cardinality({j \in I : <<j, i>> \in earlier}) = n - 1]]

\* And in the order they are in.
filtered(s, I) == arranged(s, I, {pair \in I \X I : pair[1] < pair[2]})

----------------------------------------------------------------------------
\* inbox-filters.interface.ts and the query it arrives by.
RECENT_DRAFT_WINDOW_MS == [w \in {"6h", "12h", "1d", "3d", "7d"} |->
    IF w = "6h" THEN 6 ELSE IF w = "12h" THEN 12 ELSE IF w = "1d" THEN 24 ELSE IF w = "3d" THEN 72 ELSE 168]

RECENT_DRAFTS_VALUES == {"off"} \cup DOMAIN RECENT_DRAFT_WINDOW_MS
DEFAULT_RECENT_DRAFT_WINDOW == "1d"

DEFAULT_INBOX_FILTERS ==
    [includeApproved |-> FALSE, recentDrafts |-> DEFAULT_RECENT_DRAFT_WINDOW, separateTeam |-> TRUE,
     separateBots |-> TRUE, excludedTeams |-> <<>>, ignoredAuthors |-> <<>>]

\* A Set keeps what it is given in the order each was first given.
normalizeFilterList(values) ==
    LET lower == [i \in DOMAIN values |-> toLowerCase(values[i])]
        first == {i \in DOMAIN lower : \A j \in DOMAIN lower : j < i => lower[j] # lower[i]}
    IN  filtered(lower, {i \in first : lower[i] # Nameless})

\* Mutant of Filled: what a row says no to reads as what it never said.
Filled_Or(given, name) ==
    IF name \in DOMAIN given /\ (name \in {"separateTeam", "separateBots"} => given[name]) THEN given[name]
    ELSE DEFAULT_INBOX_FILTERS[name]

Filled(given, name) == IF name \in DOMAIN given THEN given[name] ELSE DEFAULT_INBOX_FILTERS[name]

\* A stored window this deploy does not know reads as the default.
normalizeInboxSettings(stored) ==
    [name \in DOMAIN DEFAULT_INBOX_FILTERS |->
        IF name \in Lists THEN normalizeFilterList(Filled(stored, name))
        ELSE IF name = "recentDrafts" /\ Filled(stored, name) \notin RECENT_DRAFTS_VALUES
             THEN DEFAULT_RECENT_DRAFT_WINDOW
             ELSE Filled(stored, name)]

\* filterParams: every filter is sent, a list joined with commas.
filterParams(filters) ==
    [name \in DOMAIN filters |->
        IF name \in Lists /\ filters[name] = <<>> THEN <<Nameless>> ELSE filters[name]]

\* toList: an empty string is an empty list and not a list of nothing.
toList(parts) == filtered(parts, {i \in DOMAIN parts : parts[i] # Nameless})

\* toInboxFilters, for a query the validators let through.
toInboxFilters(query) ==
    [name \in DOMAIN DEFAULT_INBOX_FILTERS |->
        IF name \in Lists THEN normalizeFilterList(toList(Filled(query, name))) ELSE Filled(query, name)]

\* Mutant of inboxFiltersKey: the window is forgotten where the key is put together.
inboxFiltersKey_Short(filters) == <<filters.includeApproved>>

inboxFiltersKey(filters) == <<filters.includeApproved, filters.recentDrafts>>

\* What a snapshot may be filed under, whatever else is set.
BuildHalf(includeApproved, recentDrafts) ==
    [DEFAULT_INBOX_FILTERS EXCEPT !.includeApproved = includeApproved, !.recentDrafts = recentDrafts]
BuildKeys == {inboxFiltersKey(BuildHalf(i, r)) : i \in BOOLEAN, r \in RECENT_DRAFTS_VALUES}

----------------------------------------------------------------------------
\* GithubInboxDataService: what a node of an answer is read as.

epochMs(timestamp) == IF timestamp = Unread THEN 0 ELSE timestamp

\* A deleted account's pull request has no author.
authorLogin(node) == IF node.by = Nameless THEN [of |-> "ghost", capitals |-> FALSE] ELSE node.by
authorIsBot(node) == node.machine \/ authorLogin(node).of = "robot[bot]"

\* A search that failed is an empty one, and a node of it that is not whole is dropped.
normalizeSearch(search) ==
    IF search = Refused THEN <<>>
    ELSE filtered(search[1], {i \in DOMAIN search[1] : search[1][i].whole})

----------------------------------------------------------------------------
\* GithubViewerTeamsDataService.load: the teams whose members GitHub would list.  Refused
\* where it would not name the teams, or named some and listed the members of none.

\* Mutant of load: with nobody's members to be had, there are no teams.
load_NoneForUnknown(told) ==
    IF told.named = Refused THEN Refused
    ELSE LET named == told.named[1]
         IN  Said(filtered(named, {i \in DOMAIN named : told.members[named[i]] # Refused}))

load(told) ==
    IF told.named = Refused THEN Refused
    ELSE LET named    == told.named[1]
             asked    == {i \in DOMAIN named : i <= MaxTeams}
             resolved == {i \in asked : told.members[named[i]] # Refused}
         IN  IF asked # {} /\ resolved = {} THEN Refused ELSE Said(filtered(named, resolved))

\* What names a team from there on: org/slug, lowercased.
KeyOf(team) == toLowerCase(team)

teamsByMember(teams, login) ==
    IF teams = Refused THEN {}
    ELSE {KeyOf(team) : team \in {t \in ToSet(teams[1]) :
              toLowerCase(login) \in {toLowerCase(member) : member \in answer.members[t][1]}}}

----------------------------------------------------------------------------
\* inbox-classifier.ts, when a snapshot is built.

yoursSection(node, filters) ==
    IF node.isDraft
    THEN IF /\ filters.recentDrafts # "off"
            /\ Now - epochMs(node.updatedAt) < RECENT_DRAFT_WINDOW_MS[filters.recentDrafts]
         THEN "recent-drafts" ELSE "drafts"
    ELSE IF node.hasUnresolvedThreads THEN "unresolved-comments"
    ELSE IF node.reviewDecision = "APPROVED" THEN "approved"
    ELSE "waiting-for-reviewers"

\* Newest first by a timestamp, and the larger number first of two in one second.
Newest(nodes, timestamp) ==
    LET places == DOMAIN nodes
        sooner(a, b) ==
            \/ timestamp[a] > timestamp[b]
            \/ timestamp[a] = timestamp[b] /\ nodes[a].number > nodes[b].number
            \/ timestamp[a] = timestamp[b] /\ nodes[a].number = nodes[b].number /\ a < b
    IN  arranged(nodes, places, {pair \in places \X places : sooner(pair[1], pair[2])})

byRecency(nodes) == Newest(nodes, [i \in DOMAIN nodes |-> epochMs(nodes[i].updatedAt)])
byMergedRecency(nodes) == Newest(nodes, [i \in DOMAIN nodes |-> epochMs(nodes[i].mergedAt)])

isWaitingOnYou(node, filters) ==
    /\ toLowerCase(authorLogin(node)).of # Viewer
    /\ filters.includeApproved \/ node.reviewDecision # "APPROVED"

YOURS_SECTIONS == {"approved", "unresolved-comments", "waiting-for-reviewers", "recent-drafts", "drafts", "merged"}
WAITING_SECTIONS == {"team", "others", "bots"}

Ids(rows) == [i \in DOMAIN rows |-> rows[i].id]

group(nodes, filters) ==
    [key \in YOURS_SECTIONS |->
        Ids(byRecency(filtered(nodes, {i \in DOMAIN nodes : yoursSection(nodes[i], filters) = key})))]

\* The row, and the two facts about its author that the view filters read later.
toStoredPullRequest(node, teams) ==
    [id |-> node.id, author |-> authorLogin(node), authorIsBot |-> authorIsBot(node),
     authorTeams |-> teamsByMember(teams, authorLogin(node))]

classify(filters) ==
    LET teams   == load(answer)
        others  == normalizeSearch(facts.waitingOnYou)
        waiting == byRecency(filtered(others, {i \in DOMAIN others : isWaitingOnYou(others[i], filters)}))
    IN  [at           |-> "filed",
         teams        |-> teams,
         yours        |-> [group(normalizeSearch(facts.yours), filters) EXCEPT
                              !["merged"] = Ids(byMergedRecency(normalizeSearch(facts.merged)))],
         waitingOnYou |-> [i \in DOMAIN waiting |-> toStoredPullRequest(waiting[i], teams)]]

----------------------------------------------------------------------------
\* inbox-classifier.ts, when a snapshot is served.

sharesTeam(row, excludedTeams) == \E key \in row.authorTeams : ~Contains(excludedTeams, key)

\* Mutant of waitingSection: a machine without a heading of its own has none at all.
waitingSection_BotsGone(row, filters) ==
    IF row.authorIsBot THEN IF filters.separateBots THEN "bots" ELSE "gone"
    ELSE IF filters.separateTeam /\ sharesTeam(row, filters.excludedTeams) THEN "team"
    ELSE "others"

waitingSection(row, filters) ==
    IF row.authorIsBot THEN IF filters.separateBots THEN "bots" ELSE "others"
    ELSE IF filters.separateTeam /\ sharesTeam(row, filters.excludedTeams) THEN "team"
    ELSE "others"

groupWaitingOnYou(rows, filters) ==
    LET kept == {i \in DOMAIN rows : ~Contains(filters.ignoredAuthors, toLowerCase(rows[i].author))}
    IN  [key \in WAITING_SECTIONS |->
            Ids(filtered(rows, {i \in kept : waitingSection(rows[i], filters) = key}))]

respond(snapshot, filters) ==
    [teams |-> snapshot.teams, yours |-> snapshot.yours,
     waitingOnYou |-> groupWaitingOnYou(snapshot.waitingOnYou, filters)]

----------------------------------------------------------------------------
\* The panel.

filters == normalizeInboxSettings(inboxSettings)   \* what the page is shown under
Snapshot == snapshots[inboxFiltersKey(filters)]
Response == respond(Snapshot, toInboxFilters(filterParams(filters)))
Answered == Snapshot # NoSnapshot

\* "Hide approved PRs" is the one switch that says the opposite of its filter.
inverted(key) == key = "includeApproved"
switchPosition(key) ==
    IF key = "recentDrafts" THEN filters[key] # "off"
    ELSE IF inverted(key) THEN ~filters[key] ELSE filters[key]

valueWhenPressed(key, on) == IF inverted(key) THEN on ELSE ~on

\* A setting is moved, and the whole set is saved as the body of one request.
Saves(key, value) ==
    /\ presses < MaxPresses /\ presses' = presses + 1
    /\ inboxSettings' = toInboxFilters([filters EXCEPT ![key] = value])
    /\ UNCHANGED <<facts, answer, snapshots>>

SwitchFilter(key) == Saves(key, valueWhenPressed(key, switchPosition(key)))

WindowFilter == Saves("recentDrafts", IF switchPosition("recentDrafts") THEN "off"
                                      ELSE DEFAULT_RECENT_DRAFT_WINDOW)

\* A span is only there to be picked while the switch above it is on.
WindowChoice(choice) ==
    filters.recentDrafts # "off" /\ choice # filters.recentDrafts /\ Saves("recentDrafts", choice)

TeamsFilter == Saves("separateTeam", ~filters.separateTeam)

Without(list, name) == filtered(list, {i \in DOMAIN list : list[i] # name})

\* Only the teams of the answer on screen are drawn.
TeamRow(key) ==
    /\ Answered /\ filters.separateTeam /\ Response.teams # Refused
    /\ \E team \in ToSet(Response.teams[1]) : KeyOf(team) = key
    /\ Saves("excludedTeams", IF Contains(filters.excludedTeams, key) THEN Without(filters.excludedTeams, key)
                              ELSE Append(filters.excludedTeams, key))

\* LoginsInput: a login is lowercased as it is committed, and one already there is no news.
AuthorCommitted(login) ==
    /\ ~Contains(filters.ignoredAuthors, toLowerCase(login))
    /\ Saves("ignoredAuthors", Append(filters.ignoredAuthors, toLowerCase(login)))

AuthorRemoved(login) ==
    Contains(filters.ignoredAuthors, login) /\ Saves("ignoredAuthors", Without(filters.ignoredAuthors, login))

\* A refresh under the settings as they are files a snapshot under its build half.
Refreshes ==
    /\ ~Answered
    /\ snapshots' = [snapshots EXCEPT ![inboxFiltersKey(filters)] = classify(filters)]
    /\ UNCHANGED <<facts, answer, inboxSettings, presses>>

RowsInit ==
    /\ \E github \in Githubs : facts = github.facts /\ answer = github.answer
    /\ inboxSettings \in Rows
    /\ snapshots = [key \in BuildKeys |-> NoSnapshot]
    /\ presses = 0

RowsNext ==
    \/ Refreshes
    \/ \E key \in {"includeApproved", "separateBots"} : SwitchFilter(key)
    \/ WindowFilter \/ TeamsFilter
    \/ \E choice \in DOMAIN RECENT_DRAFT_WINDOW_MS : WindowChoice(choice)
    \/ \E team \in DOMAIN answer.members : TeamRow(KeyOf(team))
    \/ \E login \in Typed : AuthorCommitted(login) \/ AuthorRemoved(toLowerCase(login))

----------------------------------------------------------------------------
\* The properties.

WholeIn(half) == ToSet(normalizeSearch(facts[half]))
Under(sections, id) == {key \in DOMAIN sections : Contains(sections[key], id)}
SpelledIn(list, login) == \E i \in DOMAIN list : list[i].of = login.of

\* Moving a heading never loses a row: each pull request GitHub named as theirs is under
\* one heading, and each it named as waiting on them is too, unless it is their own,
\* by somebody they ignore however either is spelled, or approved and they did not ask for those.
NothingGoesMissing ==
    Answered =>
        /\ \A node \in WholeIn("yours") \cup WholeIn("merged") : Cardinality(Under(Response.yours, node.id)) = 1
        /\ \A node \in WholeIn("waitingOnYou") :
              LET unwanted == \/ authorLogin(node).of = Viewer
                              \/ SpelledIn(filters.ignoredAuthors, authorLogin(node))
                              \/ node.reviewDecision = "APPROVED" /\ ~filters.includeApproved
              IN  Cardinality(Under(Response.waitingOnYou, node.id)) = IF unwanted THEN 0 ELSE 1

\* "Your team" is what the panel says it is: whoever is in a team drawn with a tick, on the
\* strength of any one of them, and nobody on the strength of a team that is not drawn.  And
\* somebody GitHub named a team for is never told that they are in none.
TeamMeansWhatIsTicked ==
    Answered =>
        /\ answer.named \notin {Refused, Said(<<>>)} => Response.teams # Said(<<>>)
        /\ \A node \in WholeIn("waitingOnYou") :
              LET drawn == IF Response.teams = Refused THEN {} ELSE ToSet(Response.teams[1])
                  mates == UNION {answer.members[team][1] : team \in {t \in drawn : ~SpelledIn(filters.excludedTeams, t)}}
              IN  Under(Response.waitingOnYou, node.id) \cap {"team"} # {} <=>
                    /\ Under(Response.waitingOnYou, node.id) # {}
                    /\ filters.separateTeam /\ ~authorIsBot(node)
                    /\ \E member \in mates : member.of = authorLogin(node).of

\* What is on screen was sorted under the settings that are set: a draft is under its own
\* heading if it moved within the span now in force, whichever spans were tried before it.
\* What GitHub gave no readable time for is last wherever it is.
SortedAsSet ==
    Answered =>
        /\ \A node \in WholeIn("yours") :
              Contains(Response.yours["recent-drafts"], node.id) <=>
                 /\ node.isDraft /\ filters.recentDrafts # "off" /\ node.updatedAt # Unread
                 /\ Now - node.updatedAt < RECENT_DRAFT_WINDOW_MS[filters.recentDrafts]
        /\ \A key \in YOURS_SECTIONS \ {"merged"} :
              \A i, j \in DOMAIN Response.yours[key] :
                 LET at(n) == CHOOSE node \in WholeIn("yours") : node.id = Response.yours[key][n]
                 IN  i < j => at(i).updatedAt >= at(j).updatedAt

Positions == [key \in {"includeApproved", "recentDrafts", "separateTeam", "separateBots"} |-> switchPosition(key)]

MovesASwitch ==
    \E key \in DOMAIN Positions :
        /\ Positions' = [Positions EXCEPT ![key] = ~@]
        /\ \A list \in Lists : filters'[list] = filters[list]
MovesOneOther ==
    /\ Positions' = Positions
    /\ Cardinality({name \in DOMAIN filters : filters'[name] # filters[name]}) = 1

\* A press moves the switch that was pressed, to where it was not, and no other: whatever the
\* row held before it, of a deploy that knew fewer settings or more.
PressMovesOne == [][ presses' # presses => MovesASwitch \/ MovesOneOther ]_rowsVars

RowsSpec == RowsInit /\ [][RowsNext]_rowsVars

\* Every row is where the settings in force put it: none goes missing, the team heading is what the
\* panel ticks, and the spans and orders are those that are set (classify, groupWaitingOnYou).
RowsWhereTheyBelong == NothingGoesMissing /\ TeamMeansWhatIsTicked /\ SortedAsSet
=============================================================================
