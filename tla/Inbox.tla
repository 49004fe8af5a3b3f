------------------------------- MODULE Inbox -------------------------------
(***************************************************************************)
(* The server's half of the inbox.  A snapshot is a person's pull requests as       *)
(* GitHub last told them, built under half of the settings and filed under that      *)
(* half; the other half is applied when it is served.  Reading never asks GitHub,     *)
(* only a refresh does, and both the page and a timed sweep start those.                *)
(*                                                                           *)
(* A call is a request of the page, or one of the sweep's workers.  GitHub's side      *)
(* of the story is a version number, a set of settings its two halves b and v.           *)
(***************************************************************************)
EXTENDS Integers, FiniteSets

CONSTANTS
    Users, Me,        \* the people the sweep knows of, and the one whose page is modelled
    Calls, Workers,   \* the requests the page may have under way, and CONCURRENCY
    Settings,         \* sets of settings: the half a snapshot is built under, and the rest
    Stories           \* how much happens in a behaviour, and what may go wrong

ASSUME PeopleAssumption == IsFiniteSet(Users) /\ Me \in Users /\ Users = 1 .. Cardinality(Users)
ASSUME CallsAssumption  == Calls \cup Workers \subseteq Nat \ {0} /\ Calls \cap Workers = {}
ASSUME SettingsAssumption == Settings \subseteq [b : Nat, v : Nat] /\ [b |-> 0, v |-> 0] \in Settings
ASSUME StoriesAssumption ==
    Stories \subseteq [presses : Nat, moves : Nat, opens : Nat, turns : Nat, kinds : SUBSET STRING,
                      broken : SUBSET Users, sweeps : BOOLEAN]

VARIABLES
    story,      \* what may still happen
    truth,      \* GitHub's side: the version of everybody's pull requests
    token,      \* githubAccessToken: a token's number, 0 when there is none
    withdrawn,  \* the tokens GitHub refuses
    age,        \* inboxLastUsedAt, in days, counted to Recently
    stored,     \* inboxSettings
    snapshot,   \* InMemoryCacheService, under inbox-snapshot: per person and build key
    call,       \* the calls
    warming       \* the sweep: whether one is on, whom it has left to warm, and whether a day may pass

serverVars == <<truth, token, withdrawn, age, stored, snapshot, warming>>

Default == [b |-> 0, v |-> 0]
Unused  == 2     \* ACTIVE_WITHIN_MS, in days

\* No answer: a snapshot that is not there, and a response without refreshedAt.
Blank == [ver |-> -1, b |-> 0]
Free  == [kind |-> "none", at |-> "free", here |-> TRUE, u |-> Me, f |-> Default, token |-> 0, got |-> Blank]

Asked(kind, u, f) == [Free EXCEPT !.kind = kind, !.at = "sent", !.u = u, !.f = f]

\* One of the turns the story may take.
Turn(kind) == story.turns > 0 /\ kind \in story.kinds /\ story' = [story EXCEPT !.turns = @ - 1]

ServerInit ==
    /\ story \in Stories
    /\ truth = 0
    /\ token = [u \in Users |-> u]
    /\ withdrawn = {}
    /\ age = [u \in Users |-> 0]
    /\ stored = [u \in Users |-> Default]
    /\ snapshot = [u \in Users |-> [k \in {s.b : s \in Settings} |-> Blank]]
    /\ call = [c \in Calls \cup Workers |-> Free]
    /\ warming = [on |-> FALSE, due |-> {}, since |-> FALSE]

----------------------------------------------------------------------------
\* InboxStoreService.

\* Mutant of inboxFiltersKey: every build of a person's inbox is filed in one place.
inboxFiltersKey_One(b) == 0

inboxFiltersKey(b) == b

read(u, f) == snapshot[u][inboxFiltersKey(f.b)]
write(u, b, ver) == snapshot' = [snapshot EXCEPT ![u] = [@ EXCEPT ![inboxFiltersKey(b)] = [ver |-> ver, b |-> b]]]

----------------------------------------------------------------------------
\* What becomes of a call.

\* A warmed person's result is counted and the worker free; the page's is on its way back.
Responds(c, got) ==
    call' = [call EXCEPT ![c] = IF @.kind = "warm" THEN Free ELSE [@ EXCEPT !.at = "answered", !.got = got]]

\* Mutant of Throws: what one person's inbox throws ends the sweep for those behind them.
Throws_EndsTheSweep(c) ==
    /\ call' = [call EXCEPT ![c] = IF @.kind = "warm" THEN Free ELSE [@ EXCEPT !.at = "failed"]]
    /\ warming' = IF call[c].kind = "warm" THEN [warming EXCEPT !.due = {}] ELSE warming

\* An error answers the page with a failure, and is caught by warm.
Throws(c) ==
    /\ call' = [call EXCEPT ![c] = IF @.kind = "warm" THEN Free ELSE [@ EXCEPT !.at = "failed"]]
    /\ UNCHANGED warming

\* InboxService.readForUser: whatever was last written down, however old.
Reads(c) ==
    /\ call[c].at = "sent" /\ call[c].kind \in {"load", "reread"}
    /\ Responds(c, read(call[c].u, call[c].f))
    /\ UNCHANGED <<story, serverVars>>

\* UserWriteService.updateInboxSettings: the whole set is replaced, and answered with.
Updates(c) ==
    /\ call[c].at = "sent" /\ call[c].kind = "save"
    /\ stored' = [stored EXCEPT ![call[c].u] = call[c].f]
    /\ Responds(c, Blank)
    /\ UNCHANGED <<story, truth, token, withdrawn, age, snapshot, warming>>

\* Mutant of recordUse: whoever is refreshed counts as having asked.
recordUse_Anybody(c) == age' = [age EXCEPT ![call[c].u] = 0]

\* InboxService.recordUse: the endpoint's refresh is stamped, the sweep's is not.
recordUse(c) == age' = IF call[c].kind = "refresh" THEN [age EXCEPT ![call[c].u] = 0] ELSE age

\* What a refresh that came to nothing answers with: what is stored, or a blank.
GivesUp(c) == Responds(c, read(call[c].u, call[c].f))

\* A refresh starts: the user row is read, and without a token there is nothing to ask with.
Begins(c) ==
    /\ call[c].at = "sent" /\ call[c].kind \in {"refresh", "warm"}
    /\ recordUse(c)
    /\ \/ /\ token[call[c].u] = 0
          /\ GivesUp(c)
       \/ /\ token[call[c].u] # 0
          /\ call' = [call EXCEPT ![c] = [@ EXCEPT !.at = "asking", !.token = token[call[c].u]]]
    /\ UNCHANGED <<story, truth, token, withdrawn, stored, snapshot, warming>>

\* GitHub answers the query; the teams are asked for next, and their lack is no failure.
GithubAnswers(c) ==
    /\ call[c].at = "asking" /\ call[c].token \notin withdrawn /\ call[c].u \notin story.broken
    /\ call' = [call EXCEPT ![c] = [@ EXCEPT !.at = "seen", !.got = [ver |-> truth, b |-> call[c].f.b]]]
    /\ UNCHANGED <<story, serverVars>>

\* The token was withdrawn: the row's is cleared, whichever it is by now.
GithubRefuses(c) ==
    /\ call[c].at = "asking" /\ call[c].token \in withdrawn
    /\ token' = [token EXCEPT ![call[c].u] = 0]
    /\ GivesUp(c)
    /\ UNCHANGED <<story, truth, withdrawn, age, stored, snapshot, warming>>

\* GitHub does not answer, or not usefully.
GithubIsUnavailable(c) ==
    /\ call[c].at = "asking" /\ Turn("unavailable")
    /\ GivesUp(c)
    /\ UNCHANGED serverVars

\* Something throws on the way, always for whoever's inbox is broken.
Breaks(c) ==
    /\ call[c].at = "asking"
    /\ \/ call[c].u \in story.broken /\ UNCHANGED story
       \/ Turn("throws")
    /\ Throws(c)
    /\ UNCHANGED <<truth, token, withdrawn, age, stored, snapshot>>

\* The answer is classified, written down and responded with.
Files(c) ==
    /\ call[c].at = "seen"
    /\ write(call[c].u, call[c].f.b, call[c].got.ver)
    /\ Responds(c, call[c].got)
    /\ UNCHANGED <<story, truth, token, withdrawn, age, stored, warming>>

Serves(c) ==
    \/ Reads(c) \/ Updates(c) \/ Begins(c) \/ GithubAnswers(c) \/ GithubRefuses(c) \/ Breaks(c) \/ Files(c)

----------------------------------------------------------------------------
\* InboxWarmerService.

\* Who has been here lately and holds a token, with the settings they stored.
readInboxWarmTargets == {[u |-> u, f |-> stored[u]] : u \in {w \in Users : age[w] < Unused /\ token[w] # 0}}

\* A pass begins, unless one is still on.
Sweeps ==
    /\ story.sweeps /\ ~warming.on
    /\ warming' = [warming EXCEPT !.on = TRUE, !.due = readInboxWarmTargets]
    /\ UNCHANGED <<story, truth, token, withdrawn, age, stored, snapshot, call>>

\* A worker of the pool takes the next person.
Takes(w) ==
    /\ warming.on /\ call[w].at = "free"
    /\ \E d \in warming.due :
         /\ warming' = [warming EXCEPT !.due = @ \ {d}]
         /\ call' = [call EXCEPT ![w] = Asked("warm", d.u, d.f)]
    /\ UNCHANGED <<story, truth, token, withdrawn, age, stored, snapshot>>

SweepEnds ==
    /\ warming.on /\ warming.due = {} /\ \A w \in Workers : call[w].at = "free"
    /\ warming' = [on |-> FALSE, due |-> {}, since |-> TRUE]
    /\ UNCHANGED <<story, truth, token, withdrawn, age, stored, snapshot, call>>

----------------------------------------------------------------------------
\* The world around them.

\* A day passes, which is sweeps and sweeps: one at the least has ended in it.
DayPasses ==
    /\ warming.since
    /\ age' = [u \in Users |-> IF age[u] < Unused THEN age[u] + 1 ELSE Unused]
    /\ warming' = [warming EXCEPT !.since = FALSE]
    /\ UNCHANGED <<story, truth, token, withdrawn, stored, snapshot, call>>

\* Somebody opens, merges or reviews a pull request.
GithubMoves ==
    /\ story.moves > 0
    /\ story' = [story EXCEPT !.moves = @ - 1]
    /\ truth' = truth + 1
    /\ UNCHANGED <<token, withdrawn, age, stored, snapshot, call, warming>>

\* proke is revoked on GitHub's side.
Withdraws ==
    /\ token[Me] # 0 /\ token[Me] \notin withdrawn /\ Turn("withdrawn")
    /\ withdrawn' = withdrawn \cup {token[Me]}
    /\ UNCHANGED <<truth, token, age, stored, snapshot, call, warming>>

\* The reader signs in again, with a new token.
LogsIn ==
    /\ withdrawn # {} /\ token[Me] \in withdrawn \cup {0}
    /\ token' = [token EXCEPT ![Me] = Cardinality(Users) + Cardinality(withdrawn)]
    /\ UNCHANGED <<story, truth, withdrawn, age, stored, snapshot, call, warming>>

\* SNAPSHOT_TTL_MS passes.
Expires ==
    /\ \E u \in Users, k \in {s.b : s \in Settings} :
         /\ snapshot[u][k] # Blank /\ Turn("expiry")
         /\ snapshot' = [snapshot EXCEPT ![u] = [@ EXCEPT ![k] = Blank]]
    /\ UNCHANGED <<truth, token, withdrawn, age, stored, call, warming>>

\* A deploy: snapshots, sweep and whatever was being answered are gone.
Restarts ==
    /\ Turn("restart")
    /\ snapshot' = [u \in Users |-> [k \in {s.b : s \in Settings} |-> Blank]]
    /\ warming' = [on |-> FALSE, due |-> {}, since |-> FALSE]
    /\ call' = [c \in Calls \cup Workers |->
                 IF c \in Workers THEN Free
                 ELSE IF call[c].at \in {"asking", "seen"} THEN [call[c] EXCEPT !.at = "failed"]
                 ELSE call[c]]
    /\ UNCHANGED <<truth, token, withdrawn, age, stored>>

World == GithubMoves \/ Withdraws \/ LogsIn \/ Expires \/ Restarts

============================================================================
