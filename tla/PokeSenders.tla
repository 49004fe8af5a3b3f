---------------------------- MODULE PokeSenders ----------------------------
(***************************************************************************)
(* Who has been poking one person, and how much: PokeSenderStoreService counts the pokes     *)
(* the webhook router sends and keeps back, and the panel of PokeSettings suggests from the   *)
(* count which bots to keep out or let in.                                                    *)
(*                                                                           *)
(* The row is a set of senders; what order it is in matters only to who falls off its end,     *)
(* where ties may fall either way.  Of the router here is what counting hangs on: the mutes     *)
(* and the bot rules, under the settings as stored (Routing has the rest).                      *)
(***************************************************************************)
EXTENDS PokeSettings

CONSTANTS
    Pokes,          \* pokes explored: type, account, author, and the piece of what, or NoPiece
    NoPiece,
    Talking,        \* the kinds that are somebody talking
    POKE_SENDERS_MAX, POKE_SENDERS_WINDOW, MAX_SUGGESTIONS

ASSUME StoreAssumption ==
    /\ POKE_SENDERS_MAX \in Nat \ {0} /\ POKE_SENDERS_WINDOW \in Nat /\ MAX_SUGGESTIONS \in Nat
    /\ \A p \in Pokes : \A account \in {p.account, p.author} : account.login \in Logins /\ account.bot \in BOOLEAN

VARIABLES
    senders,   \* the row of the store: who, whether a bot, count, held, when last
    pieces,    \* the cache: pieces counted already, each with the outcome
    day,
    offered,   \* what the dashboard read of the row as it opened
    told       \* history: the pokes there have been, as the person would count them

vars == <<settingsVars, senders, pieces, day, offered, told>>
storeVars == <<senders, pieces, day, offered, told>>

----------------------------------------------------------------------------
\* The router's decision.

looksLikeBot(account) == account.bot
isAllowed(s, account) == s.botMode = "none" /\ account.login \in s.allowedBots
isBlocked(s, account) == s.botMode = "all" /\ account.login \in s.blockedBots
isBotFor(s, account) == ~isAllowed(s, account) /\ (isBlocked(s, account) \/ looksLikeBot(account))

\* Whether the bot rules keep a poke back: a bot's talking always, what it does where bots are
\* off or it is blocked, unless it passes on the ask of a person.
botDropReason(s, p) ==
    /\ isBotFor(s, p.account)
    /\ \/ p.type \in Talking
       \/ /\ s.botMode = "none" \/ isBlocked(s, p.account)
          /\ p.type = "review_requested" => isBotFor(s, p.author)

\* One person's share of a webhook that carries one poke: muted, kept back or sent.
Outcome(p) ==
    LET s == normalizePokeSettings(row.settings)
    IN  IF p.type \in s.mutedTypes THEN "muted" ELSE IF botDropReason(s, p) THEN "held" ELSE "reached"

----------------------------------------------------------------------------
\* Counting.

Recent(set) == {x \in set : x.lastAt >= day - POKE_SENDERS_WINDOW}

\* Mutant of Outranks: how much they poke goes before what they are.
Outranks_ByCount(a, b) == a.count > b.count \/ (a.count = b.count /\ a.lastAt > b.lastAt)

\* Bots first, then the most poking, then the most recent.
Outranks(a, b) ==
    \/ a.bot /\ ~b.bot
    \/ a.bot = b.bot /\ a.count > b.count
    \/ a.bot = b.bot /\ a.count = b.count /\ a.lastAt > b.lastAt

\* The senders a full row keeps when it makes room for one: all but the last.
Kept(live) ==
    {kept \in SUBSET live :
        /\ Cardinality(kept) = (IF Cardinality(live) < POKE_SENDERS_MAX THEN Cardinality(live)
                                ELSE POKE_SENDERS_MAX - 1)
        /\ \A k \in kept, d \in live \ kept : ~Outranks(d, k)}

\* Mutant of countingPipeline: the account is added without a look for it among the rest.
countingPipeline_Adds(account, held) ==
    {kept \cup {[login |-> account.login, bot |-> looksLikeBot(account), count |-> 1,
                 held |-> held, lastAt |-> day]} : kept \in Kept(Recent(senders))}

\* The rows one counted poke may leave: the stale forgotten, the account bumped or added.
countingPipeline(account, held) ==
    LET live == Recent(senders)
        own  == {x \in live : x.login = account.login}
        New(count, of) == [login |-> account.login, bot |-> looksLikeBot(account), count |-> count,
                           held |-> of, lastAt |-> day]
    IN  IF own = {} THEN {kept \cup {New(1, held)} : kept \in Kept(live)}
        ELSE {(live \ own) \cup {New(x.count + 1, x.held + held) : x \in own}}

\* Mutant of AlreadyCounted: pieces are told apart, however they came.
AlreadyCounted_Never(p, outcome) == FALSE

\* Once per poke and outcome rather than once per webhook.
AlreadyCounted(p, outcome) == p.piece # NoPiece /\ <<outcome, p.piece>> \in pieces

\* A piece is remembered before the write, so one that fails is a count lost for all of them.
record(p, outcome) ==
    IF AlreadyCounted(p, outcome) THEN UNCHANGED <<senders, pieces>>
    ELSE /\ pieces' = IF p.piece = NoPiece THEN pieces ELSE pieces \cup {<<outcome, p.piece>>}
         /\ \/ senders' \in countingPipeline(p.account, IF outcome = "held" THEN 1 ELSE 0)
            \/ "database" \in world.mishaps /\ UNCHANGED senders

\* What the person would count: each poke once, and a piece of one already there not again.
Tally(p, outcome) ==
    told' = told \cup {[login |-> p.account.login, outcome |-> outcome, day |-> day,
                        what |-> IF p.piece = NoPiece THEN Cardinality(told) ELSE 0, piece |-> p.piece]}

Poke(p) ==
    /\ Cardinality(told) < world.pokes
    /\ Outcome(p) # "muted"
    /\ record(p, Outcome(p))
    /\ Tally(p, Outcome(p))
    /\ UNCHANGED <<settingsVars, day, offered>>

\* What is remembered of a piece runs out, or the process restarts.
PiecesForgotten ==
    /\ "restart" \in world.mishaps \ past.mishaps /\ pieces # {}
    /\ pieces' = {}
    /\ Happens("restart")
    /\ UNCHANGED <<world, row, profile, panel, calls, senders, day, offered, told>>

DayPasses ==
    /\ day < world.days
    /\ day' = day + 1
    /\ pieces' = {}
    /\ UNCHANGED <<settingsVars, senders, offered, told>>

\* A row that nothing has been written to for the window is removed.
Expires ==
    /\ senders # {} /\ Recent(senders) = {}
    /\ senders' = {}
    /\ UNCHANGED <<settingsVars, pieces, day, offered, told>>

----------------------------------------------------------------------------
\* Reading and suggesting.

\* Everybody who has poked this person in the window.
read == {[login |-> x.login, bot |-> x.bot, reached |-> x.count - x.held, held |-> x.held]
            : x \in Recent(senders)}

\* The dashboard reads as it opens; a read that fails is an empty list, or a later one's.
loadSenders(fails) ==
    /\ panel.open /\ "senders" \in world.presses
    /\ offered' = IF fails THEN {} ELSE read
    /\ UNCHANGED <<settingsVars, senders, pieces, day, told>>

\* Mutant of Worth: under All bots, what was kept back counts too.
Worth_Both(x, mode) == x.reached + x.held

Worth(x, mode) == IF mode = "all" THEN x.reached ELSE x.reached + x.held

\* The bots the dialog offers for the list in force, most first.
suggestBots(s) ==
    LET bots == {x \in offered : /\ x.bot /\ x.login \notin s[Listed(s)]
                                 /\ Worth(x, s.botMode) > 0}
    IN  {x \in bots : Cardinality({y \in bots : Worth(y, s.botMode) > Worth(x, s.botMode)}) < MAX_SUGGESTIONS}

\* A suggestion taken is the same as the login typed in.
onPick(x) ==
    /\ x \in suggestBots(settings)
    /\ Press(Listed(settings), settings[Listed(settings)] \cup {x.login})
    /\ UNCHANGED storeVars

Init ==
    /\ SettingsInit
    /\ senders = {} /\ pieces = {} /\ day = 0 /\ offered = {} /\ told = {}

\* Leaving the dashboard unmounts what it read, too.
PanelStep ==
    /\ PanelNext
    /\ offered' = IF panel'.open THEN offered ELSE {}
    /\ UNCHANGED <<senders, pieces, day, told>>

Next ==
    \/ PanelStep
    \/ \E p \in Pokes : Poke(p)
    \/ PiecesForgotten \/ DayPasses \/ Expires
    \/ \E fails \in BOOLEAN : loadSenders(fails)
    \/ \E x \in offered : onPick(x)

Spec == Init /\ [][Next]_vars

----------------------------------------------------------------------------
\* Properties.

LoginsOf(set) == {x.login : x \in set}
SamePiece(t, u) == t.piece = u.piece /\ t.outcome = u.outcome /\ t.day = u.day

\* The row keeps its bound, nobody is in it twice, and of nobody was more kept back than came, over
\* any pokes, days and failures (poke-senders.entity.ts:54-69).
BoundedAndOnce ==
    /\ Cardinality(senders) <= POKE_SENDERS_MAX
    /\ Cardinality(LoginsOf(senders)) = Cardinality(senders)
    /\ \A x \in senders : 0 <= x.held /\ x.held <= x.count

\* Whoever falls off for a newcomer falls off a full row, and a bot only once nobody else is left
\* in it (poke-sender-store.service.ts:187-189).
RoomIsMadeByPeople ==
    [][\A x \in Recent(senders) : x.login \notin LoginsOf(senders') =>
          /\ Cardinality(Recent(senders)) = POKE_SENDERS_MAX
          /\ x.bot => \A y \in senders \cap senders' : y.bot]_vars

\* As long as nothing is stale, lost or crowded out, what is read counts every poke once, in
\* however many pieces it came, and once more where one piece was sent and another kept back
\* (poke-sender-store.service.ts:54-58).  Pieces are told apart without their account, so that a request
\* two people make within the time a piece is remembered counts for the first of them only.
CountsPokesOnce ==
    /\ day <= POKE_SENDERS_WINDOW
    /\ world.mishaps \cap {"restart", "database"} = {}
    /\ Cardinality(LoginsOf(told)) <= POKE_SENDERS_MAX
    /\ \A t, u \in told : t.piece # NoPiece /\ SamePiece(t, u) => t.login = u.login
    => \A l \in Logins :
          LET of(outcome) == Cardinality({t \in told : t.login = l /\ t.outcome = outcome})
          IN  {<<x.reached, x.held>> : x \in {y \in read : y.login = l}}
                = IF of("reached") + of("held") = 0 THEN {} ELSE {<<of("reached"), of("held")>>}

\* A bot offered for a list is not on it and earned its place: kept out is offered only what has
\* reached the person, let in only what has come their way, whatever has been pressed, poked
\* and forgotten since the row was read (PokesPanel.tsx:509-521).
SuggestsWithReason ==
    panel.open =>
        \A x \in suggestBots(settings) :
            /\ x.login \notin settings[Listed(settings)]
            /\ \E t \in told : t.login = x.login /\ (settings.botMode = "all" => t.outcome = "reached")

\* The suggestions rest on counts that are right: each bot that is offered earned its place, nobody is
\* counted twice for a piece or kept twice in the row, and the row keeps its bound
\* (suggestBots, record, countingPipeline).
SuggestsWhoPoked == SuggestsWithReason /\ CountsPokesOnce /\ BoundedAndOnce
=============================================================================
