---------------------------- MODULE PokeSettings ----------------------------
(***************************************************************************)
(* What one person has set about pokes: the row UserWriteService keeps, the save that     *)
(* PokeSettingsController takes, and pokeSettingsLogic under the dashboard's panel, which    *)
(* shows a press at once and saves the whole set behind it.                                 *)
(*                                                                           *)
(* A set of settings is a function from the fields it mentions; saving one is Over.  Lists   *)
(* are sets.  The two writes of a save that takes the day's digest are one here: Digest       *)
(* has them apart.                                                                          *)
(***************************************************************************)
EXTENDS Integers, FiniteSets

CONSTANTS
    Types,          \* kinds of poke
    Logins,         \* logins in the one spelling they are stored in
    Spellings,      \* logins as people write them
    LoginOf,        \* the login each of them is, NoLogin for what could not be one
    NoLogin,
    Hours,          \* the hours of the day explored
    HourNow,            \* and the one that it is
    Worlds          \* what is explored together: what is stored, which presses there are and at
                    \* most how many, what an older tab saves, and which mishaps may happen

ASSUME SpellingsAssumption ==
    /\ Logins \subseteq Spellings /\ NoLogin \notin Logins
    /\ LoginOf \in [Spellings -> Logins \cup {NoLogin}]
    /\ \A l \in Logins : LoginOf[l] = l
ASSUME HoursAssumption == 9 \in Hours /\ Hours \subseteq Int /\ HourNow \in Int

VARIABLES
    world,
    row,       \* the user row: settings, whether it has a zone, whether today's digest is taken
    profile,   \* authLogic's userData.pokeSettings, read when the app loads and not again
    panel,     \* the logic: whether it is mounted, edited, agreed (savedByServer), the notice
    calls,     \* saves under way
    past       \* history: what the presses meant, how many they and older tabs' saves are, mishaps

settingsVars == <<world, row, profile, panel, calls, past>>

----------------------------------------------------------------------------
\* Settings.

REVIEW_REQUEST_RESOLUTIONS == {"any_review", "strict"}
BOT_MODES == {"all", "none"}

DEFAULT_POKE_SETTINGS ==
    [mutedTypes |-> {}, reviewRequestResolution |-> "any_review", botMode |-> "all",
     allowedBots |-> {}, blockedBots |-> {}, digestEnabled |-> FALSE, digestHour |-> 9]
Fields == DOMAIN DEFAULT_POKE_SETTINGS

\* What a row, or a body, may hold: some of the fields, with values of any deploy's.
Storable(s) ==
    /\ s = [f \in DOMAIN s |-> s[f]] /\ DOMAIN s \subseteq Fields
    /\ \A f \in {"allowedBots", "blockedBots"} \cap DOMAIN s : s[f] \subseteq Spellings
    /\ "digestEnabled" \in DOMAIN s => s.digestEnabled \in BOOLEAN

ASSUME PanelWorldsAssumption == \A w \in Worlds : \A s \in w.stored \cup w.bodies : Storable(s)

\* What the first set mentions, and for the rest what the second does.
Over(a, b) == [f \in DOMAIN a \cup DOMAIN b |-> IF f \in DOMAIN a THEN a[f] ELSE b[f]]

normalizeAccountList(values) == {LoginOf[v] : v \in values} \ {NoLogin}

\* "custom" can only be a row an older tab saved, and meant no bots.
readBotMode(value) ==
    IF value = "custom" THEN "none"
    ELSE IF value \in BOT_MODES THEN value ELSE DEFAULT_POKE_SETTINGS.botMode

\* Fills in what a stored row leaves unsaid, and drops what it should not have said.
normalizePokeSettings(stored) ==
    LET said == Over(stored, DEFAULT_POKE_SETTINGS)
    IN  [mutedTypes |-> said.mutedTypes \cap Types,
         reviewRequestResolution |->
             IF said.reviewRequestResolution \in REVIEW_REQUEST_RESOLUTIONS
             THEN said.reviewRequestResolution ELSE DEFAULT_POKE_SETTINGS.reviewRequestResolution,
         botMode |-> readBotMode(said.botMode),
         allowedBots |-> normalizeAccountList(said.allowedBots),
         blockedBots |-> normalizeAccountList(said.blockedBots),
         digestEnabled |-> said.digestEnabled,
         digestHour |-> IF said.digestHour \in Hours THEN said.digestHour
                        ELSE DEFAULT_POKE_SETTINGS.digestHour]

\* What the validation lets through: a login is one, however it is spelled.
UpdatePokeSettingsBody(body) ==
    /\ {"mutedTypes"} \subseteq DOMAIN body /\ body.mutedTypes \subseteq Types
    /\ "reviewRequestResolution" \in DOMAIN body =>
          body.reviewRequestResolution \in REVIEW_REQUEST_RESOLUTIONS
    /\ "botMode" \in DOMAIN body => body.botMode \in BOT_MODES
    /\ \A f \in {"allowedBots", "blockedBots"} \cap DOMAIN body : \A v \in body[f] : LoginOf[v] # NoLogin
    /\ "digestHour" \in DOMAIN body => body.digestHour \in Hours

\* Mutant of updateSettings: what a client has not heard of goes back to its default.
updateSettings_Whole(body) ==
    [Over(body, DEFAULT_POKE_SETTINGS) EXCEPT !.allowedBots = normalizeAccountList(@),
                                              !.blockedBots = normalizeAccountList(@)]

\* The controller: the resolution left out is its default, whatever else is left out is left alone.
updateSettings(body) ==
    LET said == Over(body, [reviewRequestResolution |-> DEFAULT_POKE_SETTINGS.reviewRequestResolution])
    IN  [f \in DOMAIN said |-> IF f \in {"allowedBots", "blockedBots"}
                               THEN normalizeAccountList(said[f]) ELSE said[f]]

\* Mutant of Answer: what the save did not mention is answered with its default.
Answer_Default(settings) == Over(settings, DEFAULT_POKE_SETTINGS)

\* What a save answers with, and the row it leaves.
Answer(settings) == Over(settings, normalizePokeSettings(row.settings))

updatePokeSettings(settings, timezone) ==
    LET before      == normalizePokeSettings(row.settings)
        after       == Over(settings, before)
        switchedOn  == after.digestEnabled /\ ~before.digestEnabled
        zoneArrived == after.digestEnabled /\ ~row.zone /\ timezone
        claims      == (switchedOn \/ zoneArrived) /\ (timezone \/ row.zone) /\ HourNow >= after.digestHour
    IN  [settings |-> Over(settings, row.settings),
         zone     |-> row.zone \/ timezone,
         sent     |-> row.sent \/ claims]

----------------------------------------------------------------------------
\* The panel.

None == <<>>
saved == IF panel.agreed # None THEN panel.agreed ELSE profile
values == IF panel.edited # None THEN panel.edited ELSE saved
settings == IF values = None THEN DEFAULT_POKE_SETTINGS ELSE values[1]

\* The list that goes with the answer picked.
Listed(s) == IF s.botMode = "none" THEN "allowedBots" ELSE "blockedBots"

SettingsInit ==
    /\ world \in Worlds
    /\ row \in [settings : world.stored, zone : BOOLEAN, sent : {FALSE}]
    /\ profile = None
    /\ panel = [open |-> FALSE, edited |-> None, agreed |-> None, notice |-> FALSE, newest |-> 0]
    /\ calls = {}
    /\ past = [meant |-> normalizePokeSettings(row.settings), pressed |-> 0, others |-> 0,
               mishaps |-> {}]

Happens(mishap) == past' = [past EXCEPT !.mishaps = @ \cup {mishap}]

\* The dashboard is opened; the profile is read before anything of the app is drawn.
Open ==
    /\ ~panel.open
    /\ profile' = IF profile = None THEN <<normalizePokeSettings(row.settings)>> ELSE profile
    /\ panel' = [open |-> TRUE, edited |-> None, agreed |-> None, notice |-> FALSE, newest |-> 0]
    /\ past' = IF profile = None
               THEN [past EXCEPT !.meant = normalizePokeSettings(row.settings)]
               ELSE past
    /\ UNCHANGED <<world, row, calls>>

\* It is left for another page of the app, which unmounts the logic, or signed out of and in
\* again, which reads the profile anew.
Leave(signsOut) ==
    /\ "leaves" \in world.mishaps /\ panel.open /\ "leaves" \notin past.mishaps
    /\ panel' = [panel EXCEPT !.open = FALSE, !.edited = None, !.agreed = None,
                              !.notice = FALSE, !.newest = 0]
    /\ profile' = IF signsOut THEN None ELSE profile
    /\ Happens("leaves")
    /\ UNCHANGED <<world, row, calls>>

\* A press on one field: on screen now, and the whole set on its way to the account.
Submits(field, value, from) ==
    LET next == [from EXCEPT ![field] = value]
        id   == past.pressed + 1
    IN  /\ panel.open /\ id <= world.most
        /\ panel' = [panel EXCEPT !.edited = <<next>>, !.notice = FALSE, !.newest = id]
        /\ calls' = calls \cup {[id |-> id, body |-> next, at |-> "sent", answer |-> None]}
        /\ past' = [past EXCEPT !.pressed = id, !.meant = [@ EXCEPT ![field] = value]]
        /\ UNCHANGED <<world, row, profile>>

\* Mutant of Press: built on what the server last agreed to rather than on what is on screen.
Press_OnAgreed(field, value) == Submits(field, value, saved[1])

Press(field, value) == Submits(field, value, settings)

toggleType(t) ==
    /\ "types" \in world.presses
    /\ Press("mutedTypes", IF t \in settings.mutedTypes THEN settings.mutedTypes \ {t}
                           ELSE settings.mutedTypes \cup {t})

\* Quiet while there is nothing to cross out.
setReviewRequestResolution(r) ==
    /\ "resolution" \in world.presses /\ "review_requested" \notin settings.mutedTypes
    /\ Press("reviewRequestResolution", r)

setBotMode(m) == "bots" \in world.presses /\ Press("botMode", m)

\* A login typed, or a suggestion taken, where it is not there yet.
addLogin(v) ==
    LET login == LoginOf[v]
    IN  /\ "bots" \in world.presses
        /\ login # NoLogin /\ login \notin settings[Listed(settings)]
        /\ Press(Listed(settings), settings[Listed(settings)] \cup {login})

removeLogin(l) ==
    /\ "bots" \in world.presses
    /\ l \in settings[Listed(settings)]
    /\ Press(Listed(settings), settings[Listed(settings)] \ {l})

setDigestEnabled == "digest" \in world.presses /\ Press("digestEnabled", ~settings.digestEnabled)

\* The hour is there to choose while the digest is on.
setDigestHour(h) == "digest" \in world.presses /\ settings.digestEnabled /\ Press("digestHour", h)

dismissNotice ==
    /\ panel.notice
    /\ panel' = [panel EXCEPT !.notice = FALSE]
    /\ UNCHANGED <<world, row, profile, calls, past>>

----------------------------------------------------------------------------
\* Saves under way.

\* In the order they were sent, unless the world has them overtake one another.
Foremost == {c \in calls : c.at = "sent" /\ \A d \in calls : d.at = "sent" => c.id <= d.id}

\* The server takes a save; its answer arrives, or is lost.
Handled(c, received) ==
    /\ c.at = "sent"
    /\ c \in Foremost \/ "order" \in world.mishaps
    /\ received \/ "lost" \in world.mishaps
    /\ row' = updatePokeSettings(updateSettings(c.body), TRUE)
    /\ calls' = (calls \ {c}) \cup
          {[c EXCEPT !.at = IF received THEN "answered" ELSE "refused",
                     !.answer = IF received THEN <<Answer(updateSettings(c.body))>> ELSE None]}
    /\ past' = [past EXCEPT !.mishaps = @ \cup (IF received THEN {} ELSE {"lost"})
                                        \cup (IF c \in Foremost THEN {} ELSE {"order"})]
    /\ UNCHANGED <<world, profile, panel>>

\* A save never gets there.
Lost(c) ==
    /\ c.at = "sent" /\ "lost" \in world.mishaps
    /\ calls' = (calls \ {c}) \cup {[c EXCEPT !.at = "refused"]}
    /\ Happens("lost")
    /\ UNCHANGED <<world, row, profile, panel>>

\* The answer of the newest save is what to show; any other is dropped at the breakpoint.
saveSettingsSuccess(c) ==
    /\ c.at = "answered"
    /\ calls' = calls \ {c}
    /\ IF panel.open /\ panel.newest = c.id
       THEN panel' = [panel EXCEPT !.agreed = c.answer, !.edited = None]
       ELSE UNCHANGED panel
    /\ UNCHANGED <<world, row, profile, past>>

\* A failure is not asked whether it is the newest.
saveSettingsFailure(c) ==
    /\ c.at = "refused"
    /\ calls' = calls \ {c}
    /\ panel' = IF panel.open THEN [panel EXCEPT !.edited = None, !.notice = TRUE] ELSE panel
    /\ UNCHANGED <<world, row, profile, past>>

\* A tab from before some of the fields existed saves what it knows, without a zone if it is
\* older than that.
OlderTab(body, timezone) ==
    /\ past.others < world.others
    /\ UpdatePokeSettingsBody(body)
    /\ row' = updatePokeSettings(updateSettings(body), timezone)
    /\ past' = [past EXCEPT !.others = @ + 1, !.mishaps = @ \cup {"others"}]
    /\ UNCHANGED <<world, profile, panel, calls>>

PanelNext ==
    \/ Open \/ \E signsOut \in BOOLEAN : Leave(signsOut)
    \/ \E t \in Types : toggleType(t)
    \/ \E r \in REVIEW_REQUEST_RESOLUTIONS : setReviewRequestResolution(r)
    \/ \E m \in BOT_MODES : setBotMode(m)
    \/ \E v \in Spellings : addLogin(v)
    \/ \E l \in Logins : removeLogin(l)
    \/ setDigestEnabled \/ \E h \in Hours : setDigestHour(h)
    \/ dismissNotice
    \/ \E c \in calls : \/ \E received \in BOOLEAN : Handled(c, received)
                        \/ Lost(c) \/ saveSettingsSuccess(c) \/ saveSettingsFailure(c)
    \/ \E body \in world.bodies, timezone \in BOOLEAN : OlderTab(body, timezone)

----------------------------------------------------------------------------
\* Properties.

\* With every save answered and nothing gone wrong on the way, the account holds, and the panel
\* shows, each field as it was last pressed and every other field as it was: presses in quick
\* succession do not undo one another (pokeSettingsLogic.ts:208-264).
SavedAsPressed ==
    calls = {} /\ past.mishaps = {} =>
        /\ panel.open => settings = past.meant
        /\ normalizePokeSettings(row.settings) = past.meant

\* A save is answered with what is now stored, normalised, whatever it mentioned: what is built
\* from the save and the row before it is what a profile read would next say
\* (user-write.service.ts:198-207, poke-settings.controller.ts:33-34).
AnswersWhatIsStored ==
    [][/\ \A c \in calls : Handled(c, TRUE) =>
             Answer(updateSettings(c.body)) = normalizePokeSettings(row'.settings)
       /\ \A body \in world.bodies, timezone \in BOOLEAN : OlderTab(body, timezone) =>
             Answer(updateSettings(body)) = normalizePokeSettings(row'.settings)]_settingsVars

\* A save changes nothing it does not mention, save the resolution, which left out is its default:
\* a stale tab cannot undo a schedule or empty a list it has never heard of
\* (poke-settings.ts:117-123).
LeavesWhatItDoesNotKnow ==
    [][\A body \in world.bodies, timezone \in BOOLEAN :
          OlderTab(body, timezone) =>
             \A f \in Fields \ (DOMAIN body \cup {"reviewRequestResolution"}) :
                normalizePokeSettings(row'.settings)[f] = normalizePokeSettings(row.settings)[f]]_settingsVars

\* What is on the panel as it opens is what is stored, where no other tab has saved: "the panel's
\* first frame is already the truth" (pokeSettingsLogic.ts:24-26).
FirstFrameIsTheTruth ==
    [][Open /\ calls = {} /\ past.others = 0 => settings' = normalizePokeSettings(row.settings)]_settingsVars

=============================================================================
