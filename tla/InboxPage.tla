----------------------------- MODULE InboxPage -----------------------------
(***************************************************************************)
(* The page of the inbox, over the server of Inbox: inboxLogic, which holds the      *)
(* rows and asks for them, and inboxSettingsLogic, which holds what has been pressed   *)
(* on top of what the server last agreed to.  Every press is shown at once, saved,      *)
(* and handed to inboxLogic, whose setFilters decides what it costs.                      *)
(*                                                                           *)
(* A render follows each action before the next message is handled, so the effect       *)
(* that hands the settings over is part of the action.  Only the newest request of a     *)
(* kind counts (newest): the answer of an older one is dropped, its failure is not.        *)
(***************************************************************************)
EXTENDS Inbox

VARIABLES
    page,      \* whether the page is open and the tab visible, and whether a minute has passed
    rows,      \* result: the snapshot it shows, and the settings it was served under
    busy,      \* refreshing
    edited,    \* settings on screen while a save is under way, or None
    agreed,    \* savedByServer, or None
    profile,   \* authLogic's userData.inboxSettings, read when the app loads and not again
    newest,    \* for each kind of request, the newest of it
    past       \* history: which mishaps a save has met

pageVars == <<page, rows, busy, edited, agreed, profile, newest, past>>
inboxVars == <<story, serverVars, call, pageVars>>

None == [b |-> -1, v |-> -1]
Kinds == {"load", "reread", "refresh", "save"}
EMPTY == [ver |-> -1, b |-> 0, f |-> Default]
Nobody == 0

PageInit ==
    /\ ServerInit
    /\ page = [open |-> FALSE, visible |-> TRUE, due |-> FALSE, app |-> FALSE]
    /\ rows = EMPTY /\ busy = FALSE
    /\ edited = None /\ agreed = None /\ profile = None
    /\ newest = [k \in Kinds |-> Nobody]
    /\ past = {}

saved == IF agreed # None THEN agreed ELSE profile
filters == IF edited # None THEN edited ELSE saved

Overtaken(c) == newest[call[c].kind] # c
Saving == \E c \in Calls : call[c].kind = "save" /\ call[c].at # "free"

----------------------------------------------------------------------------
\* Asking.  Each operator gives the calls with one more, or the page as it then is.

\* The calls free for n requests more, the lowest of them.
Vacant(n) == {c \in Calls : call[c].at = "free" /\ Cardinality({d \in Calls : d < c /\ call[d].at = "free"}) < n}
CanAsk(n) == Cardinality(Vacant(n)) = n

With(calls, c, kind, f) == [calls EXCEPT ![c] = Asked(kind, Me, f)]

\* Of kinds of requests, those that a change from one set of settings to another costs.
changedABuildFilter(previous, next) == previous.b # next.b

Costs(previous, next) ==
    IF previous = next THEN "nothing"
    ELSE IF changedABuildFilter(previous, next) THEN "refresh" ELSE "reread"

\* Request `kind` is placed as call c over `calls`, beside whatever `news` says of newest.
Places(calls, news, c, kind, f) ==
    /\ call' = IF kind = "nothing" THEN calls ELSE With(calls, c, kind, f)
    /\ newest' = IF kind = "nothing" THEN news ELSE [news EXCEPT ![kind] = c]
    /\ busy' = (busy \/ kind = "refresh")
    /\ page' = [page EXCEPT !.due = @ /\ kind # "refresh"]

\* inboxSettingsLogic's answer to a save, or its lack, then the effect and setFilters.
HandsOver(calls, c, next) ==
    /\ Places(calls, newest, c, Costs(filters, next), next)
    /\ UNCHANGED rows

----------------------------------------------------------------------------
\* The reader.

\* The page is opened: the stored snapshot is read first, under the settings of profile p.
Opens(p, calls) ==
    /\ ~page.open /\ story.opens > 0
    /\ story' = [story EXCEPT !.opens = @ - 1]
    /\ profile' = p /\ edited' = None /\ agreed' = None
    /\ past' = past \cup {m \in {"raced", "revisit"} : IF m = "raced" THEN Saving ELSE p # stored[Me]}
    /\ rows' = EMPTY /\ busy' = FALSE
    /\ \E c \in Vacant(1) :
         /\ call' = With(calls, c, "load", p)
         /\ newest' = [k \in Kinds |-> IF k = "load" THEN c ELSE Nobody]
    /\ page' = [open |-> TRUE, visible |-> TRUE, due |-> FALSE, app |-> TRUE]
    /\ UNCHANGED serverVars

\* With the app, which reads the profile and leaves nothing of an app before it.
OpensCold == Opens(stored[Me], [c \in DOMAIN call |-> [call[c] EXCEPT !.here = call[c].at = "free" \/ c \in Workers]])

\* From the dashboard, in the app that is there.
OpensFromDashboard == page.app /\ Opens(profile, call)

\* Both logics are unmounted: what they hold is dropped, and so is what is still to come.
Leaves ==
    /\ page.open /\ Turn("leaves")
    /\ page' = [page EXCEPT !.open = FALSE, !.due = FALSE]
    /\ rows' = EMPTY /\ busy' = FALSE /\ edited' = None /\ agreed' = None
    /\ newest' = [k \in Kinds |-> Nobody]
    /\ UNCHANGED <<serverVars, call, profile, past>>

\* setFilter: one setting is chosen, be it again; the edit, the save of the whole set, and what the
\* change costs.
Presses ==
    /\ page.open /\ story.presses > 0
    /\ story' = [story EXCEPT !.presses = @ - 1]
    /\ CanAsk(2)
    /\ \E next \in Settings, c, d \in Vacant(2) :
         /\ next.b = filters.b \/ next.v = filters.v
         /\ c < d
         /\ edited' = next
         /\ Places(With(call, c, "save", next), [newest EXCEPT !["save"] = c], d, Costs(filters, next), next)
    /\ past' = IF Saving THEN past \cup {"overlap"} ELSE past
    /\ UNCHANGED <<serverVars, rows, agreed, profile>>

Hides ==
    /\ page.open /\ page.visible /\ Turn("hides")
    /\ page' = [page EXCEPT !.visible = FALSE]
    /\ UNCHANGED <<serverVars, call, rows, busy, edited, agreed, profile, newest, past>>

Shows ==
    /\ page.open /\ ~page.visible
    /\ page' = [page EXCEPT !.visible = TRUE]
    /\ UNCHANGED <<story, serverVars, call, rows, busy, edited, agreed, profile, newest, past>>

\* REFRESH_EVERY_MS since the last refresh was asked for.
MinutePasses ==
    /\ page.open /\ ~page.due
    /\ page' = [page EXCEPT !.due = TRUE]
    /\ UNCHANGED <<story, serverVars, call, rows, busy, edited, agreed, profile, newest, past>>

\* On the tick, and as the tab comes back.
refreshIfDue ==
    /\ page.open /\ page.visible /\ ~busy /\ page.due
    /\ \E c \in Vacant(1) : Places(call, newest, c, "refresh", filters)
    /\ UNCHANGED <<story, serverVars, rows, edited, agreed, profile, past>>

----------------------------------------------------------------------------
\* What comes back.  The call is free again, and may be the next one's.

Done(c) == [call EXCEPT ![c] = Free]
Settled(c) == call[c].at \in {"answered", "failed"}
Heard(c)   == Settled(c) /\ page.open /\ call[c].here
Lands(c) == rows' = [ver |-> call[c].got.ver, b |-> call[c].got.b, f |-> call[c].f]

\* Actions go by name, and reach whichever visit of the page is open; an older one's answer is
\* dropped, except where there is no breakpoint.
Dropped(c) ==
    /\ Settled(c)
    /\ ~page.open \/ ~call[c].here \/ (Overtaken(c) /\ call[c].at = "answered" /\ call[c].kind # "load")
    /\ call' = Done(c)
    /\ UNCHANGED <<story, serverVars, page, rows, busy, edited, agreed, profile, newest, past>>

\* The opening read: whatever came of it, GitHub is asked next.
Loaded(c) ==
    /\ Heard(c) /\ call[c].kind = "load"
    /\ IF call[c].at = "answered" THEN Lands(c) ELSE UNCHANGED rows
    /\ Places(Done(c), newest, c, "refresh", filters)
    /\ UNCHANGED <<story, serverVars, edited, agreed, profile, past>>

\* Mutant of Reread: what came back is shown, blank or not.
Reread_Blank(c) ==
    /\ Heard(c) /\ call[c].kind = "reread"
    /\ \/ /\ call[c].at = "answered" /\ ~Overtaken(c)
          /\ Lands(c)
          /\ call' = Done(c) /\ UNCHANGED <<newest, busy, page>>
       \/ /\ call[c].at = "failed"
          /\ Places(Done(c), newest, c, "refresh", filters)
          /\ UNCHANGED rows
    /\ UNCHANGED <<story, serverVars, edited, agreed, profile, past>>

\* A re-read: rows are shown, and a blank or a failure is asked about.
Reread(c) ==
    /\ Heard(c) /\ call[c].kind = "reread"
    /\ \/ /\ call[c].at = "answered" /\ ~Overtaken(c) /\ call[c].got # Blank
          /\ Lands(c)
          /\ call' = Done(c) /\ UNCHANGED <<newest, busy, page>>
       \/ /\ call[c].at = "failed" \/ (~Overtaken(c) /\ call[c].got = Blank)
          /\ Places(Done(c), newest, c, "refresh", filters)
          /\ UNCHANGED rows
    /\ UNCHANGED <<story, serverVars, edited, agreed, profile, past>>

\* Mutant of Refreshed: a refresh that fails leaves the page refreshing.
Refreshed_FailureForgotten(c) ==
    /\ Heard(c) /\ call[c].kind = "refresh"
    /\ call[c].at = "answered" => ~Overtaken(c)
    /\ IF call[c].at = "answered" THEN Lands(c) ELSE UNCHANGED rows
    /\ call' = Done(c) /\ busy' = (busy /\ call[c].at = "failed")
    /\ UNCHANGED <<story, serverVars, page, edited, agreed, profile, newest, past>>

\* A refresh: rows or a blank are shown, a failure leaves what was there.
Refreshed(c) ==
    /\ Heard(c) /\ call[c].kind = "refresh"
    /\ call[c].at = "answered" => ~Overtaken(c)
    /\ IF call[c].at = "answered" THEN Lands(c) ELSE UNCHANGED rows
    /\ call' = Done(c) /\ busy' = FALSE
    /\ UNCHANGED <<story, serverVars, page, edited, agreed, profile, newest, past>>

\* Mutant of Refused: the edit stays on screen although the server never had it.
Refused_EditStays(c) ==
    /\ Heard(c) /\ call[c].kind = "save" /\ call[c].at = "failed"
    /\ UNCHANGED edited
    /\ HandsOver(Done(c), c, filters)
    /\ UNCHANGED <<story, serverVars, agreed, profile, past>>

\* saveSettingsFailure: the edit is dropped for what was last agreed to.
Refused(c) ==
    /\ Heard(c) /\ call[c].kind = "save" /\ call[c].at = "failed"
    /\ edited' = None
    /\ HandsOver(Done(c), c, saved)
    /\ UNCHANGED <<story, serverVars, agreed, profile, past>>

\* saveSettingsSuccess: the server's answer replaces the edit.
Saved(c) ==
    /\ Heard(c) /\ call[c].kind = "save" /\ call[c].at = "answered" /\ ~Overtaken(c)
    /\ edited' = None /\ agreed' = call[c].f
    /\ HandsOver(Done(c), c, call[c].f)
    /\ UNCHANGED <<story, serverVars, profile, past>>

Receives(c) == Dropped(c) \/ Loaded(c) \/ Reread(c) \/ Refreshed(c) \/ Refused(c) \/ Saved(c)

\* A request that never arrives, or whose answer never does.
Lost(c) ==
    /\ call[c].at \in {"sent", "answered"} /\ Turn("lost")
    /\ call' = [call EXCEPT ![c] = [@ EXCEPT !.at = "failed"]]
    /\ past' = IF call[c].kind # "save" THEN past
               ELSE past \cup (IF call[c].at = "answered" THEN {"lost"} ELSE {"failed"})
    /\ UNCHANGED <<serverVars, page, rows, busy, edited, agreed, profile, newest>>

----------------------------------------------------------------------------
\* A save that reaches the server after a newer one did.
Reorders(c) == call[c].kind = "save" /\ call[c].at = "sent" /\ Overtaken(c) /\ newest["save"] # Nobody
               /\ ~(call[newest["save"]].kind = "save" /\ call[newest["save"]].at = "sent")

Server ==
    \/ \E c \in Calls \cup Workers :
         /\ Serves(c) \/ GithubIsUnavailable(c)
         /\ past' = IF c \in Calls /\ Reorders(c) THEN past \cup {"reordered"} ELSE past
         /\ UNCHANGED <<page, rows, busy, edited, agreed, profile, newest>>
    \/ /\ Sweeps \/ (\E w \in Workers : Takes(w)) \/ SweepEnds \/ DayPasses \/ World
       /\ UNCHANGED pageVars

Reader == OpensCold \/ OpensFromDashboard \/ Leaves \/ Presses \/ Hides \/ Shows

PageNext ==
    \/ Server \/ Reader \/ MinutePasses \/ refreshIfDue
    \/ \E c \in Calls : Receives(c) \/ Lost(c)

PageSpec == PageInit /\ [][PageNext]_inboxVars

\* Every request is answered or fails, GitHub answers, timers fire; nothing is owed by the reader.
Fairness ==
    /\ \A c \in Calls \cup Workers :
         WF_inboxVars(Serves(c) /\ past' = (IF c \in Calls /\ Reorders(c) THEN past \cup {"reordered"} ELSE past)
                 /\ UNCHANGED <<page, rows, busy, edited, agreed, profile, newest>>)
    /\ \A c \in Calls : WF_inboxVars(Receives(c))
    /\ WF_inboxVars(MinutePasses) /\ WF_inboxVars(refreshIfDue)
    /\ WF_inboxVars(Sweeps /\ UNCHANGED pageVars)
    /\ \A w \in Workers : WF_inboxVars(Takes(w) /\ UNCHANGED pageVars)
    /\ WF_inboxVars(SweepEnds /\ UNCHANGED pageVars) /\ WF_inboxVars(DayPasses /\ UNCHANGED pageVars)

PageFairSpec == PageSpec /\ Fairness

----------------------------------------------------------------------------
PageTyped ==
    /\ truth \in Nat /\ token \in [Users -> Nat] /\ age \in [Users -> 0 .. Unused]
    /\ stored \in [Users -> Settings] /\ warming.due \subseteq [u : Users, f : Settings]
    /\ \A c \in DOMAIN call : call[c].f \in Settings /\ call[c].at \in {"free", "sent", "asking", "seen", "answered", "failed"}
    /\ edited \in Settings \cup {None} /\ agreed \in Settings \cup {None} /\ profile \in Settings \cup {None}

\* The rows on the page were built under the build filters they were asked for with, whoever
\* built them: another request, an earlier setting, or the sweep.
BuiltAsAsked == rows # EMPTY /\ rows.ver # -1 => rows.b = rows.f.b

\* With no save under way the page shows what is stored, unless a save met a mishap that the page
\* cannot see past: its answer lost, two of them out of order or one failing behind another, or
\* an older profile found again.
SettingsAgree ==
    \/ ~page.open \/ Saving
    \/ past \cap {"lost", "raced", "revisit", "reordered"} # {} \/ {"overlap", "failed"} \subseteq past
    \/ filters = stored[Me]

\* What is on the page is what was asked for: rows built under their own filters, and switches that
\* say what is stored (inboxLogic's settings and inbox).
ShownAsSet == PageTyped /\ BuiltAsAsked /\ SettingsAgree

\* Rows are never taken off an open page for a blank one by a press, a re-read or a failure: only
\* by a refresh answered so, or by the opening read where a press overtook it.
BlankedFromAboveOnly ==
    [][page.open /\ page'.open /\ rows.ver # -1 /\ rows'.ver = -1
         => \E c \in Calls : call[c].kind \in {"load", "refresh"} /\ call[c].at = "answered" /\ call'[c] # call[c]]_inboxVars

Watched == page.open /\ page.visible /\ token[Me] \notin withdrawn \cup {0} /\ Me \notin story.broken

\* A page that stays in view of somebody signed in comes to show what GitHub says, under the
\* settings on screen, whatever was pressed, lost or restarted on the way.
ComesRight == <>[]Watched => <>[](rows = [ver |-> truth, b |-> filters.b, f |-> filters])

\* Both: a page in view comes right, and is not blanked on the way.
ComesRightUnblanked == BlankedFromAboveOnly /\ ComesRight

\* Somebody a sweep finds to have been here lately comes to have a snapshot for the settings they
\* stored, whoever else's inbox cannot be built and whatever went wrong before.
Due == [u |-> Me, f |-> stored[Me]] \in warming.due /\ token[Me] \notin withdrawn \cup {0} /\ Me \notin story.broken
KeptWarm == (Due /\ story.turns = 0) ~> read(Me, stored[Me]) # Blank

\* Somebody who does not come back is, after a while, not asked about again.
LeftAlone == <>[](~page.open) => <>[](\A w \in Workers : call[w].at # "free" => call[w].u # Me)

\* The sweep warms those who come and forgets those who do not (InboxWarmerService).
SweptRightly == KeptWarm /\ LeftAlone
============================================================================
