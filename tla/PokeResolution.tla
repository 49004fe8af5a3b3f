--------------------------- MODULE PokeResolution ---------------------------
(***************************************************************************)
(* The life of the review-request pokes of one pull request after routing:   *)
(* each is posted to Slack and then filed as a row; every later webhook of    *)
(* the pull request reads the rows there are and edits each message on its    *)
(* own, struck through where the event settled the request, a reviewer named  *)
(* under it where it did not (PokeResolutionService.resolve and annotate).    *)
(*                                                                           *)
(* Handlers of different webhooks interleave at every await, so each edit is  *)
(* a job whose steps are the stretches of code between two awaits: read who   *)
(* the reader is, read the workspace, write the row, edit the message, delete *)
(* the row.  A job goes on working from the row it read first.  An edit that   *)
(* was sent may be applied though its answer is lost, or the process stops      *)
(* before it: nobody then goes on to the row.                                   *)
(*                                                                           *)
(* What a message says is abstracted to whether it stands or is struck, and   *)
(* its line of reviewers.  An account is its GitHub id.                       *)
(***************************************************************************)
EXTENDS NotificationTypes, FiniteSets, SequencesExt

CONSTANTS
    Messages,     \* review-request pokes about the pull request, one Slack message each
    Reader,       \* whom each message is to
    TeamOf,       \* the team each poke came in by
    KeepsRequest, \* readers whose strict setting keeps a request while GitHub still asks
    Events,       \* the webhooks that settle or annotate, as readResolution and readReviewer
                  \* read them
    Scenarios,    \* what a behaviour may be made of: its webhooks, and what may go wrong in it
    NoRow         \* no row for a message

Faults == {"overlap", "crash", "slack", "answers", "database", "workspace"}

Verdicts  == {"approved", "changes_requested"}
NoVerdict == "none"
Entry     == [who: {e.actor : e \in Events}, verdict: Verdicts \cup {NoVerdict}]

ASSUME EventsAssumption ==
    \A e \in Events : e.kind \in Verdicts \cup {"commented", "merged", "closed", "removed"}
ASSUME NoRowAssumption == NoRow \notin Seq(Entry)
ASSUME ScenariosAssumption ==
    Scenarios \subseteq [events : SUBSET Events, faults : SUBSET Faults]

VARIABLES
    scenario,  \* the one this behaviour is in
    delivery,  \* of each poke: "coming", "posted" (not yet filed) or "done"
    slack,     \* each message as Slack shows it
    rows,      \* the reviewers on each message's row, or NoRow
    handled,   \* events whose handler has read the rows
    jobs,      \* edits under way
    workspace, \* "live" or "revoked"
    struckBy,  \* the events that struck each message, ever
    heard      \* the messages that had a row when each event's handler read them

state == <<delivery, slack, rows, handled, jobs, workspace, struckBy, heard>>
resolutionVars  == <<scenario, state>>

----------------------------------------------------------------------------
Verdict(e) == IF e.kind \in Verdicts THEN e.kind ELSE NoVerdict

reviewer(e) == [who |-> e.actor, verdict |-> Verdict(e)]
bySelf(m, e) == e.actor = Reader[m]

\* GitHub still asks the reader, by name or through the team the poke came in by.
stillRequested(m, e) == Reader[m] \in e.requested \/ TeamOf[m] \in e.teams

concerns_RemovalOnly(m, e) == e.kind = "removed" /\ e.removed \in {Reader[m], TeamOf[m]}

\* A removal is about one person or one team; everything else is about the pull request.
concerns(m, e) == e.kind = "removed" => e.removed \in {Reader[m], TeamOf[m]}

\* Whether naming the event's actor would add nothing to a line.
nothingNew(line, e) ==
    LET at == {i \in DOMAIN line : line[i].who = e.actor}
    IN  /\ at # {}
        /\ Verdict(e) \in {NoVerdict, line[Min(at)].verdict}

\* The line a message is shown with: rendered from the row as the handler read it.
lineWith(line, e) ==
    IF \E i \in DOMAIN line : line[i].who = e.actor
    THEN [i \in DOMAIN line |->
             IF line[i].who = e.actor THEN reviewer(e) ELSE line[i]]
    ELSE Append(line, reviewer(e))

\* A row with the verdict of one of its entries set.
withVerdict(line, i, verdict) == [line EXCEPT ![i] = [who |-> line[i].who, verdict |-> verdict]]

----------------------------------------------------------------------------
\* Where naming somebody starts: nowhere, for the reader's own review and for no news.
nameFrom(m, e, seen) ==
    IF bySelf(m, e) \/ nothingNew(seen, e) THEN "end" ELSE "nameWorkspace"

\* Mutant of settleFrom: a removal that leaves the reader asked another way strikes.
settleFrom_AskedOtherWay(m, e) ==
    IF e.kind \in Verdicts /\ ~bySelf(m, e) /\ stillRequested(m, e) THEN "keptStanding"
    ELSE "strikeWorkspace"

\* Where settling starts, up to its first await.
settleFrom(m, e) ==
    IF e.kind = "removed" /\ stillRequested(m, e) THEN "end"
    ELSE IF e.kind \in Verdicts /\ ~bySelf(m, e) /\ stillRequested(m, e) THEN "keptStanding"
    ELSE "strikeWorkspace"

jobFor(m, e) ==
    [message |-> m, event |-> e, seen |-> rows[m],
     pc |-> IF e.kind = "commented" THEN nameFrom(m, e, rows[m]) ELSE settleFrom(m, e)]

\* A job at "end" has nothing left to do.  One at "strayStrike" or "strayShow" is an edit that Slack may
\* still apply and nobody waits for.
Underway(J) == {j \in J : j.pc # "end"}
moveTo(j, next) == [message |-> j.message, event |-> j.event, seen |-> j.seen, pc |-> next]
Advance(j, next) == jobs' = Underway((jobs \ {j}) \cup {moveTo(j, next)})

Stray == {"strayStrike", "strayShow"}

\* Where a job is once nobody waits for it: its edit, if that was sent, is out of reach.
cutOff(pc) == IF pc \in {"strike", "strayStrike"} THEN "strayStrike"
              ELSE IF pc \in {"show", "strayShow"} THEN "strayShow" ELSE "end"

----------------------------------------------------------------------------
ResolutionInit ==
    /\ scenario \in Scenarios
    /\ delivery = [m \in Messages |-> "coming"]
    /\ slack = [m \in Messages |-> [shown |-> "unsent", line |-> <<>>]]
    /\ rows = [m \in Messages |-> NoRow]
    /\ handled = {}
    /\ jobs = {}
    /\ workspace = "live"
    /\ struckBy = [m \in Messages |-> {}]
    /\ heard = [e \in Events |-> {}]

\* Mutant of Post: the row is filed while Slack is still being asked.
Post_FilesFirst(m) ==
    /\ delivery[m] = "coming"
    /\ delivery' = [delivery EXCEPT ![m] = "posted"]
    /\ slack' = [slack EXCEPT ![m] = [shown |-> "open", line |-> <<>>]]
    /\ rows' = [rows EXCEPT ![m] = <<>>]
    /\ UNCHANGED <<handled, jobs, workspace, struckBy, heard>>

\* Slack took the poke.
Post(m) ==
    /\ workspace = "live"
    /\ delivery[m] = "coming"
    /\ delivery' = [delivery EXCEPT ![m] = "posted"]
    /\ slack' = [slack EXCEPT ![m] = [shown |-> "open", line |-> <<>>]]
    /\ UNCHANGED <<rows, handled, jobs, workspace, struckBy, heard>>

\* Its row is filed afterwards, naming nobody; or not at all, where the answer that says where the
\* message is was lost.
remember(m) ==
    /\ delivery[m] = "posted"
    /\ delivery' = [delivery EXCEPT ![m] = "done"]
    /\ \/ rows' = [rows EXCEPT ![m] = <<>>]
       \/ scenario.faults \cap {"database", "answers"} # {} /\ UNCHANGED rows
    /\ UNCHANGED <<slack, handled, jobs, workspace, struckBy, heard>>

\* resolve or annotate reads every row of the pull request and starts a job for each
\* message the event is about.
readForPullRequest(e) ==
    /\ e \notin handled
    /\ "overlap" \in scenario.faults \/ \A j \in jobs : j.pc \in Stray
    /\ handled' = handled \cup {e}
    /\ heard' = [heard EXCEPT ![e] = {m \in Messages : rows[m] # NoRow}]
    /\ jobs' = Underway(jobs \cup
                   {jobFor(m, e) : m \in {k \in heard'[e] : concerns(k, e)}})
    /\ UNCHANGED <<delivery, slack, rows, workspace, struckBy>>

\* The rows could not be read: logged, and the event edits nothing.
readThrows(e) ==
    /\ "database" \in scenario.faults
    /\ e \notin handled
    /\ handled' = handled \cup {e}
    /\ UNCHANGED <<delivery, slack, rows, jobs, workspace, struckBy, heard>>

\* The reader's setting is read live, and only while GitHub still asks them.
keptStanding(j) ==
    /\ j.pc = "keptStanding"
    /\ Advance(j, IF Reader[j.message] \in KeepsRequest
                  THEN nameFrom(j.message, j.event, j.seen)
                  ELSE "strikeWorkspace")
    /\ UNCHANGED <<delivery, slack, rows, handled, workspace, struckBy, heard>>

\* Mutant of readLiveWithToken: the message is edited and the row left unwritten.
readLiveWithToken_SkipsRow(j) ==
    /\ j.pc \in {"strikeWorkspace", "nameWorkspace"}
    /\ Advance(j, IF workspace = "revoked" THEN "delete"
                  ELSE IF j.pc = "strikeWorkspace" THEN "strike" ELSE "show")
    /\ UNCHANGED <<delivery, slack, rows, handled, workspace, struckBy, heard>>

\* Nothing will ever edit a message whose workspace is gone, so its row goes too.
readLiveWithToken(j) ==
    /\ j.pc \in {"strikeWorkspace", "nameWorkspace"}
    /\ Advance(j, IF workspace = "revoked" THEN "delete"
                  ELSE IF j.pc = "strikeWorkspace" THEN "strike"
                  ELSE IF Verdict(j.event) = NoVerdict THEN "addToSet" ELSE "setVerdict")
    /\ UNCHANGED <<delivery, slack, rows, handled, workspace, struckBy, heard>>

\* Mutant of setVerdict: a verdict is a new entry, whoever is on the row.
setVerdict_Appends(j) ==
    /\ j.pc = "setVerdict"
    /\ Advance(j, "addToSet")
    /\ UNCHANGED <<delivery, slack, rows, handled, workspace, struckBy, heard>>

\* addReviewer, first write: a verdict is set on the entry its author already has.
setVerdict(j) ==
    /\ j.pc = "setVerdict"
    /\ LET m  == j.message
           at == IF rows[m] = NoRow THEN {}
                 ELSE {i \in DOMAIN rows[m] : rows[m][i].who = j.event.actor}
       IN  IF at = {}
           THEN /\ Advance(j, "addToSet")
                /\ UNCHANGED rows
           ELSE /\ Advance(j, "show")
                /\ rows' = [rows EXCEPT ![m] = withVerdict(@, Min(at), Verdict(j.event))]
    /\ UNCHANGED <<delivery, slack, handled, workspace, struckBy, heard>>

\* addReviewer, second write: the whole entry joins the row unless the very same is on it.
addToSet(j) ==
    /\ j.pc = "addToSet"
    /\ Advance(j, "show")
    /\ LET m == j.message
       IN  rows' = IF rows[m] = NoRow \/ Contains(rows[m], reviewer(j.event)) THEN rows
                   ELSE [rows EXCEPT ![m] = Append(@, reviewer(j.event))]
    /\ UNCHANGED <<delivery, slack, handled, workspace, struckBy, heard>>

\* Slack applies the edit that names the reviewer: the message reads as the handler's copy
\* of the row says, outstanding.
applyName(j) ==
    LET m == j.message IN
    /\ slack[m].shown # "gone"
    /\ slack' = [slack EXCEPT ![m] = [shown |-> "open", line |-> lineWith(j.seen, j.event)]]
    /\ UNCHANGED struckBy

\* Slack applies the strikethrough, which has no line of reviewers.
applyStrike(j) ==
    LET m == j.message IN
    /\ slack[m].shown # "gone"
    /\ slack' = [slack EXCEPT ![m] = [shown |-> "struck", line |-> <<>>]]
    /\ struckBy' = [struckBy EXCEPT ![m] = @ \cup {j.event}]

show(j) ==
    /\ j.pc = "show"
    /\ applyName(j)
    /\ Advance(j, "end")
    /\ UNCHANGED <<delivery, rows, handled, workspace, heard>>

\* Mutant of strike: the row stays once the message is struck.
strike_KeepsRow(j) ==
    /\ j.pc = "strike"
    /\ applyStrike(j)
    /\ Advance(j, "end")
    /\ UNCHANGED <<delivery, rows, handled, workspace, heard>>

strike(j) ==
    /\ j.pc = "strike"
    /\ applyStrike(j)
    /\ Advance(j, "delete")
    /\ UNCHANGED <<delivery, rows, handled, workspace, heard>>

\* Slack says the message is not there: the row points at nothing.
editFindsNothing(j) ==
    /\ j.pc \in {"strike", "show"}
    /\ slack[j.message].shown = "gone"
    /\ Advance(j, "delete")
    /\ UNCHANGED <<delivery, slack, rows, handled, workspace, struckBy, heard>>

\* The request was sent and no answer came back, which the code cannot tell from a refusal: the row
\* stays.
answerLost(j) ==
    /\ "answers" \in scenario.faults
    /\ j.pc \in {"strike", "show"}
    /\ Advance(j, cutOff(j.pc))
    /\ UNCHANGED <<delivery, slack, rows, handled, workspace, struckBy, heard>>

\* Slack applies an edit nobody waits for, now or after much else, or never does.
strays(j) ==
    /\ j.pc \in Stray
    /\ \/ j.pc = "strayStrike" /\ applyStrike(j)
       \/ j.pc = "strayShow" /\ applyName(j)
       \/ UNCHANGED <<slack, struckBy>>
    /\ Advance(j, "end")
    /\ UNCHANGED <<delivery, rows, handled, workspace, heard>>

\* Slack refuses the edit: message and row stay as they are.
editFails(j) ==
    /\ "slack" \in scenario.faults \/ workspace = "revoked"
    /\ j.pc \in {"strike", "show"}
    /\ Advance(j, "end")
    /\ UNCHANGED <<delivery, slack, rows, handled, workspace, struckBy, heard>>

\* The database fails a step before the edit: the edit is given up, and no other with it.
stepThrows(j) ==
    /\ "database" \in scenario.faults
    /\ j.pc \in {"keptStanding", "strikeWorkspace", "nameWorkspace", "setVerdict", "addToSet"}
    /\ Advance(j, "end")
    /\ UNCHANGED <<delivery, slack, rows, handled, workspace, struckBy, heard>>

\* There is nothing left to go back and edit.
delete(j) ==
    /\ j.pc = "delete"
    /\ Advance(j, "end")
    /\ \/ rows' = [rows EXCEPT ![j.message] = NoRow]
       \/ "database" \in scenario.faults /\ UNCHANGED rows
    /\ UNCHANGED <<delivery, slack, handled, workspace, struckBy, heard>>

\* The message or its channel disappears from Slack.
Vanish(m) ==
    /\ "slack" \in scenario.faults
    /\ slack[m].shown \in {"open", "struck"}
    /\ slack' = [slack EXCEPT ![m] = [shown |-> "gone", line |-> <<>>]]
    /\ UNCHANGED <<delivery, rows, handled, jobs, workspace, struckBy, heard>>

\* The TTL index takes the row: nobody edits a message two days old.
Expire(m) ==
    /\ "database" \in scenario.faults
    /\ rows[m] # NoRow
    /\ rows' = [rows EXCEPT ![m] = NoRow]
    /\ UNCHANGED <<delivery, slack, handled, jobs, workspace, struckBy, heard>>

Revoke ==
    /\ "workspace" \in scenario.faults
    /\ workspace' = IF workspace = "live" THEN "revoked" ELSE "live"
    /\ UNCHANGED <<delivery, slack, rows, handled, jobs, struckBy, heard>>

\* A restart drops every edit under way, but for what was sent to Slack already, and the row of a poke
\* that was posted and not yet filed.
Crash ==
    /\ "crash" \in scenario.faults
    /\ jobs' = Underway({moveTo(j, cutOff(j.pc)) : j \in jobs})
    /\ delivery' = [m \in Messages |-> IF delivery[m] = "posted" THEN "done" ELSE delivery[m]]
    /\ UNCHANGED <<slack, rows, handled, workspace, struckBy, heard>>

JobStep(j) ==
    \/ keptStanding(j) \/ readLiveWithToken(j) \/ setVerdict(j) \/ addToSet(j)
    \/ show(j) \/ strike(j) \/ editFindsNothing(j) \/ editFails(j) \/ answerLost(j) \/ strays(j)
    \/ stepThrows(j) \/ delete(j)

Step ==
    \/ \E m \in Messages : Post(m) \/ remember(m) \/ Vanish(m) \/ Expire(m)
    \/ \E e \in scenario.events : readForPullRequest(e) \/ readThrows(e)
    \/ \E j \in jobs : JobStep(j)
    \/ Revoke
    \/ Crash

ResolutionNext == Step /\ UNCHANGED scenario

ResolutionSpec == ResolutionInit /\ [][ResolutionNext]_resolutionVars

----------------------------------------------------------------------------
Steps == {"keptStanding", "strikeWorkspace", "strike", "nameWorkspace", "setVerdict",
          "addToSet", "show", "delete"} \cup Stray

IsLine(line) == \A i \in DOMAIN line : line[i] \in Entry

\* Every variable has its type; a poke that was not posted has neither message nor row.
ResolutionTypeOK ==
    /\ scenario \in Scenarios
    /\ delivery \in [Messages -> {"coming", "posted", "done"}]
    /\ \A m \in Messages :
          /\ slack[m].shown \in {"unsent", "open", "struck", "gone"}
          /\ IsLine(slack[m].line)
          /\ rows[m] # NoRow => delivery[m] = "done" /\ IsLine(rows[m])
          /\ delivery[m] = "coming" <=> slack[m].shown = "unsent"
    /\ handled \subseteq scenario.events
    /\ \A j \in jobs : /\ j.message \in Messages /\ j.event \in handled
                       /\ j.pc \in Steps /\ IsLine(j.seen)
    /\ workspace \in {"live", "revoked"}
    /\ struckBy \in [Messages -> SUBSET Events]
    /\ heard \in [Events -> SUBSET Messages]

\* Whoever a standing message names is on its row, through any overlap of handlers: the
\* row is what later edits render from, and a name it does not know would be lost.
RowKnowsLine ==
    \A m \in Messages :
        slack[m].shown = "open" /\ rows[m] # NoRow =>
            {slack[m].line[i].who : i \in DOMAIN slack[m].line}
                \subseteq {rows[m][i].who : i \in DOMAIN rows[m]}

\* Why a message may be struck: the pull request is over; its reader reviewed it; somebody
\* else decided and the reader is off GitHub's list or does not keep requests; or the
\* reader's own request was taken back and they are asked in no other way.
Entitled(m, e) ==
    LET asked == Reader[m] \in e.requested \/ TeamOf[m] \in e.teams
    IN  \/ e.kind \in {"merged", "closed"}
        \/ e.kind \in Verdicts /\ (e.actor = Reader[m] \/ Reader[m] \notin KeepsRequest \/ ~asked)
        \/ e.kind = "removed" /\ ~asked /\ e.removed \in {Reader[m], TeamOf[m]}

\* No message is ever struck by an event that did not end its reader's request.
StruckOnlyWhenEntitled ==
    \A m \in Messages : \A e \in struckBy[m] : Entitled(m, e)

\* Where Slack and the database answer, a merge strikes every message that had a row when
\* its webhook was handled, whatever other webhooks are handled meanwhile.
MergeStrikes ==
    scenario.faults \subseteq {"overlap"} /\ jobs = {} =>
        \A e \in Events : e.kind \in {"merged", "closed"} =>
            \A m \in heard[e] : e \in struckBy[m]

\* poke-resolution.service.ts:135-136 says of naming a reviewer that "the one thing this must
\* not do is stop the strikethrough from landing when a verdict does": with every edit
\* finished, a message that was struck reads as struck.
StrikeLands ==
    \A m \in Messages :
        jobs = {} /\ struckBy[m] # {} => slack[m].shown \in {"struck", "gone"}

\* poke-message-write.service.ts:42 says a reviewer is "named once however many times they
\* review".
NamedOnce ==
    \A m \in Messages :
        LET once(line) == \A i, j \in DOMAIN line : line[i].who = line[j].who => i = j
        IN  once(slack[m].line) /\ (rows[m] # NoRow => once(rows[m]))

\* With one handler at a time, nobody is named twice, whatever goes wrong.  Nor is a struck message undone,
\* whatever Slack refuses and whatever becomes of the workspace, where nothing comes between an edit
\* and its row: no restart, no failing database, and no answer lost to an edit that Slack applied.  Each
\* of those leaves a struck message with its row, and the next comment shows it as outstanding
\* again (settle, handleFailure).
AloneHolds ==
    "overlap" \notin scenario.faults =>
        NamedOnce /\ (scenario.faults \cap {"database", "crash", "answers"} = {} => StrikeLands)

\* What is on a message is what it should say: only what was settled is struck, though answers are lost
\* and edits land late; a merge strikes all it found, the row knows whom the message names, and one handler
\* at a time leaves it settled, but for what AloneHolds excepts (resolve, annotate, settle).
StruckJustly == ResolutionTypeOK /\ RowKnowsLine /\ StruckOnlyWhenEntitled /\ MergeStrikes /\ AloneHolds
============================================================================
