--------------------------- MODULE Announcements ---------------------------
(***************************************************************************)
(* AnnouncementService: every start of a replica goes through the list of     *)
(* announcements in order, and posts each to everybody who was connected when  *)
(* the announcement was first begun.  What replicas and starts share is two     *)
(* collections: the runs, and one row per copy, whose insertion is the claim.   *)
(*                                                                           *)
(* Every pass and every link bears an instant of its own.  The list is one that  *)
(* announcementProblems finds nothing wrong with.                             *)
(***************************************************************************)
EXTENDS Integers, FiniteSets

CONSTANTS
    Replicas,
    Users,
    Announcements,  \* how many announcements there are
    Concurrency,    \* copies one pass has in hand at a time
    MaxStarts,      \* starts explored
    MaxLinks,       \* changes of links explored
    Faults          \* what may happen: "crash", "slack", "database"

ASSUME CountsAssumption ==
    /\ Announcements \in Nat \ {0}
    /\ Concurrency \in Nat \ {0}
    /\ MaxStarts \in Nat /\ MaxLinks \in Nat
ASSUME FaultsAssumption == Faults \subseteq {"crash", "slack", "database"}

None == 0

VARIABLES
    clock,
    linked,      \* when each user's link was made, None where they have none
    links,       \* changes of links so far
    startedAt,   \* the run of each announcement: when it began
    completed,   \* the announcements whose run is complete
    claimed,     \* the copies' rows
    pc,          \* how far each replica's pass is
    began,       \* the instant it began
    at,          \* the announcement it is at
    audience,    \* whom it has still to get to
    hand,        \* what it has in hand for each user
    errored,     \* whether it threw on somebody
    starts,      \* passes begun so far
    invited,     \* who was connected at the instant each run began with
    posted       \* how often each copy was posted

store   == <<startedAt, completed, claimed>>
pass    == <<pc, began, at, audience, hand, errored, starts>>
world   == <<clock, linked, links>>
history == <<invited, posted>>
vars    == <<store, pass, world, history>>

ANNOUNCEMENTS == 1 .. Announcements
Copies == ANNOUNCEMENTS \X Users

----------------------------------------------------------------------------
Init ==
    /\ clock = 1
    /\ linked \in [Users -> {None, 1}]
    /\ links = 0
    /\ startedAt = [a \in ANNOUNCEMENTS |-> None]
    /\ completed = {}
    /\ claimed = {}
    /\ pc = [r \in Replicas |-> "booted"]
    /\ began = [r \in Replicas |-> None]
    /\ at = [r \in Replicas |-> 1]
    /\ audience = [r \in Replicas |-> {}]
    /\ hand = [r \in Replicas |-> [u \in Users |-> "nothing"]]
    /\ errored = [r \in Replicas |-> FALSE]
    /\ starts = 0
    /\ invited = [a \in ANNOUNCEMENTS |-> {}]
    /\ posted = [c \in Copies |-> 0]

\* The pass of one start, thirty seconds after it.
run(r) ==
    /\ pc[r] = "booted"
    /\ starts < MaxStarts
    /\ starts' = starts + 1
    /\ clock' = clock + 1
    /\ began' = [began EXCEPT ![r] = clock + 1]
    /\ at' = [at EXCEPT ![r] = 1]
    /\ pc' = [pc EXCEPT ![r] = "start"]
    /\ UNCHANGED <<audience, hand, errored, linked, links, store, history>>

\* Mutant of goOn: an announcement that is done with ends the pass.
goOn_Returns(r) == pc' = [pc EXCEPT ![r] = "ended"] /\ UNCHANGED at

\* The announcement a pass is at is done with: the next one, if there is one.
goOn(r) ==
    IF at[r] < Announcements
    THEN at' = [at EXCEPT ![r] = at[r] + 1] /\ pc' = [pc EXCEPT ![r] = "start"]
    ELSE pc' = [pc EXCEPT ![r] = "ended"] /\ UNCHANGED at

invite(r) ==
    invited' = IF startedAt[at[r]] # None THEN invited
               ELSE [invited EXCEPT ![at[r]] =
                        {u \in Users : linked[u] # None /\ linked[u] <= began[r]}]

\* Mutant of start: every start stamps the run anew.
start_Restamps(r) ==
    /\ pc[r] = "start"
    /\ startedAt' = [startedAt EXCEPT ![at[r]] = began[r]]
    /\ IF at[r] \in completed
       THEN goOn(r) /\ UNCHANGED errored
       ELSE /\ pc' = [pc EXCEPT ![r] = "audience"]
            /\ errored' = [errored EXCEPT ![r] = FALSE]
            /\ UNCHANGED at
    /\ invite(r)
    /\ UNCHANGED <<began, audience, hand, starts, completed, claimed, world, posted>>

\* The run is begun, unless an earlier start began it, whose instant stands.
start(r) ==
    /\ pc[r] = "start"
    /\ startedAt' = IF startedAt[at[r]] = None
                    THEN [startedAt EXCEPT ![at[r]] = began[r]] ELSE startedAt
    /\ IF at[r] \in completed
       THEN goOn(r) /\ UNCHANGED errored
       ELSE /\ pc' = [pc EXCEPT ![r] = "audience"]
            /\ errored' = [errored EXCEPT ![r] = FALSE]
            /\ UNCHANGED at
    /\ invite(r)
    /\ UNCHANGED <<began, audience, hand, starts, completed, claimed, world, posted>>

\* Mutant of readUserIdsLinkedBy: everybody connected by now.
readUserIdsLinkedBy_Now(r) ==
    /\ pc[r] = "audience"
    /\ audience' = [audience EXCEPT ![r] = {u \in Users : linked[u] # None}]
    /\ pc' = [pc EXCEPT ![r] = "pool"]
    /\ UNCHANGED <<began, at, hand, errored, starts, store, world, history>>

readUserIdsLinkedBy(r) ==
    /\ pc[r] = "audience"
    /\ audience' = [audience EXCEPT ![r] =
                       {u \in Users : linked[u] # None /\ linked[u] <= startedAt[at[r]]}]
    /\ pc' = [pc EXCEPT ![r] = "pool"]
    /\ UNCHANGED <<began, at, hand, errored, starts, store, world, history>>

InHand(r) == {u \in Users : hand[r][u] # "nothing"}

takes(r, u) ==
    /\ pc[r] = "pool"
    /\ u \in audience[r]
    /\ Cardinality(InHand(r)) < Concurrency
    /\ audience' = [audience EXCEPT ![r] = @ \ {u}]

\* Mutant of claim: asks for the row and does not insert it.
claim_ReadsOnly(r, u) ==
    /\ takes(r, u)
    /\ <<at[r], u>> \notin claimed
    /\ hand' = [hand EXCEPT ![r][u] = "claimed"]
    /\ UNCHANGED <<pc, began, at, errored, starts, store, world, history>>

\* Whoever inserts the row has the copy to post.
claim(r, u) ==
    /\ takes(r, u)
    /\ <<at[r], u>> \notin claimed
    /\ claimed' = claimed \cup {<<at[r], u>>}
    /\ hand' = [hand EXCEPT ![r][u] = "claimed"]
    /\ UNCHANGED <<pc, began, at, errored, starts, startedAt, completed, world, history>>

claimedAlready(r, u) ==
    /\ takes(r, u)
    /\ <<at[r], u>> \in claimed
    /\ UNCHANGED <<pc, began, at, hand, errored, starts, store, world, history>>

claimThrows(r, u) ==
    /\ "database" \in Faults
    /\ takes(r, u)
    /\ errored' = [errored EXCEPT ![r] = TRUE]
    /\ UNCHANGED <<pc, began, at, hand, starts, store, world, invited, posted>>

\* Slack takes the copy.
deliverAnnouncement(r, u) ==
    /\ hand[r][u] = "claimed" /\ linked[u] # None
    /\ hand' = [hand EXCEPT ![r][u] = "answered"]
    /\ posted' = [posted EXCEPT ![<<at[r], u>>] = @ + 1]
    /\ UNCHANGED <<pc, began, at, audience, errored, starts, store, world, invited>>

\* There is no link any more, or Slack does not take it: an outcome like another.
undeliverable(r, u) ==
    /\ hand[r][u] = "claimed"
    /\ linked[u] = None \/ "slack" \in Faults
    /\ hand' = [hand EXCEPT ![r][u] = "answered"]
    /\ UNCHANGED <<pc, began, at, audience, errored, starts, store, world,
                   invited, posted>>

deliverThrows(r, u) ==
    /\ "database" \in Faults
    /\ hand[r][u] = "claimed"
    /\ hand' = [hand EXCEPT ![r][u] = "nothing"]
    /\ errored' = [errored EXCEPT ![r] = TRUE]
    /\ UNCHANGED <<pc, began, at, audience, starts, store, world, invited, posted>>

record(r, u) ==
    /\ hand[r][u] = "answered"
    /\ hand' = [hand EXCEPT ![r][u] = "nothing"]
    /\ \/ UNCHANGED errored
       \/ "database" \in Faults /\ errored' = [errored EXCEPT ![r] = TRUE]
    /\ UNCHANGED <<pc, began, at, audience, starts, store, world, history>>

\* Mutant of poolEnds: the workers are not awaited.
poolEnds_Early(r) == pc[r] = "pool" /\ audience[r] = {}

poolEnds(r) == pc[r] = "pool" /\ audience[r] = {} /\ InHand(r) = {}

\* Mutant of complete: a pass that threw completes the run all the same.
complete_Always(r) ==
    /\ poolEnds(r)
    /\ completed' = completed \cup {at[r]}
    /\ goOn(r)
    /\ UNCHANGED <<began, audience, hand, errored, starts, startedAt, claimed,
                   world, history>>

complete(r) ==
    /\ poolEnds(r)
    /\ IF errored[r]
       THEN pc' = [pc EXCEPT ![r] = "ended"] /\ UNCHANGED <<at, completed>>
       ELSE completed' = completed \cup {at[r]} /\ goOn(r)
    /\ UNCHANGED <<began, audience, hand, errored, starts, startedAt, claimed,
                   world, history>>

\* The database fails outside the pool: the pass stops there.
stops(r) ==
    /\ "database" \in Faults
    /\ pc[r] \in {"start", "audience"} \/ poolEnds(r)
    /\ pc' = [pc EXCEPT ![r] = "stopped"]
    /\ UNCHANGED <<began, at, audience, hand, errored, starts, store, world, history>>

\* A deploy, or a crash: the process is replaced by one that has yet to make its pass.
Restart(r) ==
    /\ pc[r] \in {"ended", "stopped"} \/ "crash" \in Faults
    /\ starts < MaxStarts
    /\ pc' = [pc EXCEPT ![r] = "booted"]
    /\ audience' = [audience EXCEPT ![r] = {}]
    /\ hand' = [hand EXCEPT ![r] = [u \in Users |-> "nothing"]]
    /\ errored' = [errored EXCEPT ![r] = FALSE]
    /\ began' = [began EXCEPT ![r] = None]
    /\ at' = [at EXCEPT ![r] = 1]
    /\ UNCHANGED <<starts, store, world, history>>

\* A user connects Slack, or moves to another workspace, which is a new link.
Connect(u) ==
    /\ links < MaxLinks
    /\ links' = links + 1
    /\ clock' = clock + 1
    /\ linked' = [linked EXCEPT ![u] = clock + 1]
    /\ UNCHANGED <<store, pass, history>>

Disconnect(u) ==
    /\ links < MaxLinks
    /\ linked[u] # None
    /\ links' = links + 1
    /\ linked' = [linked EXCEPT ![u] = None]
    /\ UNCHANGED <<clock, store, pass, history>>

copyStep(r, u) ==
    \/ claim(r, u) \/ claimedAlready(r, u) \/ claimThrows(r, u)
    \/ deliverAnnouncement(r, u) \/ undeliverable(r, u) \/ deliverThrows(r, u)
    \/ record(r, u)

passStep(r) ==
    \/ run(r) \/ start(r) \/ readUserIdsLinkedBy(r) \/ complete(r) \/ stops(r)
    \/ \E u \in Users : copyStep(r, u)

Next ==
    \/ \E r \in Replicas : passStep(r) \/ Restart(r)
    \/ \E u \in Users : Connect(u) \/ Disconnect(u)

Spec == Init /\ [][Next]_vars

\* A pass that has begun goes on, and a replica that is gone is started again.
FairSpec ==
    /\ Spec
    /\ \A r \in Replicas : WF_vars(passStep(r)) /\ WF_vars(pc[r] \in {"ended", "stopped"} /\ Restart(r))

----------------------------------------------------------------------------
\* Every variable has its type, and a pass has nothing in hand outside its pool.
TypeOK ==
    /\ clock \in Nat /\ links \in 0 .. MaxLinks /\ starts \in 0 .. MaxStarts
    /\ linked \in [Users -> Nat]
    /\ startedAt \in [ANNOUNCEMENTS -> Nat]
    /\ completed \subseteq ANNOUNCEMENTS
    /\ claimed \subseteq Copies
    /\ pc \in [Replicas -> {"booted", "start", "audience", "pool", "ended", "stopped"}]
    /\ began \in [Replicas -> Nat]
    /\ at \in [Replicas -> ANNOUNCEMENTS]
    /\ audience \in [Replicas -> SUBSET Users]
    /\ hand \in [Replicas -> [Users -> {"nothing", "claimed", "answered"}]]
    /\ errored \in [Replicas -> BOOLEAN]
    /\ invited \in [ANNOUNCEMENTS -> SUBSET Users]
    /\ posted \in [Copies -> Nat]
    /\ \A r \in Replicas, u \in Users :
          pc[r] # "pool" => u \notin audience[r] /\ hand[r][u] = "nothing"

\* announcement.service.ts:32-33: "every copy is claimed before it is sent and only the pass that
\* wins the claim posts": nobody gets an announcement twice, whoever starts, restarts or crashes.
OneCopyEach == \A c \in Copies : posted[c] <= 1

\* announcement-run.entity.ts:7-9: the first start fixes the audience, for every later one too:
\* whoever was not connected when it began never gets the announcement.
AudienceStands == \A a \in ANNOUNCEMENTS, u \in Users : posted[<<a, u>>] > 0 => u \in invited[a]

\* Both at once: nobody gets an announcement twice, and nobody who was not there when it began gets it.
OneCopyToTheInvited == TypeOK /\ OneCopyEach /\ AudienceStands

\* announcement-run.entity.ts:11-12: completedAt "is set once a pass has been through the whole
\* audience": everybody in it has a row by then, though passes overlap, crash or throw.
CompletedReachedAll ==
    \A a \in completed, u \in Users :
        linked[u] # None /\ linked[u] <= startedAt[a] => <<a, u>> \in claimed

\* announcement-run.entity.ts:11-12, announcement.service.ts:106: whatever other passes hold and
\* whatever Slack refuses, a pass that no crash and no database error cuts short leaves every
\* announcement complete, those that earlier passes left open too.
EverythingCompletes ==
    \A r \in Replicas :
        pc[r] = "start" ~> completed = ANNOUNCEMENTS \/ errored[r] \/ pc[r] \in {"stopped", "booted"}

============================================================================
