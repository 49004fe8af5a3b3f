--------------------------- MODULE ListenReminder ---------------------------
(***************************************************************************)
(* The weekly reminder to somebody who connected Slack and listens to no       *)
(* organisation (ListenReminderService): sweeps of overlapping processes read   *)
(* who is due in three queries, claim each person's week in one conditional      *)
(* write and post, while people link, listen and press "Never remind me again".   *)
(*                                                                           *)
(* Instants are kept as ages, which is all the queries compare: a stamp is how   *)
(* long ago it was, up to Oldest, and a sweep's `now` how long the sweep has run. *)
(***************************************************************************)
EXTENDS Integers, FiniteSets

CONSTANTS
    Users,
    Processes,     \* the processes up at once: two while a deploy overlaps
    Concurrency,   \* CONCURRENCY, the pool's workers
    Week,          \* LISTEN_REMINDER_INTERVAL_MS, in ticks
    MaxLag,        \* the longest a sweep takes, in ticks
    Worlds,        \* what is explored together: who ever connects Slack, and how many faults,
                   \* and changes people make, there are
    Faults         \* what may happen: "crash", "database", "slack"

ASSUME ConcurrencyAssumption == Concurrency \in Nat \ {0}
ASSUME TimesAssumption == Week \in Nat /\ MaxLag \in Nat /\ MaxLag < Week
ASSUME WorldsAssumption == Worlds \subseteq [members : SUBSET Users, changes : Nat]
ASSUME FaultsAssumption == Faults \subseteq {"crash", "database", "slack"}

VARIABLES
    members,     \* who ever connects Slack
    linked,      \* how long ago each user's link was made
    sent,        \* how long ago listenReminderSentAt is
    stopped,     \* who has listenReminderStoppedAt
    listening,   \* who has a subscription
    sweeping,    \* each process's flag
    at,          \* where its sweep is
    todo,        \* the people it has read, narrowed by each query
    hand,        \* whose week it has won and not yet posted to
    lag,         \* how long the sweep has run
    told,        \* how long ago each user was last posted to
    moved,       \* who ever connected anew
    changes      \* how many there may still be

people  == <<members, linked, stopped, listening, moved>>
process == <<sweeping, at, todo, hand, lag>>
vars    == <<people, sent, process, told, changes>>

Oldest == Week + MaxLag
Never  == -1
Ages   == 0 .. Oldest \cup {Never}
older(age) == IF age \in {Never, Oldest} THEN age ELSE age + 1

Init ==
    /\ \E w \in Worlds : members = w.members /\ changes = w.changes
    /\ linked \in [Users -> {Never, 0, Oldest}]
    /\ \A u \in Users \ members : linked[u] = Never
    /\ sent = [u \in Users |-> Never] /\ told = sent
    /\ listening \in SUBSET members
    /\ sweeping = [p \in Processes |-> FALSE]
    /\ at = [p \in Processes |-> "idle"]
    /\ todo = [p \in Processes |-> {}] /\ hand = todo
    /\ lag = [p \in Processes |-> 0]
    /\ stopped = {} /\ moved = {}

----------------------------------------------------------------------------
\* The `weekAgo` of p's sweep, as an age.
weekAgo(p) == Week + lag[p]

\* The condition both of readListenReminderDue and of the claim.
owed(p, u) == u \notin stopped /\ (sent[u] = Never \/ sent[u] >= weekAgo(p))

sweep(p) ==
    /\ ~sweeping[p]
    /\ sweeping' = [sweeping EXCEPT ![p] = TRUE]
    /\ at' = [at EXCEPT ![p] = "links"]
    /\ UNCHANGED <<people, sent, told, changes, todo, hand, lag>>

reads(p, from, to, found) ==
    /\ at[p] = from
    /\ at' = [at EXCEPT ![p] = to]
    /\ todo' = [todo EXCEPT ![p] = found]
    /\ UNCHANGED <<people, sent, told, changes, sweeping, hand, lag>>

\* Mutant of readUserIdsLinkedBy: everybody connected, since whenever.
readUserIdsLinkedBy_Any(p) ==
    reads(p, "links", "subscriptions", {u \in Users : linked[u] # Never})

readUserIdsLinkedBy(p) ==
    reads(p, "links", "subscriptions", {u \in Users : linked[u] >= weekAgo(p)})

readSubscribedUserIds(p) == reads(p, "subscriptions", "users", todo[p] \ listening)

\* Mutant of readListenReminderDue: a condition a row that never had one does not match.
readListenReminderDue_NeedsStamp(p) ==
    reads(p, "users", "pool", {u \in todo[p] : owed(p, u) /\ sent[u] # Never})

readListenReminderDue(p) == reads(p, "users", "pool", {u \in todo[p] : owed(p, u)})

\* Mutant of sweepFails: the flag is not reset.
sweepFails_KeepsFlag(p) ==
    /\ "database" \in Faults /\ changes > 0
    /\ at[p] \in {"links", "subscriptions", "users"}
    /\ changes' = changes - 1
    /\ at' = [at EXCEPT ![p] = "idle"]
    /\ todo' = [todo EXCEPT ![p] = {}]
    /\ lag' = [lag EXCEPT ![p] = 0]
    /\ UNCHANGED <<people, sent, told, hand, sweeping>>

\* One of the three queries throws.
sweepFails(p) ==
    /\ "database" \in Faults /\ changes > 0
    /\ at[p] \in {"links", "subscriptions", "users"}
    /\ changes' = changes - 1
    /\ at' = [at EXCEPT ![p] = "idle"]
    /\ todo' = [todo EXCEPT ![p] = {}]
    /\ lag' = [lag EXCEPT ![p] = 0]
    /\ sweeping' = [sweeping EXCEPT ![p] = FALSE]
    /\ UNCHANGED <<people, sent, told, hand>>

\* A worker of the pool takes the next person.
takes(p, u) ==
    /\ at[p] = "pool" /\ u \in todo[p] /\ Cardinality(hand[p]) < Concurrency
    /\ todo' = [todo EXCEPT ![p] = @ \ {u}]

\* Mutant of claimListenReminder: whoever read somebody as due has won.
claimListenReminder_Trusts(p, u) ==
    /\ takes(p, u)
    /\ sent' = [sent EXCEPT ![u] = lag[p]]
    /\ hand' = [hand EXCEPT ![p] = @ \cup {u}]
    /\ UNCHANGED <<people, told, changes, sweeping, at, lag>>

claimListenReminder(p, u) ==
    /\ takes(p, u) /\ owed(p, u)
    /\ sent' = [sent EXCEPT ![u] = lag[p]]
    /\ hand' = [hand EXCEPT ![p] = @ \cup {u}]
    /\ UNCHANGED <<people, told, changes, sweeping, at, lag>>

claimedAlready(p, u) ==
    /\ takes(p, u) /\ ~owed(p, u)
    /\ UNCHANGED <<people, sent, told, changes, sweeping, at, hand, lag>>

claimThrows(p, u) ==
    /\ "database" \in Faults /\ changes > 0
    /\ changes' = changes - 1
    /\ takes(p, u)
    /\ UNCHANGED <<people, sent, told, sweeping, at, hand, lag>>

lets(p, u) ==
    /\ u \in hand[p]
    /\ hand' = [hand EXCEPT ![p] = @ \ {u}]
    /\ UNCHANGED <<people, sent, changes, sweeping, at, todo, lag>>

\* deliverListenReminder lands, or comes to nothing: the week is spent either way.
posts(p, u)         == lets(p, u) /\ linked[u] # Never /\ told' = [told EXCEPT ![u] = 0]
undeliverable(p, u) == lets(p, u) /\ (linked[u] = Never \/ "slack" \in Faults) /\ UNCHANGED told

\* Mutant of sweepEnds: what the sweep had won stays with it.
sweepEnds_Early(p) ==
    /\ at[p] = "pool" /\ todo[p] = {}
    /\ at' = [at EXCEPT ![p] = "idle"]
    /\ sweeping' = [sweeping EXCEPT ![p] = FALSE]
    /\ lag' = [lag EXCEPT ![p] = 0]
    /\ UNCHANGED <<people, sent, told, changes, todo, hand>>

sweepEnds(p) ==
    /\ at[p] = "pool" /\ todo[p] = {} /\ hand[p] = {}
    /\ at' = [at EXCEPT ![p] = "idle"]
    /\ sweeping' = [sweeping EXCEPT ![p] = FALSE]
    /\ lag' = [lag EXCEPT ![p] = 0]
    /\ UNCHANGED <<people, sent, told, changes, todo, hand>>

work(p) ==
    \/ readUserIdsLinkedBy(p) \/ readSubscribedUserIds(p) \/ readListenReminderDue(p)
    \/ \E u \in Users : \/ claimListenReminder(p, u) \/ claimedAlready(p, u)
                        \/ posts(p, u) \/ undeliverable(p, u)
    \/ sweepEnds(p)

\* The process is replaced.
Restart(p) ==
    /\ "crash" \in Faults /\ changes > 0 /\ sweeping[p]
    /\ changes' = changes - 1
    /\ sweeping' = [sweeping EXCEPT ![p] = FALSE]
    /\ at' = [at EXCEPT ![p] = "idle"]
    /\ todo' = [todo EXCEPT ![p] = {}]
    /\ hand' = [hand EXCEPT ![p] = {}]
    /\ lag' = [lag EXCEPT ![p] = 0]
    /\ UNCHANGED <<people, sent, told>>

----------------------------------------------------------------------------
\* "Never remind me again", on a message that was posted.
stop(u) ==
    /\ told[u] # Never /\ u \notin stopped
    /\ stopped' = stopped \cup {u}
    /\ UNCHANGED <<members, linked, listening, moved, sent, process, told, changes>>

\* Somebody connects or disconnects Slack, or starts or stops listening.
Changes(u) ==
    /\ changes > 0
    /\ changes' = changes - 1
    /\ \/ /\ linked' = [linked EXCEPT ![u] = IF @ = Never THEN 0 ELSE Never]
          /\ moved' = moved \cup {u}
          /\ UNCHANGED listening
       \/ /\ listening' = IF u \in listening THEN listening \ {u} ELSE listening \cup {u}
          /\ UNCHANGED <<linked, moved>>
    /\ UNCHANGED <<members, stopped, sent, process, told>>

Tick ==
    /\ \A p \in Processes : at[p] # "idle" => lag[p] < MaxLag
    /\ lag' = [p \in Processes |-> IF at[p] # "idle" THEN lag[p] + 1 ELSE lag[p]]
    /\ linked' = [u \in Users |-> older(linked[u])]
    /\ sent' = [u \in Users |-> older(sent[u])]
    /\ told' = [u \in Users |-> older(told[u])]
    /\ UNCHANGED <<members, stopped, listening, moved, sweeping, at, todo, hand, changes>>

Next ==
    \/ \E p \in Processes : \/ sweep(p) \/ work(p) \/ sweepFails(p) \/ Restart(p)
                            \/ \E u \in Users : claimThrows(p, u)
    \/ \E u \in members : stop(u) \/ Changes(u)
    \/ Tick

Spec == Init /\ [][Next]_vars

\* The interval fires, and a sweep that has begun goes on.
FairSpec ==
    /\ Spec
    /\ WF_vars(Tick)
    /\ \A p \in Processes : WF_vars(sweep(p)) /\ WF_vars(work(p))

----------------------------------------------------------------------------
\* Every variable has its type; a sweep holds nobody's week before its pool or after its end, and
\* at most as many as there are workers.
TypeOK ==
    /\ linked \in [Users -> Ages] /\ sent \in [Users -> Ages] /\ told \in [Users -> Ages]
    /\ stopped \subseteq Users /\ listening \subseteq Users /\ moved \subseteq Users
    /\ sweeping \in [Processes -> BOOLEAN] /\ lag \in [Processes -> 0 .. MaxLag]
    /\ at \in [Processes -> {"idle", "links", "subscriptions", "users", "pool"}]
    /\ \A p \in Processes : /\ todo[p] \subseteq Users /\ hand[p] \subseteq Users \ todo[p]
                            /\ Cardinality(hand[p]) <= Concurrency
                            /\ at[p] # "pool" => hand[p] = {}
                            /\ at[p] = "idle" => todo[p] = {} /\ lag[p] = 0

\* listen-reminder.service.ts:44-45: once a week at most, since only the pass that wins a week posts:
\* two posts to one person are never closer than a week less the time a sweep took to get to the
\* first, however many processes sweep, crash and start over.  And :16-17: somebody halfway through
\* setting up is not told off for it: nobody who has stayed connected is posted to in the week
\* after they connected.
OnceAWeek ==
    [][\A p \in Processes, u \in Users :
          posts(p, u) => /\ told[u] = Never \/ told[u] >= Week - MaxLag
                         /\ u \in moved \/ linked[u] >= Week]_vars

\* A sweep holds what it should and posts no more than once a week (sweep, claimListenReminder).
SweepsWithinTheWeek == []TypeOK /\ OnceAWeek

\* listen-reminder.service.ts:41-42: without it "they are told once, and then hear nothing, forever":
\* who stays connected, listens to nothing and has not stopped it is claimed for again and again.
NobodyForgotten ==
    \A u \in Users :
        <>[](linked[u] # Never /\ u \notin listening /\ u \notin stopped)
            => []<>(sent[u] # Never /\ sent[u] < Week)

============================================================================
