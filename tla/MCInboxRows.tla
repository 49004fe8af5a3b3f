---------------------------- MODULE MCInboxRows ----------------------------
(* Pull requests on both sides of every rule: the two spans a draft may be   *)
(* on the edge of, an author in one team, in two and in none, a machine told  *)
(* by its type and by its name, and answers GitHub only gave in part.          *)
EXTENDS InboxRows

Name(of)   == [of |-> of, capitals |-> FALSE]
Capital(of) == [of |-> of, capitals |-> TRUE]

Node(n, by) ==
    [id |-> n, number |-> n % 3, whole |-> TRUE, by |-> by, machine |-> FALSE, isDraft |-> FALSE,
     updatedAt |-> 900, mergedAt |-> Unread, hasUnresolvedThreads |-> FALSE, reviewDecision |-> "NONE"]

Draft(n, at) == [Node(n, Name("me")) EXCEPT !.isDraft = TRUE, !.updatedAt = at]

Yours ==
    {[yours |-> Said(<<Draft(1, a), Draft(2, b),
                       [Node(3, Name("me")) EXCEPT !.reviewDecision = d, !.hasUnresolvedThreads = d = "NONE"]>>),
      waitingOnYou |-> Refused, merged |-> m] :
         a \in {Unread, Now - 23}, b \in {Unread, Now - 24, Now - 167}, d \in {"NONE", "APPROVED"},
         m \in {Refused, Said(<<[Node(4, Name("me")) EXCEPT !.mergedAt = 800],
                                [Node(5, Name("me")) EXCEPT !.mergedAt = 900]>>)}}

Waiting ==
    {[yours |-> Said(<<[Node(1, Capital("me")) EXCEPT !.whole = FALSE]>>), merged |-> Said(<<>>),
      waitingOnYou |-> Said(<<[Node(6, a) EXCEPT !.reviewDecision = d], [Node(7, b) EXCEPT !.machine = b.of = "late"],
                              Node(8, Capital("me"))>>)] :
         a \in {Name("ann"), Capital("ann")}, b \in {Name("cy"), Name("late"), Name("robot[bot]"), Nameless},
         d \in {"NONE", "APPROVED"}}

Core == Capital("core")
All  == Name("all")
Late == Name("late")
Told(named, core, all) ==
    [named |-> named, members |-> (Core :> core @@ All :> all @@ Late :> Said({Name("cy")}))]

Answers ==
    {Told(Refused, Refused, Refused), Told(Said(<<>>), Refused, Refused),
     Told(Said(<<Core, All>>), Refused, Refused), Told(Said(<<Core, All, Late>>), Said({Name("ann")}), Refused),
     Told(Said(<<Core, All, Late>>), Said({Capital("ann")}), Said({Name("ann"), Name("cy"), Name("robot[bot]")}))}


MCGithubs == [facts : Yours, answer : {Told(Refused, Refused, Refused)}] \cup [facts : Waiting, answer : Answers]

MCRows ==
    {<<>>,
     [recentDrafts |-> "30d", separateTeam |-> TRUE],
     [includeApproved |-> TRUE, recentDrafts |-> "7d", separateBots |-> FALSE,
      ignoredAuthors |-> <<Capital("cy"), Name("cy")>>],
     [includeApproved |-> TRUE, separateTeam |-> FALSE, excludedTeams |-> <<Name("all"), Capital("core")>>]}

MCTyped == {Capital("ann"), Name("cy")}
=============================================================================
