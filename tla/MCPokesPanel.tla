---------------------------- MODULE MCPokesPanel ----------------------------
(***************************************************************************)
(* PokeSenders on small worlds: presses on the panel in quick succession, saves of an older   *)
(* tab over rows of every age, and a month of pokes of two bots and two people on a row that   *)
(* has room for two.                                                                          *)
(***************************************************************************)
EXTENDS PokeSenders, TLC

Spelled == "ann" :> "ann" @@ "fred" :> "fred" @@ "mergify" :> "mergify"
           @@ "mergify[bot]" :> "mergify" @@ "x-bot" :> "x-bot" @@ " " :> ""

Ann == [login |-> "ann", bot |-> FALSE]
Fred == [login |-> "fred", bot |-> FALSE]
Mergify == [login |-> "mergify", bot |-> TRUE]
XBot == [login |-> "x-bot", bot |-> TRUE]

Talk(who, piece) == [type |-> "pull_request_comment", account |-> who, author |-> Ann, piece |-> piece]
ReviewOf(who, author, piece) == [type |-> "review_requested", account |-> who, author |-> author, piece |-> piece]

MCPokes == {Talk(Ann, "none"), Talk(Fred, "none"), Talk(Mergify, "r1"), ReviewOf(Mergify, Mergify, "r1"),
            ReviewOf(Mergify, Ann, "none"), ReviewOf(XBot, XBot, "none")}

Untouched == [f \in {} |-> {}]
Old   == [mutedTypes |-> {"team_mention", "review_requested"}]
Strict == [mutedTypes |-> {}, reviewRequestResolution |-> "strict", botMode |-> "custom",
           allowedBots |-> {"mergify[bot]"}, digestEnabled |-> TRUE, digestHour |-> 17]
Blocks == [mutedTypes |-> {}, botMode |-> "all", blockedBots |-> {"x-bot"}, allowedBots |-> {"mergify"}]

Bodies ==
    {[mutedTypes |-> {"pull_request_comment"}],
     [mutedTypes |-> {}, reviewRequestResolution |-> "strict"],
     [mutedTypes |-> {}, digestEnabled |-> TRUE, digestHour |-> 17],
     [mutedTypes |-> {}, reviewRequestResolution |-> "strict", digestEnabled |-> TRUE],
     [mutedTypes |-> {}, botMode |-> "none", allowedBots |-> {"mergify", "mergify[bot]"}]}

Base == [stored |-> {Untouched}, presses |-> {}, most |-> 0, bodies |-> {}, others |-> 0,
         pokes |-> 0, days |-> 0, mishaps |-> {}]

\* Two presses of any kind, on rows of every age; three of a few kinds.
Pressing == [Base EXCEPT !.stored = {Old, Strict, Blocks}, !.most = 2,
                         !.presses = {"types", "resolution", "bots", "digest"}]
Hasty == [Base EXCEPT !.stored = {Strict}, !.most = 3, !.presses = {"types", "digest"}]

\* Two presses with a save lost, left behind or overtaken, or with a tab that is older.
Losing == [Base EXCEPT !.stored = {Strict}, !.most = 2, !.presses = {"types"}, !.mishaps = {"lost", "leaves"}]
Overtaking == [Losing EXCEPT !.mishaps = {"order"}]
Ageing == [Base EXCEPT !.stored = {Untouched, Old, Strict, Blocks}, !.most = 1, !.presses = {"digest"},
                       !.bodies = Bodies, !.others = 2]

\* Pokes over days, and the panel over them.
Poked   == [Base EXCEPT !.pokes = 4, !.days = 2]
Faulty  == [Base EXCEPT !.pokes = 3, !.days = 2, !.mishaps = {"restart", "database"}]
Counted == [Base EXCEPT !.stored = {Untouched, [botMode |-> "none"]}, !.pokes = 4, !.days = 1]
Offered == [Base EXCEPT !.most = 2, !.presses = {"bots", "senders"}, !.pokes = 2]

MCWorlds == {Pressing, Hasty, Losing, Overtaking, Ageing, Poked, Faulty, Counted, Offered}

Reopened == {[Losing EXCEPT !.mishaps = {"leaves"}]}
=============================================================================
