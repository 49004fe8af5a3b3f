------------------------------ MODULE MCInbox ------------------------------
(***************************************************************************)
(* InboxPage on small worlds: a page in view whose settings are pressed, settings     *)
(* saved over visits, and a sweep over two people one of whom cannot be refreshed.      *)
(***************************************************************************)
EXTENDS InboxPage

AllSettings == [b : {0, 1}, v : {0, 1}]

Quiet == [presses |-> 0, moves |-> 0, opens |-> 1, turns |-> 0, kinds |-> {}, broken |-> {2}, sweeps |-> FALSE]

\* One visit with one thing going wrong, as GitHub moves or as a setting is pressed; two presses.
Visit == [Quiet EXCEPT !.moves = 1, !.turns = 1,
                       !.kinds = {"unavailable", "throws", "withdrawn", "expiry", "lost", "hides"}]
Press == [Visit EXCEPT !.presses = 1, !.moves = 0]
Pressed == [Quiet EXCEPT !.presses = 2]

\* A page left and come back to, with nothing pressed; and with a setting saved on the way.
Reopened  == [Quiet EXCEPT !.opens = 2, !.turns = 1, !.kinds = {"leaves"}]
\* The sweep over a visit that is left behind, and over a restart.
Swept == [Quiet EXCEPT !.turns = 1, !.kinds = {"leaves"}, !.sweeps = TRUE]
Deployed == [Swept EXCEPT !.opens = 0, !.turns = 2, !.kinds = {"restart", "expiry"}]

MCStories == {Visit, Press, Pressed, Reopened, Swept, Deployed}
============================================================================
