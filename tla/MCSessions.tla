----------------------------- MODULE MCSessions -----------------------------
(***************************************************************************)
(* What a session is on both sides of the wire, and the account behind it: two     *)
(* components that share only the row a session is for.  A world of one is a       *)
(* standstill of the other, so that one run asks about each by itself.               *)
(***************************************************************************)
EXTENDS Sessions, Accounts

World(ticks, count, logouts, pages, logins, faults) ==
    [ticks |-> ticks, asks |-> count, logouts |-> logouts, pages |-> pages, logins |-> logins, faults |-> faults]

NoSession == World(0, 0, 0, 0, {}, {})

\* Two tabs of one session that grow old; two logins; a clock that is wrong; a network that fails;
\* a server that refuses whatever it is shown.
MCWorlds ==
    { World(4, 2, 1, 1, {1}, {}),
      World(2, 1, 1, 1, {1, 2}, {}),
      World(3, 2, 0, 1, {1}, {"clock"}),
      World(2, 2, 1, 1, {1}, {"network"}),
      World(1, 2, 1, 1, {1}, {"refuses", "network"}),
      NoSession }

Accounts_(logins, renames, uses, writes, deletions, restarts) ==
    [logins |-> logins, renames |-> renames, uses |-> uses, writes |-> writes, deletions |-> deletions,
     restarts |-> restarts]

NoAccount == Accounts_(0, 0, 0, 0, 0, 0)

\* Names that change hands under logins that stop half way; tokens refused under logins; an account
\* deleted under what is still being written, cut short, and asked for again.
MCAccountWorlds ==
    { Accounts_(3, 2, 0, 0, 0, 1),
      Accounts_(3, 1, 1, 0, 0, 0),
      Accounts_(2, 1, 2, 0, 0, 0),
      Accounts_(1, 0, 0, 1, 2, 1),
      Accounts_(2, 0, 0, 1, 1, 0),
      NoAccount }

\* One of the two stands still; which name GitHub gave whom first makes no difference.
OnlineInit ==
    /\ Init /\ AccountsInit
    /\ handle = CHOOSE h \in [People -> Handles] : \A p, q \in People : h[p] = h[q] => p = q
    /\ (world = NoSession) # (accountWorld = NoAccount)

OnlineNext ==
    \/ world # NoSession /\ Next /\ UNCHANGED accountVars
    \/ accountWorld # NoAccount /\ AccountsNext /\ UNCHANGED vars

OnlineSpec == OnlineInit /\ [][OnlineNext]_<<vars, accountVars>> /\ Fairness
===========================================================================
