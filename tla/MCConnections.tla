--------------------------- MODULE MCConnections ---------------------------
EXTENDS Connections

Situation(account, slots, ops, turns, changes, faults) ==
    [account |-> account, slots |-> slots, asks |-> ops, turns |-> turns, edits |-> changes, faults |-> faults]

NoSituation == Situation("User", {}, {}, 0, 0, {})

\* An account that is removed, changed and left while its members ask for one thing at a time; one
\* whose page asks for two at once; and those whose requests break off.
MCConnectionWorlds ==
    { NoSituation,
      Situation("Organization", {1}, {"load", "on", "off", "remove"}, 3, 1, {"github", "lost"}),
      Situation("User", {1}, {"load", "on", "off", "narrow"}, 3, 1, {"revoked"}),
      Situation("User", {1, 2}, {"load", "on", "off"}, 3, 0, {}),
      Situation("User", {1, 2}, {"load", "on", "narrow", "remove"}, 3, 0, {"break"}),
      Situation("User", {1}, {"load", "on", "narrow"}, 4, 0, {"break"}) }
===========================================================================
