------------------------------ MODULE MCDigest ------------------------------
(* Days of three hours, so that a pass may begin on one day and end on the next. *)
EXTENDS Digest

CONSTANTS r1, r2

World(replicas, faults) == [replicas |-> replicas, faults |-> faults]
\* Two replicas that restart and lose their database; and one that shares the row with saves
\* whose two writes it comes between.
MCWorlds  == {World({r1, r2}, {"crash", "database", "token"}), World({r1}, {"overlap", "token"})}
============================================================================
