-------------------------- MODULE MCListenReminder --------------------------
(***************************************************************************)
(* ListenReminder on small instances: a week of two ticks, sweeps that take up *)
(* to one.                                                                   *)
(***************************************************************************)
EXTENDS ListenReminder

CONSTANTS ada, bob, old, new

Everybody == {ada, bob}
Two       == {old, new}

\* Two people with nothing but time passing, and one to whom everything happens.
MCWorlds  == {[members |-> Everybody, changes |-> 0], [members |-> {ada}, changes |-> 3]}
============================================================================
