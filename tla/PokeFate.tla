------------------------------ MODULE PokeFate ------------------------------
(***************************************************************************)
(* What submitting a poke promises, with nothing said of windows, timers or  *)
(* shutdown: a piece that was accepted is told at most once, in one message  *)
(* that may tell of several pieces, or it comes to nothing - its delivery    *)
(* failed or the process ended first - and whichever it is, it stays that    *)
(* way.  ReviewBatch implements this.                                        *)
(***************************************************************************)
CONSTANT Pieces \* every candidate poke that a webhook handler may submit

VARIABLE fate   \* what has become of each of them

Fates == {"coming", "accepted", "told", "failed", "lost"}

TypeOK == fate \in [Pieces -> Fates]

Init == fate = [p \in Pieces |-> "coming"]

Accept(p) == /\ fate[p] = "coming"
             /\ fate' = [fate EXCEPT ![p] = "accepted"]

\* Several pieces end together: the pieces of one message, or all that a process held.
Settle(S, end) ==
    /\ \A p \in S : fate[p] = "accepted"
    /\ fate' = [p \in Pieces |-> IF p \in S THEN end ELSE fate[p]]

Next == \/ \E p \in Pieces : Accept(p)
        \/ \E S \in SUBSET Pieces, end \in {"told", "failed", "lost"} : Settle(S, end)

Spec == Init /\ [][Next]_fate
============================================================================
