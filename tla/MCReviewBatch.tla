--------------------------- MODULE MCReviewBatch ---------------------------
(* Two pieces of one review, one of another and a poke that arrives whole,   *)
(* with a window of two ticks: a piece can join late, a batch can reopen     *)
(* after its flush, and every way of stopping can fall in between.           *)
EXTENDS ReviewBatch

CONSTANTS a1, a2, b1, w1, reviewA, reviewB

MCPieces == {a1, a2, b1, w1}
MCKeys == {reviewA, reviewB}
MCBatchKey == [p \in MCPieces |-> CASE p \in {a1, a2} -> reviewA
                                    [] p = b1 -> reviewB
                                    [] p = w1 -> NoKey]
============================================================================
