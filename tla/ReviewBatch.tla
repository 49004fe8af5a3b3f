---------------------------- MODULE ReviewBatch ----------------------------
(***************************************************************************)
(* ReviewBatchService as a process: pieces of a review are submitted by      *)
(* concurrent webhook handlers, held under a key until a timer set by the    *)
(* first of them fires, and handed to the delivery service as one message.   *)
(* The process stops in two ways: gracefully (enableShutdownHooks, then      *)
(* onModuleDestroy), and by being killed, which is what the deployment's     *)
(* `docker rm -f` and any crash do.  It comes back with an empty map.        *)
(*                                                                           *)
(* What a message says of its pieces is ReviewMerge's; here a batch is the   *)
(* set of its pieces.  Synchronous code is one action: between reading the   *)
(* map and writing it `submit` has no await, and flushAll takes every batch  *)
(* out of the map before the first delivery is awaited.                      *)
(***************************************************************************)
EXTENDS Naturals, FiniteSets

CONSTANTS
    Pieces,   \* candidate pokes, one per webhook and recipient
    Keys,     \* batch keys: recipient, kind of batch and what it is about
    NoKey,    \* the key of a poke that arrives whole
    BatchKey, \* the key of each piece, as pieceOf tells it
    Window    \* the window, in ticks

ASSUME NoKeyAssumption == NoKey \notin Keys
ASSUME BatchKeyAssumption == BatchKey \in [Pieces -> Keys \cup {NoKey}]
ASSUME WindowAssumption == Window \in Nat

VARIABLES
    phase,      \* "up", "stopping" (onModuleDestroy has run) or "down"
    coming,     \* pieces no handler has submitted yet
    batches,    \* the map: the pieces held under each key, {} where it has no entry
    age,        \* ticks since each open batch's timer was set; 0 where no timer runs
    sending,    \* deliveries in flight: their pieces and who is behind them
    told,       \* how many messages Slack took that told of each piece
    failed,     \* pieces whose delivery came to nothing
    lostByExit, \* pieces a graceful exit cut off
    lostByKill, \* pieces a kill cut off
    waited,     \* ticks each piece has been held
    flushed     \* pieces flushAll took out of the map

vars == <<phase, coming, batches, age, sending, told, failed, lostByExit, lostByKill,
          waited, flushed>>

----------------------------------------------------------------------------
Flushers == {"timer", "shutdown", "handler"}
Delivery == [pieces: SUBSET Pieces, by: Flushers]

Alive   == phase \in {"up", "stopping"}
Open(k) == batches[k] # {}
Held    == UNION {batches[k] : k \in Keys}
InFlight == UNION {d.pieces : d \in sending}
Lost    == lostByExit \cup lostByKill

Init ==
    /\ phase = "up"
    /\ coming = Pieces
    /\ batches = [k \in Keys |-> {}]
    /\ age = [k \in Keys |-> 0]
    /\ sending = {}
    /\ told = [p \in Pieces |-> 0]
    /\ failed = {}
    /\ lostByExit = {}
    /\ lostByKill = {}
    /\ waited = [p \in Pieces |-> 0]
    /\ flushed = {}

----------------------------------------------------------------------------
\* A poke that arrives whole has nothing to be batched with: its handler delivers it now.
SubmitWhole(p) ==
    /\ BatchKey[p] = NoKey
    /\ sending' = sending \cup {[pieces |-> {p}, by |-> "handler"]}
    /\ UNCHANGED <<batches, age>>

\* Mutant of SubmitJoins: every arrival sets the timer again.
SubmitJoins_Extends(p) ==
    /\ BatchKey[p] # NoKey
    /\ Open(BatchKey[p])
    /\ batches' = [batches EXCEPT ![BatchKey[p]] = @ \cup {p}]
    /\ age' = [age EXCEPT ![BatchKey[p]] = 0]
    /\ UNCHANGED sending

\* A later piece joins the open batch and leaves its timer alone.
SubmitJoins(p) ==
    /\ BatchKey[p] # NoKey
    /\ Open(BatchKey[p])
    /\ batches' = [batches EXCEPT ![BatchKey[p]] = @ \cup {p}]
    /\ UNCHANGED <<sending, age>>

\* The first piece opens the batch and sets its timer.
SubmitOpens(p) ==
    /\ BatchKey[p] # NoKey
    /\ ~Open(BatchKey[p])
    /\ batches' = [batches EXCEPT ![BatchKey[p]] = {p}]
    /\ age' = [age EXCEPT ![BatchKey[p]] = 0]
    /\ UNCHANGED sending

\* Handlers run detached from their requests, so they go on submitting while the
\* shutdown hooks run.
submit(p) ==
    /\ Alive
    /\ p \in coming
    /\ coming' = coming \ {p}
    /\ SubmitWhole(p) \/ SubmitJoins(p) \/ SubmitOpens(p)
    /\ UNCHANGED <<phase, told, failed, lostByExit, lostByKill, waited, flushed>>

\* Mutants of flush: the entry stays in the map while its delivery runs; and the timer is
\* compared so that it never comes due.
flush_KeepsEntry(k) ==
    /\ Alive
    /\ Open(k)
    /\ age[k] = Window
    /\ sending' = sending \cup {[pieces |-> batches[k], by |-> "timer"]}
    /\ UNCHANGED <<phase, coming, batches, age, told, failed, lostByExit, lostByKill, waited, flushed>>

flush_NeverDue(k) ==
    /\ Alive
    /\ Open(k)
    /\ age[k] > Window
    /\ batches' = [batches EXCEPT ![k] = {}]
    /\ age' = [age EXCEPT ![k] = 0]
    /\ sending' = sending \cup {[pieces |-> batches[k], by |-> "timer"]}
    /\ UNCHANGED <<phase, coming, told, failed, lostByExit, lostByKill, waited, flushed>>

\* The entry leaves the map and its timer is cleared, then its delivery starts.
flush(k) ==
    /\ Alive
    /\ Open(k)
    /\ age[k] = Window
    /\ batches' = [batches EXCEPT ![k] = {}]
    /\ age' = [age EXCEPT ![k] = 0]
    /\ sending' = sending \cup {[pieces |-> batches[k], by |-> "timer"]}
    /\ UNCHANGED <<phase, coming, told, failed, lostByExit, lostByKill, waited, flushed>>

\* onModuleDestroy: every batch still open is flushed now.
flushAll ==
    /\ phase = "up"
    /\ phase' = "stopping"
    /\ batches' = [k \in Keys |-> {}]
    /\ age' = [k \in Keys |-> 0]
    /\ sending' = sending \cup
           {[pieces |-> batches[k], by |-> "shutdown"] : k \in {j \in Keys : Open(j)}}
    /\ flushed' = flushed \cup Held
    /\ UNCHANGED <<coming, told, failed, lostByExit, lostByKill, waited>>

\* Slack took the message, or delivering it threw or was refused: flush logs that, and a
\* handler's caller does.  Either way it is not tried again.
DeliverySucceeds(d) ==
    /\ Alive
    /\ sending' = sending \ {d}
    /\ told' = [p \in Pieces |-> IF p \in d.pieces THEN told[p] + 1 ELSE told[p]]
    /\ UNCHANGED <<phase, coming, batches, age, failed, lostByExit, lostByKill, waited, flushed>>

\* Mutant of DeliveryFails: a failed batch is put back to be tried again.
DeliveryFails_Requeues(d) ==
    /\ Alive
    /\ sending' = sending \ {d}
    /\ failed' = failed \cup d.pieces
    /\ batches' = [k \in Keys |-> batches[k] \cup {p \in d.pieces : BatchKey[p] = k}]
    /\ UNCHANGED <<phase, coming, age, told, lostByExit, lostByKill, waited, flushed>>

DeliveryFails(d) ==
    /\ Alive
    /\ sending' = sending \ {d}
    /\ failed' = failed \cup d.pieces
    /\ UNCHANGED <<phase, coming, batches, age, told, lostByExit, lostByKill, waited, flushed>>

\* Nothing of the process outlives it.
Stop ==
    /\ phase' = "down"
    /\ batches' = [k \in Keys |-> {}]
    /\ age' = [k \in Keys |-> 0]
    /\ sending' = {}
    /\ UNCHANGED <<coming, told, failed, waited, flushed>>

\* Mutant of Exit: the hook does not await what it flushed.
Exit_Unawaited ==
    /\ phase = "stopping"
    /\ Stop
    /\ lostByExit' = lostByExit \cup Held \cup InFlight
    /\ UNCHANGED lostByKill

\* The shutdown hooks return once everything flushAll flushed has been delivered, and
\* only that; the process then ends under whatever else it was doing.
Exit ==
    /\ phase = "stopping"
    /\ \A d \in sending : d.by # "shutdown"
    /\ Stop
    /\ lostByExit' = lostByExit \cup Held \cup InFlight
    /\ UNCHANGED lostByKill

Kill ==
    /\ Alive
    /\ Stop
    /\ lostByKill' = lostByKill \cup Held \cup InFlight
    /\ UNCHANGED lostByExit

Restart ==
    /\ phase = "down"
    /\ phase' = "up"
    /\ UNCHANGED <<coming, batches, age, sending, told, failed, lostByExit, lostByKill,
                   waited, flushed>>

\* Mutant of Tick: a timer that is due does not fire before more time passes.
Tick_Unpunctual ==
    /\ Alive
    /\ \E k \in Keys : Open(k)
    /\ \A k \in Keys : age[k] <= Window
    /\ age' = [k \in Keys |-> IF Open(k) THEN age[k] + 1 ELSE age[k]]
    /\ waited' = [p \in Pieces |-> IF p \in Held THEN waited[p] + 1 ELSE waited[p]]
    /\ UNCHANGED <<phase, coming, batches, sending, told, failed, lostByExit, lostByKill, flushed>>

\* Time passes while the process lives.  Timers are punctual: no tick is taken while one is
\* due, which stands for an event loop that is never a whole tick behind.
Tick ==
    /\ Alive
    /\ \E k \in Keys : Open(k)
    /\ \A k \in Keys : Open(k) => age[k] < Window
    /\ age' = [k \in Keys |-> IF Open(k) THEN age[k] + 1 ELSE age[k]]
    /\ waited' = [p \in Pieces |-> IF p \in Held THEN waited[p] + 1 ELSE waited[p]]
    /\ UNCHANGED <<phase, coming, batches, sending, told, failed, lostByExit, lostByKill, flushed>>

Next ==
    \/ \E p \in Pieces : submit(p)
    \/ \E k \in Keys : flush(k)
    \/ flushAll
    \/ \E d \in sending : DeliverySucceeds(d) \/ DeliveryFails(d)
    \/ Exit
    \/ Kill
    \/ Restart
    \/ Tick

Spec == Init /\ [][Next]_vars

\* The event loop runs timers and lets time pass, and every Slack call returns: fetch gives
\* up on a silent peer.  Nothing makes a webhook arrive or the process stop.
Fairness ==
    /\ WF_vars(Tick)
    /\ \A k \in Keys : WF_vars(flush(k))
    /\ WF_vars(\E d \in sending : DeliverySucceeds(d) \/ DeliveryFails(d))

FairSpec == Spec /\ Fairness

----------------------------------------------------------------------------
\* Every variable has its type; a batch's clock never runs past its window.
TypeOK ==
    /\ phase \in {"up", "stopping", "down"}
    /\ coming \in SUBSET Pieces
    /\ batches \in [Keys -> SUBSET Pieces]
    /\ age \in [Keys -> 0 .. Window]
    /\ sending \in SUBSET Delivery
    /\ told \in [Pieces -> Nat]
    /\ failed \in SUBSET Pieces
    /\ lostByExit \in SUBSET Pieces
    /\ lostByKill \in SUBSET Pieces
    /\ waited \in [Pieces -> Nat]
    /\ flushed \in SUBSET Pieces

\* However the timer, the shutdown hook and late handlers interleave, no piece is told of
\* in two messages, and none that was told of counts as failed or lost.
NeverTwice ==
    \A p \in Pieces :
        /\ told[p] <= 1
        /\ told[p] = 1 => p \notin failed \cup Lost \cup Held \cup InFlight

\* The window opens on the first arrival and is never extended: no piece is held for longer
\* than one window, however many arrive after it.
WaitBounded == \A p \in Pieces : waited[p] <= Window

\* A batch that was still open when a graceful shutdown began is never cut off by the exit:
\* the hook waits for what it flushed.
FlushSurvivesExit == flushed \cap lostByExit = {}

\* While the process lives every accepted piece comes to an end, told or not.
AcceptedSettles ==
    \A p \in Pieces :
        (p \in Held \cup InFlight) ~> (told[p] > 0 \/ p \in failed \cup Lost)

\* Submitting keeps the promise of PokeFate: each piece ends once, and in one way.
fateNow ==
    [p \in Pieces |->
        IF p \in coming THEN "coming"
        ELSE IF told[p] > 0 THEN "told"
        ELSE IF p \in failed THEN "failed"
        ELSE IF p \in Lost THEN "lost"
        ELSE "accepted"]

Fate == INSTANCE PokeFate WITH fate <- fateNow

KeepsPromise == Fate!Spec
============================================================================
