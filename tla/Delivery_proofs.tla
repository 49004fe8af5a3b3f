--------------------------- MODULE Delivery_proofs ---------------------------
(***************************************************************************)
(* From a poke that is accepted to the place it goes to.  Of ReviewBatch, for  *)
(* any pieces, keys and window: where a piece can be - not yet submitted, held  *)
(* under its own key, in one delivery, or at its end - and never in two of       *)
(* those.  Of SlackConnection, for any users, workspaces and jobs: what a job     *)
(* has in hand is what it says by the step it is at, and links are in an order.    *)
(***************************************************************************)
EXTENDS ReviewBatch, SlackConnection, FiniteSetTheorems, WellFoundedInduction, TLAPS

----------------------------------------------------------------------------
(* Batches: ReviewBatch. *)


\* A batch holds pieces of its own key only.
Filed == \A k \in Keys : \A p \in batches[k] : BatchKey[p] = k

\* Nothing has become of a piece yet.
Fresh(p) == /\ told[p] = 0
            /\ p \notin failed
            /\ p \notin lostByExit
            /\ p \notin lostByKill

ComingFresh == \A p \in coming : Fresh(p) /\ waited[p] = 0

HeldFresh ==
    \A k \in Keys : \A p \in batches[k] :
        Fresh(p) /\ p \notin coming /\ \A d \in sending : p \notin d.pieces

SendingFresh == \A d \in sending : \A p \in d.pieces : Fresh(p) /\ p \notin coming

SendingApart ==
    \A d, e \in sending : \A p \in Pieces : p \in d.pieces /\ p \in e.pieces => d = e

ToldOnce ==
    \A p \in Pieces :
        told[p] \in {0, 1} /\ (told[p] = 1 => p \notin failed /\ p \notin lostByExit /\ p \notin lostByKill)

\* A piece has been held no longer than its batch's timer has run.
Waits == /\ \A k \in Keys : \A p \in batches[k] : waited[p] <= age[k]
         /\ \A p \in Pieces : waited[p] <= Window

\* What flushAll took is in deliveries it awaits, or over.
FlushKept ==
    \A p \in flushed :
        /\ p \notin coming
        /\ p \notin lostByExit
        /\ \A k \in Keys : p \notin batches[k]
        /\ \A d \in sending : p \in d.pieces => d.by = "shutdown"

IInv == /\ TypeOK /\ Filed /\ ComingFresh /\ HeldFresh /\ SendingFresh
        /\ SendingApart /\ ToldOnce /\ Waits /\ FlushKept

----------------------------------------------------------------------------
LEMMA InitIInv == Init => IInv
<1> SUFFICES ASSUME Init PROVE IInv
  OBVIOUS
<1> USE NoKeyAssumption, BatchKeyAssumption, WindowAssumption DEF Init
<1>1. TypeOK
  BY DEF TypeOK, Delivery
<1>2. Filed /\ HeldFresh /\ FlushKept
  BY DEF Filed, HeldFresh, FlushKept
<1>3. ComingFresh
  BY DEF ComingFresh, Fresh
<1>4. SendingFresh /\ SendingApart
  BY DEF SendingFresh, SendingApart
<1>5. ToldOnce
  BY DEF ToldOnce
<1>6. Waits
  BY DEF Waits
<1> QED
  BY <1>1, <1>2, <1>3, <1>4, <1>5, <1>6 DEF IInv

LEMMA SubmitIInv == ASSUME IInv, NEW p \in Pieces, submit(p) PROVE IInv'
<1> USE NoKeyAssumption, BatchKeyAssumption, WindowAssumption DEF submit
<1>0. TypeOK /\ p \in coming /\ Fresh(p) /\ waited[p] = 0
  BY DEF IInv, ComingFresh
<1>1. CASE SubmitWhole(p)
  <2>1. TypeOK'
    BY <1>0, <1>1 DEF TypeOK, SubmitWhole, Delivery, Flushers
  <2>2. Filed' /\ ComingFresh' /\ HeldFresh'
    BY <1>0, <1>1 DEF IInv, TypeOK, SubmitWhole, Filed, ComingFresh, HeldFresh, Fresh
  <2>3. SendingFresh' /\ SendingApart'
    <3> DEFINE new == [pieces |-> {p}, by |-> "handler"]
    <3>1. sending' = sending \cup {new} /\ new.pieces = {p}
      BY <1>1 DEF SubmitWhole
    <3>2. \A d \in sending : p \notin d.pieces
      BY <1>0 DEF IInv, SendingFresh
    <3> HIDE DEF new
    <3>3. SendingFresh'
      BY <1>0, <3>1 DEF IInv, SendingFresh, Fresh
    <3>4. SendingApart'
      BY <3>1, <3>2 DEF IInv, SendingApart
    <3> QED BY <3>3, <3>4
  <2>4. ToldOnce' /\ Waits' /\ FlushKept'
    BY <1>0, <1>1 DEF IInv, TypeOK, SubmitWhole, ToldOnce, Waits, FlushKept
  <2> QED BY <2>1, <2>2, <2>3, <2>4 DEF IInv
<1>2. CASE SubmitJoins(p)
  <2>1. TypeOK'
    BY <1>0, <1>2 DEF TypeOK, SubmitJoins
  <2>2. Filed' /\ ComingFresh' /\ HeldFresh'
    BY <1>0, <1>2 DEF IInv, TypeOK, SubmitJoins, Filed, ComingFresh, HeldFresh, SendingFresh, Fresh
  <2>3. SendingFresh' /\ SendingApart'
    BY <1>0, <1>2 DEF IInv, TypeOK, SubmitJoins, SendingFresh, SendingApart, Fresh
  <2>4. ToldOnce' /\ Waits' /\ FlushKept'
    BY <1>0, <1>2 DEF IInv, TypeOK, SubmitJoins, ToldOnce, Waits, FlushKept
  <2> QED BY <2>1, <2>2, <2>3, <2>4 DEF IInv
<1>3. CASE SubmitOpens(p)
  <2>1. TypeOK'
    BY <1>0, <1>3 DEF TypeOK, SubmitOpens
  <2>2. Filed' /\ ComingFresh' /\ HeldFresh'
    BY <1>0, <1>3 DEF IInv, TypeOK, SubmitOpens, Filed, ComingFresh, HeldFresh, SendingFresh, Fresh
  <2>3. SendingFresh' /\ SendingApart'
    BY <1>0, <1>3 DEF IInv, TypeOK, SubmitOpens, SendingFresh, SendingApart, Fresh
  <2>4. ToldOnce' /\ Waits' /\ FlushKept'
    BY <1>0, <1>3 DEF IInv, TypeOK, SubmitOpens, ToldOnce, Waits, FlushKept, Open
  <2> QED BY <2>1, <2>2, <2>3, <2>4 DEF IInv
<1> QED BY <1>1, <1>2, <1>3

LEMMA FlushIInv == ASSUME IInv, NEW k \in Keys, flush(k) PROVE IInv'
<1> USE WindowAssumption DEF flush
<1>0. TypeOK
  BY DEF IInv
<1>1. TypeOK'
  BY <1>0 DEF TypeOK, Delivery, Flushers
<1>2. Filed' /\ ComingFresh'
  BY <1>0 DEF IInv, TypeOK, Filed, ComingFresh, Fresh
<1>3. HeldFresh'
  BY <1>0 DEF IInv, TypeOK, Filed, HeldFresh, Fresh
<1>4. SendingFresh'
  BY <1>0 DEF IInv, TypeOK, HeldFresh, SendingFresh, Fresh
<1>5. SendingApart'
  BY <1>0 DEF IInv, TypeOK, HeldFresh, SendingApart
<1>6. ToldOnce' /\ Waits' /\ FlushKept'
  BY <1>0 DEF IInv, TypeOK, ToldOnce, Waits, FlushKept
<1> QED BY <1>1, <1>2, <1>3, <1>4, <1>5, <1>6 DEF IInv

LEMMA FlushAllIInv == ASSUME IInv, flushAll PROVE IInv'
<1> USE WindowAssumption DEF flushAll
<1> DEFINE new == {[pieces |-> batches[k], by |-> "shutdown"] : k \in {j \in Keys : Open(j)}}
<1>0. TypeOK
  BY DEF IInv
<1>1. new \subseteq Delivery
  BY <1>0 DEF TypeOK, Delivery, Flushers
<1>2. TypeOK'
  BY <1>0, <1>1 DEF TypeOK, Held
<1>3. Filed' /\ ComingFresh' /\ HeldFresh' /\ ToldOnce' /\ Waits'
  BY <1>0 DEF IInv, TypeOK, Filed, ComingFresh, HeldFresh, ToldOnce, Waits, Fresh
<1>4. \A d \in new : d.by = "shutdown" /\ \E k \in Keys : d.pieces = batches[k]
  OBVIOUS
<1>5. SendingFresh'
  BY <1>0, <1>4 DEF IInv, TypeOK, HeldFresh, SendingFresh, Fresh
<1>6. \A d, e \in new : \A p \in Pieces : p \in d.pieces /\ p \in e.pieces => d = e
  BY <1>0 DEF IInv, Filed, TypeOK
<1>7. \A d \in sending, e \in new : \A p \in Pieces : ~(p \in d.pieces /\ p \in e.pieces)
  BY <1>0, <1>4 DEF IInv, HeldFresh
<1>8. SendingApart'
  BY <1>0, <1>6, <1>7 DEF IInv, SendingApart
<1>9. \A p \in Held : \E k \in Keys : p \in batches[k]
  BY DEF Held
<1>10. FlushKept'
  BY <1>0, <1>4, <1>9 DEF IInv, TypeOK, FlushKept, HeldFresh, Fresh
<1> QED BY <1>2, <1>3, <1>5, <1>8, <1>10 DEF IInv

LEMMA DeliveryIInv ==
  ASSUME IInv, NEW d \in sending, DeliverySucceeds(d) \/ DeliveryFails(d)
  PROVE  IInv'
<1>0. TypeOK /\ d \in Delivery
  BY DEF IInv, TypeOK
<1>1. \A p \in d.pieces : p \in Pieces /\ Fresh(p) /\ p \notin coming
                          /\ \A k \in Keys : p \notin batches[k]
  BY <1>0 DEF IInv, SendingFresh, HeldFresh, Delivery
<1>2. \A e \in sending \ {d} : \A p \in e.pieces : p \notin d.pieces
  BY <1>0, <1>1 DEF IInv, SendingApart
<1>3. CASE DeliverySucceeds(d)
  <2> USE <1>3 DEF DeliverySucceeds
  <2>1. TypeOK'
    BY <1>0 DEF TypeOK
  <2>2. Filed' /\ Waits' /\ FlushKept'
    BY <1>0 DEF IInv, TypeOK, Filed, Waits, FlushKept
  <2>3. ComingFresh' /\ HeldFresh'
    BY <1>0, <1>1 DEF IInv, TypeOK, ComingFresh, HeldFresh, Fresh
  <2>4. SendingFresh' /\ SendingApart'
    BY <1>0, <1>2 DEF IInv, TypeOK, SendingFresh, SendingApart, Fresh, Delivery
  <2>5. ToldOnce'
    BY <1>0, <1>1 DEF IInv, TypeOK, ToldOnce, Fresh
  <2> QED BY <2>1, <2>2, <2>3, <2>4, <2>5 DEF IInv
<1>4. CASE DeliveryFails(d)
  <2> USE <1>4 DEF DeliveryFails
  <2>1. TypeOK'
    BY <1>0, <1>1 DEF TypeOK
  <2>2. Filed' /\ Waits' /\ FlushKept'
    BY <1>0 DEF IInv, TypeOK, Filed, Waits, FlushKept
  <2>3. ComingFresh' /\ HeldFresh'
    BY <1>0, <1>1 DEF IInv, TypeOK, ComingFresh, HeldFresh, Fresh
  <2>4. SendingFresh' /\ SendingApart'
    BY <1>0, <1>2 DEF IInv, TypeOK, SendingFresh, SendingApart, Fresh
  <2>5. ToldOnce'
    BY <1>0, <1>1 DEF IInv, TypeOK, ToldOnce, Fresh
  <2> QED BY <2>1, <2>2, <2>3, <2>4, <2>5 DEF IInv
<1> QED BY <1>3, <1>4

\* What a stop takes down is nothing that came to an end before it.
LEMMA StopIInv == ASSUME IInv, Exit \/ Kill PROVE IInv'
<1>0. TypeOK
  BY DEF IInv
<1>1. \A p \in Held \cup InFlight : p \in Pieces /\ p \notin coming /\ told[p] = 0
  BY <1>0 DEF IInv, TypeOK, Held, InFlight, HeldFresh, SendingFresh, Fresh, Delivery
<1>2. batches' = [k \in Keys |-> {}] /\ age' = [k \in Keys |-> 0] /\ sending' = {}
      /\ UNCHANGED <<coming, told, failed, waited, flushed>> /\ phase' = "down"
  BY DEF Exit, Kill, Stop
<1>3. Filed' /\ HeldFresh' /\ SendingFresh' /\ SendingApart'
  BY <1>2 DEF Filed, HeldFresh, SendingFresh, SendingApart
<1>4. Waits'
  BY <1>0, <1>2 DEF IInv, Waits
<1>5. CASE Exit
  <2> USE <1>5 DEF Exit
  <2>1. TypeOK'
    BY <1>0, <1>1, <1>2, WindowAssumption DEF TypeOK
  <2>2. ComingFresh' /\ ToldOnce'
    BY <1>0, <1>1, <1>2 DEF IInv, TypeOK, ComingFresh, ToldOnce, Fresh
  <2>3. \A p \in flushed : p \notin Held \cup InFlight
    BY <1>0 DEF IInv, FlushKept, Held, InFlight
  <2>4. FlushKept'
    BY <1>0, <1>2, <2>3 DEF IInv, FlushKept
  <2> QED BY <1>3, <1>4, <2>1, <2>2, <2>4 DEF IInv
<1>6. CASE Kill
  <2> USE <1>6 DEF Kill
  <2>1. TypeOK'
    BY <1>0, <1>1, <1>2, WindowAssumption DEF TypeOK
  <2>2. ComingFresh' /\ ToldOnce'
    BY <1>0, <1>1, <1>2 DEF IInv, TypeOK, ComingFresh, ToldOnce, Fresh
  <2>3. FlushKept'
    BY <1>0, <1>2 DEF IInv, FlushKept
  <2> QED BY <1>3, <1>4, <2>1, <2>2, <2>3 DEF IInv
<1> QED BY <1>5, <1>6

LEMMA TickIInv == ASSUME IInv, Tick PROVE IInv'
<1> USE WindowAssumption DEF Tick
<1>0. TypeOK
  BY DEF IInv
<1>1. \A k \in Keys : age[k] \in 0 .. Window /\ age'[k] = IF Open(k) THEN age[k] + 1 ELSE age[k]
  BY <1>0 DEF TypeOK
<1>2. \A p \in Pieces : waited[p] \in Nat /\ waited'[p] = IF p \in Held THEN waited[p] + 1 ELSE waited[p]
  BY <1>0 DEF TypeOK
<1>3. TypeOK'
  BY <1>0, <1>1, <1>2 DEF TypeOK
<1>4. \A p \in coming : p \notin Held
  BY DEF IInv, HeldFresh, Held
<1>5. Filed' /\ HeldFresh' /\ SendingFresh' /\ SendingApart' /\ ToldOnce' /\ FlushKept'
  BY <1>0 DEF IInv, Filed, HeldFresh, SendingFresh, SendingApart, ToldOnce, FlushKept, Fresh
<1>6. ComingFresh'
  BY <1>0, <1>2, <1>4 DEF IInv, TypeOK, ComingFresh, Fresh
<1>7. \A k \in Keys : \A p \in batches[k] : p \in Pieces /\ p \in Held /\ Open(k) /\ age[k] < Window
  BY <1>0 DEF TypeOK, Held, Open
<1>8. Waits'
  <2>1. \A k \in Keys : \A p \in batches[k] : waited'[p] <= age'[k]
    BY <1>1, <1>2, <1>7 DEF IInv, Waits
  <2>2. \A p \in Held : \E k \in Keys : p \in batches[k]
    BY DEF Held
  <2>3. \A p \in Pieces : waited'[p] <= Window
    BY <1>1, <1>2, <1>7, <2>2 DEF IInv, Waits
  <2> QED BY <2>1, <2>3 DEF Waits
<1> QED BY <1>3, <1>5, <1>6, <1>8 DEF IInv

LEMMA NextIInv == IInv /\ [Next]_vars => IInv'
<1> SUFFICES ASSUME IInv, [Next]_vars PROVE IInv'
  OBVIOUS
<1>1. CASE \E p \in Pieces : submit(p)
  BY <1>1, SubmitIInv
<1>2. CASE \E k \in Keys : flush(k)
  BY <1>2, FlushIInv
<1>3. CASE flushAll
  BY <1>3, FlushAllIInv
<1>4. CASE \E d \in sending : DeliverySucceeds(d) \/ DeliveryFails(d)
  BY <1>4, DeliveryIInv
<1>5. CASE Exit \/ Kill
  BY <1>5, StopIInv
<1>6. CASE Tick
  BY <1>6, TickIInv
<1>7. CASE Restart \/ UNCHANGED vars
  BY <1>7 DEF Restart, vars, IInv, TypeOK, Filed, ComingFresh, HeldFresh, SendingFresh,
              SendingApart, ToldOnce, Waits, FlushKept, Fresh
<1> QED
  BY <1>1, <1>2, <1>3, <1>4, <1>5, <1>6, <1>7 DEF Next

----------------------------------------------------------------------------
\* The inductive invariant holds in every reachable state.
THEOREM Invariance == Spec => []IInv
BY InitIInv, NextIInv, PTL DEF Spec

\* Every variable keeps its type, and no batch's clock runs past its window.
THEOREM TypeCorrect == Spec => []TypeOK
<1>1. IInv => TypeOK
  BY DEF IInv
<1> QED BY Invariance, <1>1, PTL

\* No piece is told of in two messages, and none that was told of is counted as failed or
\* lost or still on its way.
THEOREM ToldAtMostOnce == Spec => []NeverTwice
<1>1. IInv => NeverTwice
  <2> SUFFICES ASSUME IInv, NEW p \in Pieces
               PROVE /\ told[p] <= 1
                     /\ told[p] = 1 => p \notin failed \cup Lost \cup Held \cup InFlight
    BY DEF NeverTwice
  <2>1. told[p] = 1 => p \notin Held
    BY DEF IInv, HeldFresh, Held, Fresh
  <2>2. told[p] = 1 => p \notin InFlight
    BY DEF IInv, SendingFresh, InFlight, Fresh
  <2> QED BY <2>1, <2>2 DEF IInv, ToldOnce, Lost
<1> QED BY Invariance, <1>1, PTL

\* No piece is held for longer than one window.
THEOREM BoundedWait == Spec => []WaitBounded
<1>1. IInv => WaitBounded
  BY DEF IInv, Waits, WaitBounded
<1> QED BY Invariance, <1>1, PTL

\* A graceful exit never cuts off a batch that was open when the shutdown began.
THEOREM FlushIsAwaited == Spec => []FlushSurvivesExit
<1>1. IInv => FlushSurvivesExit
  BY DEF IInv, FlushKept, FlushSurvivesExit
<1> QED BY Invariance, <1>1, PTL

----------------------------------------------------------------------------
\* What a step does to the pieces' fates.

\* A piece whose delivery is under way, or that is held, is accepted and nothing else yet.
LEMMA UnderWayIsAccepted ==
  ASSUME IInv, NEW p \in Held \cup InFlight
  PROVE  p \in Pieces /\ p \notin coming /\ Fresh(p) /\ fateNow[p] = "accepted"
<1>1. p \in Pieces
  BY DEF IInv, TypeOK, Held, InFlight, Delivery
<1>2. p \notin coming /\ Fresh(p)
  BY DEF IInv, Held, InFlight, HeldFresh, SendingFresh
<1> QED BY <1>1, <1>2 DEF fateNow, Fresh, Lost

LEMMA InitMaps == Init => Fate!Init
BY DEF Init, Fate!Init, fateNow

\* Submitting accepts the piece.
LEMMA SubmitMaps == ASSUME IInv, NEW p \in Pieces, submit(p) PROVE Fate!Accept(p)
<1>1. p \in coming /\ coming' = coming \ {p} /\ UNCHANGED <<told, failed, lostByExit, lostByKill>>
  BY DEF submit
<1>2. Fresh(p)
  BY <1>1 DEF IInv, ComingFresh
<1>3. fateNow[p] = "coming" /\ fateNow'[p] = "accepted"
  BY <1>1, <1>2 DEF fateNow, Fresh, Lost
<1>4. \A q \in Pieces \ {p} : fateNow'[q] = fateNow[q]
  BY <1>1 DEF fateNow, Lost
<1>5. fateNow' = [fateNow EXCEPT ![p] = "accepted"]
  <2>1. \A q \in Pieces : fateNow'[q] = IF q = p THEN "accepted" ELSE fateNow[q]
    BY <1>3, <1>4
  <2> QED BY <2>1 DEF fateNow
<1> QED BY <1>3, <1>5 DEF Fate!Accept

\* A delivery that ends settles its pieces together.
LEMMA DeliveryMaps ==
  ASSUME IInv, NEW d \in sending, DeliverySucceeds(d) \/ DeliveryFails(d)
  PROVE  Fate!Settle(d.pieces, "told") \/ Fate!Settle(d.pieces, "failed")
<1>1. \A p \in d.pieces : p \in Pieces /\ p \notin coming /\ Fresh(p) /\ fateNow[p] = "accepted"
  BY UnderWayIsAccepted DEF InFlight
<1>2. CASE DeliverySucceeds(d)
  <2>1. \A p \in d.pieces : p \notin coming' /\ told'[p] = 1
    BY <1>1, <1>2 DEF DeliverySucceeds, Fresh
  <2>2. \A p \in d.pieces : fateNow'[p] = "told"
    <3>1. \A p \in d.pieces : p \in Pieces /\ told'[p] > 0 /\ p \notin coming'
      BY <1>1, <2>1
    <3> QED BY <3>1 DEF fateNow
  <2>3. \A p \in Pieces \ d.pieces : told'[p] = told[p]
    BY <1>2 DEF DeliverySucceeds
  <2>4. \A p \in Pieces \ d.pieces : fateNow'[p] = fateNow[p]
    BY <1>2, <2>3 DEF DeliverySucceeds, fateNow, Lost
  <2>5. fateNow' = [p \in Pieces |-> IF p \in d.pieces THEN "told" ELSE fateNow[p]]
    BY <2>2, <2>4 DEF fateNow
  <2> QED BY <1>1, <2>5 DEF Fate!Settle
<1>3. CASE DeliveryFails(d)
  <2>1. fateNow' = [p \in Pieces |-> IF p \in d.pieces THEN "failed" ELSE fateNow[p]]
    BY <1>1, <1>3 DEF DeliveryFails, fateNow, Fresh, Lost
  <2> QED BY <1>1, <2>1 DEF Fate!Settle
<1> QED BY <1>2, <1>3

\* What ends with the process is lost together.
LEMMA StopMaps == ASSUME IInv, Exit \/ Kill PROVE Fate!Settle(Held \cup InFlight, "lost")
<1> DEFINE S == Held \cup InFlight
<1>1. \A p \in S : p \in Pieces /\ p \notin coming /\ Fresh(p) /\ fateNow[p] = "accepted"
  BY UnderWayIsAccepted
<1>2. UNCHANGED <<coming, told, failed>> /\ Lost' = Lost \cup S
  BY DEF Exit, Kill, Stop, Lost
<1>3. fateNow' = [p \in Pieces |-> IF p \in S THEN "lost" ELSE fateNow[p]]
  <2> HIDE DEF S
  <2> QED BY <1>1, <1>2 DEF fateNow, Fresh, Lost
<1> QED BY <1>1, <1>3 DEF Fate!Settle

LEMMA NextMaps == IInv /\ [Next]_vars => [Fate!Next]_fateNow
<1> SUFFICES ASSUME IInv, [Next]_vars PROVE [Fate!Next]_fateNow
  OBVIOUS
<1>1. CASE \E p \in Pieces : submit(p)
  BY <1>1, SubmitMaps DEF Fate!Next
<1>2. CASE \E d \in sending : DeliverySucceeds(d) \/ DeliveryFails(d)
  <2>1. PICK d \in sending : DeliverySucceeds(d) \/ DeliveryFails(d)
    BY <1>2
  <2>2. d.pieces \in SUBSET Pieces
    BY DEF IInv, TypeOK, Delivery
  <2> QED BY <2>1, <2>2, DeliveryMaps DEF Fate!Next
<1>3. CASE Exit \/ Kill
  <2>1. Held \cup InFlight \in SUBSET Pieces
    BY UnderWayIsAccepted
  <2> QED BY <1>3, <2>1, StopMaps DEF Fate!Next
<1>4. CASE (\E k \in Keys : flush(k)) \/ flushAll \/ Restart \/ Tick \/ UNCHANGED vars
  <2>1. UNCHANGED <<coming, told, failed, lostByExit, lostByKill>>
    BY <1>4 DEF flush, flushAll, Restart, Tick, vars
  <2> QED BY <2>1 DEF fateNow, Lost
<1> QED BY <1>1, <1>2, <1>3, <1>4 DEF Next

\* The batcher implements PokeFate: what becomes of a piece, whoever flushes it and however the
\* process ends, is a behaviour of the promise.
THEOREM PromiseIsKept == Spec => KeepsPromise
BY Invariance, InitMaps, NextMaps, PTL DEF Spec, KeepsPromise, Fate!Spec

----------------------------------------------------------------------------
(* Links and workspaces: SlackConnection. *)

Steps == {"idle", "install", "upsert", "drop", "status", "workspace", "link", "token", "cached",
          "clear", "open", "post", "cache", "revoke", "unlink"}
JobType == [at : Steps, user : Users \cup {Nobody}, team : Teams \cup {Nowhere}, id : Nat,
            token : Nat, dm : Nat]

\* What LinksTyped leaves out.
SlackTyped ==
    /\ LinksTyped
    /\ job \in [Jobs -> JobType]
    /\ issued \in [Teams -> Nat]

\* An id by which the person is known, or was before they left; a token that Slack accepts, or
\* did before the workspace was uninstalled.
KnownAs(u, t, id) == id = who[u][t] \/ <<u, t>> \in left
TokenOf(t, x) == x = None \/ x = live[t] \/ t \in died

\* What a job has in hand is what it says by the step it is at.
Sound(x) ==
    /\ x.at \in {"install", "upsert", "drop"} =>
          x.team \in Teams /\ x.id # None /\ KnownAs(x.user, x.team, x.id)
    /\ x.at = "install" => TokenOf(x.team, x.token)
    /\ x.at \in {"workspace", "token", "cached", "clear", "open", "post", "cache", "revoke", "unlink"} =>
          x.team \in Teams
    /\ x.at \in {"token", "cached", "clear", "open", "post"} => KnownAs(x.user, x.team, x.id)
    /\ x.at \in {"cached", "clear", "open", "post"} => x.token # None /\ TokenOf(x.team, x.token)
    /\ x.at = "revoke" => x.team \in died
    /\ x.at = "unlink" => <<x.user, x.team>> \in left
JobsSound == \A j \in Jobs : Sound(job[j])

RowsSound == \A t \in Teams : TokenOf(t, row[t].token)
LinksKnown == \A u \in Users, t \in Teams : Linked(u, t) => KnownAs(u, t, link[u][t].id)
EventsSound == handling \subseteq died /\ \A e \in events : e.tokens = "bot" => e.team \in died

\* Between the two writes of an authorization there may be two links, and a restart leaves them so.
OneOrTorn ==
    \A u \in Users \ torn :
        (\A c \in Connects : job[c].user = u => job[c].at # "drop") => \A s, t \in links(u) : s = t

SlackInv == /\ SlackTyped /\ Ordered /\ JobsSound /\ RowsSound /\ LinksKnown /\ EventsSound
            /\ OneOrTorn /\ RevokedOnlyIfDied

----------------------------------------------------------------------------
LEMMA LeastOf ==
    ASSUME NEW T \in SUBSET Nat, T # {}
    PROVE  \E x \in T : \A y \in T : x <= y
<1>1. \E x \in T : \A y \in T : <<y, x>> \notin OpToRel(<, Nat)
  BY NatLessThanWellFounded, WFMin, Zenon
<1>2. PICK x \in T : \A y \in T : <<y, x>> \notin OpToRel(<, Nat)
  BY <1>1
<1>3. \A y \in T : y \in Nat
  OBVIOUS
<1>4. \A y \in T : ~(y < x)
  BY <1>2, <1>3 DEF OpToRel
<1>5. \A y \in T : x <= y
  BY <1>3, <1>4
<1> QED BY <1>5

\* Who is linked at all has a link written last.
LEMMA LatestExists ==
    ASSUME Ordered, NEW u \in Users, links(u) # {}
    PROVE  destination(u) \in links(u)
<1> DEFINE Later(t) == {s \in links(u) : <<s, t>> \in recent[u] /\ s # t}
           Counts == {Cardinality(Later(t)) : t \in links(u)}
<1>1. \A t \in links(u) : IsFiniteSet(Later(t)) /\ Cardinality(Later(t)) \in Nat
  <2> SUFFICES ASSUME NEW t \in links(u) PROVE IsFiniteSet(Later(t)) /\ Cardinality(Later(t)) \in Nat
    OBVIOUS
  <2>1. Later(t) \subseteq Teams
    BY DEF links
  <2>2. IsFiniteSet(Later(t))
    BY <2>1, TeamsAssumption, FS_Subset, Zenon
  <2> QED BY <2>2, FS_CardinalityType, Zenon
<1>2. Counts \in SUBSET Nat /\ Counts # {}
  BY <1>1
<1>3. PICK n \in Counts : \A m \in Counts : n <= m
  BY <1>2, LeastOf, Zenon
<1>4. PICK t \in links(u) : n = Cardinality(Later(t))
  BY <1>3
<1>5. \A s \in links(u) : <<t, s>> \in recent[u]
  <2> SUFFICES ASSUME NEW s \in links(u), <<t, s>> \notin recent[u] PROVE FALSE
    OBVIOUS
  <2>1. <<s, t>> \in recent[u] /\ s # t
    BY DEF Ordered, links, Linked
  <2>2. Later(s) \subseteq Later(t)
    <3> SUFFICES ASSUME NEW r \in Later(s) PROVE r \in Later(t)
      OBVIOUS
    <3>1. r \in links(u) /\ <<r, s>> \in recent[u]
      OBVIOUS
    <3>2. <<r, t>> \in recent[u]
      BY <2>1, <3>1 DEF Ordered
    <3>3. r # t
      BY <3>1
    <3> QED BY <3>1, <3>2, <3>3
  <2>3. s \in Later(t) /\ s \notin Later(s)
    BY <2>1
  <2>4. Cardinality(Later(s)) < Cardinality(Later(t))
    <3>1. Later(s) # Later(t)
      BY <2>3
    <3>2. /\ Cardinality(Later(s)) <= Cardinality(Later(t))
          /\ Cardinality(Later(s)) = Cardinality(Later(t)) => Later(s) = Later(t)
      BY <1>1, <2>2, FS_Subset, Zenon
    <3>3. Cardinality(Later(s)) \in Nat /\ Cardinality(Later(t)) \in Nat
      BY <1>1
    <3> QED BY <3>1, <3>2, <3>3
  <2>5. n <= Cardinality(Later(s))
    BY <1>3
  <2>6. Cardinality(Later(s)) \in Nat /\ Cardinality(Later(t)) \in Nat
    BY <1>1
  <2> QED BY <1>4, <2>4, <2>5, <2>6
<1>6. destination(u) = CHOOSE x \in links(u) : \A s \in links(u) : <<x, s>> \in recent[u]
  BY DEF destination
<1> QED BY <1>5, <1>6, Zenon

----------------------------------------------------------------------------
(* What becomes of the order of links. *)

\* Some links go, the others keep their order.
LEMMA AmongKeepsOrder ==
    ASSUME SlackTyped, Ordered, NEW K,
           recent' = [u \in Users |-> among(u, K[u])]
    PROVE  /\ recent' \in [Users -> SUBSET (Teams \X Teams)] /\ Ordered'
           /\ \A u \in Users, t \in Teams : Linked(u, t)' <=> Linked(u, t) /\ t \in K[u]
<1>1. recent \in [Users -> SUBSET (Teams \X Teams)]
  BY DEF SlackTyped, LinksTyped
<1>2. \A u \in Users : recent'[u] = {p \in recent[u] : p[1] \in K[u] /\ p[2] \in K[u]}
  BY DEF among
<1>3. \A u \in Users : recent'[u] \subseteq recent[u]
  BY <1>2
<1>4. recent' \in [Users -> SUBSET (Teams \X Teams)]
  BY <1>1, <1>3
<1>5. \A u \in Users, t \in Teams : Linked(u, t)' <=> Linked(u, t) /\ t \in K[u]
  BY <1>2 DEF Linked
<1>6. \A u \in Users, s, t \in Teams : <<s, t>> \in recent'[u] <=> <<s, t>> \in recent[u] /\ s \in K[u] /\ t \in K[u]
  BY <1>2
<1>7. \A u \in Users : \A s \in links(u)' : s \in links(u) /\ s \in K[u] /\ s \in Teams
  BY <1>5 DEF links
<1>8. Ordered'
  <2> SUFFICES ASSUME NEW u \in Users
               PROVE  /\ \A p \in recent'[u] : Linked(u, p[1])' /\ Linked(u, p[2])'
                      /\ \A s, t \in links(u)' : <<s, t>> \in recent'[u] \/ <<t, s>> \in recent'[u]
                      /\ \A s, t \in links(u)' : <<s, t>> \in recent'[u] /\ <<t, s>> \in recent'[u] => s = t
                      /\ \A r, s, t \in links(u)' :
                            <<r, s>> \in recent'[u] /\ <<s, t>> \in recent'[u] => <<r, t>> \in recent'[u]
    BY DEF Ordered
  <2>1. \A p \in recent'[u] : Linked(u, p[1])' /\ Linked(u, p[2])'
    <3> SUFFICES ASSUME NEW p \in recent'[u] PROVE Linked(u, p[1])' /\ Linked(u, p[2])'
      OBVIOUS
    <3>1. p \in recent[u] /\ p[1] \in K[u] /\ p[2] \in K[u]
      BY <1>2
    <3>2. p[1] \in Teams /\ p[2] \in Teams
      BY <1>1, <3>1
    <3>3. Linked(u, p[1]) /\ Linked(u, p[2])
      BY <3>1 DEF Ordered
    <3> QED BY <1>5, <3>1, <3>2, <3>3
  <2>2. \A s, t \in links(u)' : <<s, t>> \in recent'[u] \/ <<t, s>> \in recent'[u]
    BY <1>6, <1>7 DEF Ordered
  <2>3. \A s, t \in links(u)' : <<s, t>> \in recent'[u] /\ <<t, s>> \in recent'[u] => s = t
    BY <1>6, <1>7 DEF Ordered
  <2>4. \A r, s, t \in links(u)' : <<r, s>> \in recent'[u] /\ <<s, t>> \in recent'[u] => <<r, t>> \in recent'[u]
    BY <1>6, <1>7 DEF Ordered
  <2> QED BY <2>1, <2>2, <2>3, <2>4
<1> QED BY <1>4, <1>5, <1>8

\* A link that is written goes before the others, which keep their order.
LEMMA TouchedKeepsOrder ==
    ASSUME SlackTyped, Ordered, NEW v \in Users, NEW w \in Teams, recent' = touched(v, w)
    PROVE  /\ recent' \in [Users -> SUBSET (Teams \X Teams)] /\ Ordered'
           /\ \A u \in Users, t \in Teams : Linked(u, t)' <=> Linked(u, t) \/ (u = v /\ t = w)
<1> DEFINE others == links(v) \ {w}
<1>1. recent \in [Users -> SUBSET (Teams \X Teams)]
  BY DEF SlackTyped, LinksTyped
<1>2. recent' = [recent EXCEPT ![v] = among(v, others) \cup ({w} \X (others \cup {w}))]
  BY DEF touched
<1>3. \A u \in Users : u # v => recent'[u] = recent[u]
  BY <1>1, <1>2
<1>4. recent'[v] = among(v, others) \cup ({w} \X (others \cup {w}))
  BY <1>1, <1>2
<1>5. \A s, t : <<s, t>> \in recent'[v] <=>
        \/ <<s, t>> \in recent[v] /\ s \in others /\ t \in others
        \/ s = w /\ (t = w \/ t \in others)
  BY <1>4 DEF among
<1>6. others \subseteq Teams
  BY DEF links
<1>7. recent'[v] \in SUBSET (Teams \X Teams)
  <2>1. among(v, others) \in SUBSET (Teams \X Teams)
    BY <1>1 DEF among
  <2>2. {w} \X (others \cup {w}) \in SUBSET (Teams \X Teams)
    BY <1>6
  <2> QED BY <1>4, <2>1, <2>2
<1>8. recent' \in [Users -> SUBSET (Teams \X Teams)]
  BY <1>1, <1>2, <1>4, <1>7
<1>9. \A u \in Users, t \in Teams : Linked(u, t)' <=> Linked(u, t) \/ (u = v /\ t = w)
  <2> SUFFICES ASSUME NEW u \in Users, NEW t \in Teams
               PROVE  Linked(u, t)' <=> Linked(u, t) \/ (u = v /\ t = w)
    OBVIOUS
  <2>1. CASE u # v
    BY <1>3, <2>1 DEF Linked
  <2>2. CASE u = v
    BY <1>5, <2>2 DEF Linked, links
  <2> QED BY <2>1, <2>2
<1>10. \A u \in Users : u # v => links(u)' = links(u)
  BY <1>9 DEF links
<1>11. \A s \in links(v)' : s = w \/ s \in others
  BY <1>9 DEF links
<1>12. Ordered'
  <2> SUFFICES ASSUME NEW u \in Users
               PROVE  /\ \A p \in recent'[u] : Linked(u, p[1])' /\ Linked(u, p[2])'
                      /\ \A s, t \in links(u)' : <<s, t>> \in recent'[u] \/ <<t, s>> \in recent'[u]
                      /\ \A s, t \in links(u)' : <<s, t>> \in recent'[u] /\ <<t, s>> \in recent'[u] => s = t
                      /\ \A r, s, t \in links(u)' :
                            <<r, s>> \in recent'[u] /\ <<s, t>> \in recent'[u] => <<r, t>> \in recent'[u]
    BY DEF Ordered
  <2>1. CASE u # v
    <3>1. recent'[u] = recent[u] /\ links(u)' = links(u)
      BY <1>3, <1>10, <2>1
    <3>2. \A p \in recent'[u] : Linked(u, p[1])' /\ Linked(u, p[2])'
      BY <3>1 DEF Ordered, Linked
    <3> QED BY <3>1, <3>2 DEF Ordered
  <2>2. CASE u = v
    <3>1. \A s, t \in others : <<s, t>> \in recent[v] \/ <<t, s>> \in recent[v]
      BY DEF Ordered
    <3>2. \A s, t \in others : <<s, t>> \in recent[v] /\ <<t, s>> \in recent[v] => s = t
      BY DEF Ordered
    <3>3. \A r, s, t \in others : <<r, s>> \in recent[v] /\ <<s, t>> \in recent[v] => <<r, t>> \in recent[v]
      BY DEF Ordered
    <3>4. w \notin others
      OBVIOUS
    <3>5. \A p \in recent'[v] : Linked(v, p[1])' /\ Linked(v, p[2])'
      <4> SUFFICES ASSUME NEW p \in recent'[v] PROVE Linked(v, p[1])' /\ Linked(v, p[2])'
        OBVIOUS
      <4>1. p \in Teams \X Teams
        BY <1>7
      <4>2. p = <<p[1], p[2]>> /\ p[1] \in Teams /\ p[2] \in Teams
        BY <4>1
      <4>3. p[1] = w \/ p[1] \in others
        BY <1>5, <4>2
      <4>4. p[2] = w \/ p[2] \in others
        BY <1>5, <4>2
      <4> QED BY <1>9, <4>2, <4>3, <4>4 DEF links
    <3> HIDE DEF others
    <3>6. \A s, t \in links(v)' : <<s, t>> \in recent'[v] \/ <<t, s>> \in recent'[v]
      BY <1>5, <1>11, <3>1
    <3>7. \A s, t \in links(v)' : <<s, t>> \in recent'[v] /\ <<t, s>> \in recent'[v] => s = t
      BY <1>5, <1>11, <3>2, <3>4
    <3>8. \A r, s, t \in links(v)' : <<r, s>> \in recent'[v] /\ <<s, t>> \in recent'[v] => <<r, t>> \in recent'[v]
      BY <1>5, <1>11, <3>3, <3>4
    <3> QED BY <2>2, <3>5, <3>6, <3>7, <3>8
  <2> QED BY <2>1, <2>2
<1> QED BY <1>8, <1>9, <1>12

----------------------------------------------------------------------------
(* What was true of an id or a token stays so. *)

Remembers ==
    /\ died \subseteq died' /\ left \subseteq left'
    /\ \A u \in Users, t \in Teams, id \in Nat : KnownAs(u, t, id) => KnownAs(u, t, id)'
    /\ \A t \in Teams, x \in Nat : TokenOf(t, x) => TokenOf(t, x)'

LEMMA RemembersAtRest ==
    ASSUME UNCHANGED <<live, who, died, left>> PROVE Remembers
BY DEF Remembers, KnownAs, TokenOf

LEMMA SoundStays ==
    ASSUME Remembers, NEW x \in JobType, x.at = "idle" <=> x.user = Nobody, Sound(x)
    PROVE  Sound(x)'
<1>1. /\ x.user \in Users \cup {Nobody} /\ x.team \in Teams \cup {Nowhere}
      /\ x.id \in Nat /\ x.token \in Nat
  BY DEF JobType
<1>2. x.at # "idle" => x.user \in Users
  BY <1>1
<1>3. x.at \in {"install", "upsert", "drop"} => KnownAs(x.user, x.team, x.id)'
  BY <1>1, <1>2 DEF Sound, Remembers
<1>4. x.at = "install" => TokenOf(x.team, x.token)'
  BY <1>1 DEF Sound, Remembers
<1>5. x.at \in {"token", "cached", "clear", "open", "post"} => KnownAs(x.user, x.team, x.id)'
  BY <1>1, <1>2 DEF Sound, Remembers
<1>6. x.at \in {"cached", "clear", "open", "post"} => TokenOf(x.team, x.token)'
  BY <1>1 DEF Sound, Remembers
<1>7. x.at = "revoke" => x.team \in died'
  BY DEF Sound, Remembers
<1>8. x.at = "unlink" => <<x.user, x.team>> \in left'
  BY DEF Sound, Remembers
<1> QED BY <1>3, <1>4, <1>5, <1>6, <1>7, <1>8 DEF Sound

LEMMA JobGoes ==
    ASSUME SlackInv, Remembers, NEW j \in Jobs, NEW x \in JobType,
           x.at = "idle" <=> x.user = Nobody, Sound(x)', job' = [job EXCEPT ![j] = x]
    PROVE  /\ job' \in [Jobs -> JobType] /\ JobsSound'
           /\ \A i \in Jobs : job'[i].at = "idle" <=> job'[i].user = Nobody
           /\ job'[j] = x /\ \A i \in Jobs : i # j => job'[i] = job[i]
<1>1. job \in [Jobs -> JobType] /\ \A i \in Jobs : job[i].at = "idle" <=> job[i].user = Nobody
  BY DEF SlackInv, SlackTyped, LinksTyped
<1>2. job'[j] = x /\ \A i \in Jobs : i # j => job'[i] = job[i]
  BY <1>1
<1>3. job' \in [Jobs -> JobType]
  BY <1>1
<1>4. \A i \in Jobs : Sound(job[i])'
  <2> SUFFICES ASSUME NEW i \in Jobs PROVE Sound(job[i])'
    OBVIOUS
  <2>1. CASE i = j
    <3>1. job'[i] = x
      BY <1>2, <2>1
    <3> QED BY <3>1 DEF Sound, KnownAs, TokenOf
  <2>2. CASE i # j
    <3>1. PICK y : y = job[i]
      OBVIOUS
    <3>2. y \in JobType /\ (y.at = "idle" <=> y.user = Nobody) /\ Sound(y)
      BY <1>1, <3>1 DEF SlackInv, JobsSound
    <3>3. Sound(y)'
      BY <3>2, SoundStays
    <3>4. job'[i] = y
      BY <1>2, <2>2, <3>1
    <3> QED BY <3>3, <3>4 DEF Sound, KnownAs, TokenOf
  <2> QED BY <2>1, <2>2
<1>5. \A i \in Jobs : job'[i].at = "idle" <=> job'[i].user = Nobody
  BY <1>1, <1>2
<1> QED BY <1>2, <1>3, <1>4, <1>5 DEF JobsSound

\* What a job's own step, which writes nothing else, must show.
LEMMA JobAlone ==
    ASSUME SlackInv, NEW j \in Jobs, NEW x \in JobType, x.at = "idle" <=> x.user = Nobody,
           Sound(x), job[j].at # "drop", job' = [job EXCEPT ![j] = x],
           UNCHANGED <<store, handling, slack, died, left, torn>>
    PROVE  SlackInv'
<1> USE DEF store, slack
<1>1. Remembers
  BY RemembersAtRest
<1>2. Sound(x)'
  BY <1>1, SoundStays
<1>3. /\ job' \in [Jobs -> JobType] /\ JobsSound'
      /\ \A i \in Jobs : job'[i].at = "idle" <=> job'[i].user = Nobody
      /\ job'[j] = x /\ \A i \in Jobs : i # j => job'[i] = job[i]
  BY <1>1, <1>2, JobGoes
<1>4. SlackTyped'
  <2>1. LinksTyped
    BY DEF SlackInv, SlackTyped
  <2>2. \A i \in Jobs : /\ job'[i].user \in Users \cup {Nobody}
                       /\ job'[i].team \in Teams \cup {Nowhere}
    BY <1>3 DEF JobType
  <2>3. LinksTyped'
    BY <1>3, <2>1, <2>2 DEF LinksTyped, Linked
  <2> QED BY <1>3, <2>3 DEF SlackInv, SlackTyped
<1>5. Ordered' /\ LinksKnown' /\ RowsSound' /\ EventsSound' /\ RevokedOnlyIfDied'
  BY DEF SlackInv, Ordered, LinksKnown, RowsSound, EventsSound, RevokedOnlyIfDied, links, Linked,
         KnownAs, TokenOf
<1>6. OneOrTorn'
  <2> SUFFICES ASSUME NEW u \in Users \ torn,
                      \A c \in Connects : job'[c].user = u => job'[c].at # "drop"
               PROVE  \A s, t \in links(u) : s = t
    BY DEF OneOrTorn, links, Linked
  <2>1. \A c \in Connects : job[c].user = u => job[c].at # "drop"
    BY <1>3 DEF Jobs
  <2> QED BY <2>1 DEF SlackInv, OneOrTorn
<1> QED BY <1>3, <1>4, <1>5, <1>6 DEF SlackInv

LEMMA IdleIsAJob == Idle \in JobType /\ Idle.at = "idle" /\ Idle.user = Nobody /\ Sound(Idle)
BY DEF Idle, JobType, Steps, Sound, None

\* A record with its step, or what it has in hand, replaced.
LEMMA AtIsTyped ==
    ASSUME NEW x \in JobType, NEW at \in Steps
    PROVE  /\ [x EXCEPT !.at = at] \in JobType
           /\ [x EXCEPT !.at = at].at = at /\ [x EXCEPT !.at = at].user = x.user
           /\ [x EXCEPT !.at = at].team = x.team /\ [x EXCEPT !.at = at].id = x.id
           /\ [x EXCEPT !.at = at].token = x.token /\ [x EXCEPT !.at = at].dm = x.dm
BY DEF JobType

----------------------------------------------------------------------------
(* Steps of a job that write nothing. *)

LEMMA JobIs ==
    ASSUME SlackInv, NEW j \in Jobs
    PROVE  /\ job[j] \in JobType /\ Sound(job[j]) /\ (job[j].at = "idle" <=> job[j].user = Nobody)
           /\ Nobody \notin Users /\ (job[j].at # "idle" => job[j].user \in Users)
BY NobodyAssumption DEF SlackInv, SlackTyped, LinksTyped, JobsSound, JobType

LEMMA EndsKeeps ==
    ASSUME SlackInv, NEW j \in Jobs, job[j].at # "drop", ends(j),
           UNCHANGED <<store, handling, slack, died, left, torn>>
    PROVE  SlackInv'
BY IdleIsAJob, JobAlone DEF ends

LEMMA GoesKeeps ==
    ASSUME SlackInv, NEW j \in Jobs, job[j].at \notin {"idle", "drop"}, NEW at \in Steps \ {"idle"}, goes(j, at),
           Sound([job[j] EXCEPT !.at = at]),
           UNCHANGED <<store, handling, slack, died, left, torn>>
    PROVE  SlackInv'
<1>1. PICK x : x = [job[j] EXCEPT !.at = at]
  OBVIOUS
<1>2. x \in JobType /\ (x.at = "idle" <=> x.user = Nobody)
  BY <1>1, AtIsTyped, JobIs
<1>3. job' = [job EXCEPT ![j] = x]
  BY <1>1 DEF goes
<1> QED BY <1>1, <1>2, <1>3, JobAlone

LEMMA DestinationIsLinked ==
    ASSUME SlackInv, NEW u \in Users, destination(u) # Nowhere
    PROVE  destination(u) \in Teams /\ Linked(u, destination(u))
<1>1. links(u) # {}
  BY DEF destination
<1>2. destination(u) \in links(u)
  BY <1>1, LatestExists DEF SlackInv
<1> QED BY <1>2 DEF links

LEMMA unidentifiedKeeps ==
    ASSUME SlackInv, NEW c \in Connects, unidentified(c)
    PROVE  SlackInv'
BY EndsKeeps DEF unidentified, quiet, rest, Jobs

LEMMA readConnectionKeeps ==
    ASSUME SlackInv, NEW c \in Connects, readConnection(c)
    PROVE  SlackInv'
<1>1. c \in Jobs /\ job[c].at = "status" /\ UNCHANGED <<store, handling, slack, died, left, torn>>
  BY DEF readConnection, quiet, rest, Jobs
<1>2. job[c] \in JobType /\ job[c].user \in Users /\ Nobody \notin Users
  BY <1>1, JobIs
<1>3. CASE destination(job[c].user) = Nowhere
  <2>1. ends(c)
    BY <1>3 DEF readConnection
  <2> QED BY <1>1, <2>1, EndsKeeps
<1>4. CASE destination(job[c].user) # Nowhere
  <2>1. destination(job[c].user) \in Teams
    BY <1>2, <1>4, DestinationIsLinked
  <2>2. PICK t \in Teams : t = destination(job[c].user)
    BY <2>1
  <2>3. PICK x : x = [job[c] EXCEPT !.at = "workspace", !.team = t]
    OBVIOUS
  <2>4. x \in JobType /\ (x.at = "idle" <=> x.user = Nobody) /\ Sound(x)
    BY <1>2, <2>3 DEF JobType, Steps, Sound
  <2>5. job' = [job EXCEPT ![c] = x]
    BY <1>4, <2>2, <2>3 DEF readConnection
  <2> QED BY <1>1, <2>4, <2>5, JobAlone
<1> QED BY <1>3, <1>4

LEMMA sendWelcomePokeKeeps ==
    ASSUME SlackInv, NEW c \in Connects, sendWelcomePoke(c)
    PROVE  SlackInv'
<1>1. c \in Jobs /\ job[c].at = "workspace" /\ UNCHANGED <<store, handling, slack, died, left, torn>>
  BY DEF sendWelcomePoke, quiet, rest, Jobs
<1>2. job[c] \in JobType
  BY <1>1, JobIs
<1>3. ends(c) \/ goes(c, "link")
  BY DEF sendWelcomePoke
<1>4. Sound([job[c] EXCEPT !.at = "link"])
  BY <1>2 DEF Sound, JobType
<1>5. "link" \in Steps \ {"idle"}
  BY DEF Steps
<1> QED BY <1>1, <1>3, <1>4, <1>5, EndsKeeps, GoesKeeps

LEMMA deliverKeeps ==
    ASSUME SlackInv, NEW d \in Deliveries, NEW u \in Users, deliver(d, u)
    PROVE  SlackInv'
<1>1. d \in Jobs /\ job[d].at = "idle" /\ UNCHANGED <<store, handling, slack, died, left, torn>>
  BY DEF deliver, quiet, rest, Jobs
<1>2. PICK x : x = [Idle EXCEPT !.at = "link", !.user = u]
  OBVIOUS
<1>3. x \in JobType /\ (x.at = "idle" <=> x.user = Nobody) /\ Sound(x)
  BY <1>2, NobodyAssumption DEF JobType, Steps, Sound, Idle, None
<1>4. job' = [job EXCEPT ![d] = x]
  BY <1>2 DEF deliver
<1> QED BY <1>1, <1>3, <1>4, JobAlone

LEMMA readForUserKeeps ==
    ASSUME SlackInv, NEW j \in Jobs, readForUser(j)
    PROVE  SlackInv'
<1>1. job[j].at = "link" /\ UNCHANGED <<store, handling, slack, died, left, torn>>
  BY DEF readForUser, quiet, rest
<1>2. job[j] \in JobType /\ job[j].user \in Users /\ Nobody \notin Users
  BY <1>1, JobIs
<1>3. CASE destination(job[j].user) = Nowhere
  <2>1. ends(j)
    BY <1>3 DEF readForUser
  <2> QED BY <1>1, <2>1, EndsKeeps
<1>4. CASE destination(job[j].user) # Nowhere
  <2>1. destination(job[j].user) \in Teams /\ Linked(job[j].user, destination(job[j].user))
    BY <1>2, <1>4, DestinationIsLinked
  <2>2. PICK u \in Users : u = job[j].user
    BY <1>2
  <2>3. PICK t \in Teams : t = destination(u)
    BY <2>1, <2>2
  <2>4. KnownAs(u, t, link[u][t].id)
    BY <2>1, <2>2, <2>3 DEF SlackInv, LinksKnown
  <2>5. link[u][t] \in [id : Nat, dm : Nat]
    BY DEF SlackInv, SlackTyped, LinksTyped
  <2>6. PICK x : x = [job[j] EXCEPT !.at = "token", !.team = t, !.id = link[u][t].id, !.dm = link[u][t].dm]
    OBVIOUS
  <2>7. /\ x.at = "token" /\ x.user = u /\ x.team = t /\ x.id = link[u][t].id
        /\ x \in JobType
    BY <1>2, <2>2, <2>5, <2>6 DEF JobType, Steps
  <2>8. Sound(x) /\ (x.at = "idle" <=> x.user = Nobody)
    BY <1>2, <2>4, <2>7 DEF Sound
  <2>9. job' = [job EXCEPT ![j] = x]
    BY <1>4, <2>2, <2>3, <2>6 DEF readForUser
  <2> QED BY <1>1, <2>7, <2>8, <2>9, JobAlone
<1> QED BY <1>3, <1>4

LEMMA readLiveWithTokenKeeps ==
    ASSUME SlackInv, NEW j \in Jobs, readLiveWithToken(j)
    PROVE  SlackInv'
<1>1. job[j].at = "token" /\ UNCHANGED <<store, handling, slack, died, left, torn>>
  BY DEF readLiveWithToken, quiet, rest
<1>2. job[j] \in JobType /\ job[j].user \in Users /\ Nobody \notin Users /\ Sound(job[j])
  BY <1>1, JobIs
<1>3. CASE ends(j)
  BY <1>1, <1>3, EndsKeeps
<1>4. CASE ~ends(j)
  <2>1. PICK t \in Teams : t = job[j].team
    BY <1>1, <1>2 DEF Sound
  <2>2. row[t].token \in Nat /\ row[t].token # None /\ TokenOf(t, row[t].token)
    BY <1>4, <2>1 DEF SlackInv, SlackTyped, LinksTyped, RowsSound, readLiveWithToken
  <2>3. PICK x : x = [job[j] EXCEPT !.token = row[t].token, !.at = IF job[j].dm = None THEN "open" ELSE "cached"]
    OBVIOUS
  <2>4. /\ x.at \in {"open", "cached"} /\ x.user = job[j].user /\ x.team = t /\ x.id = job[j].id
        /\ x.token = row[t].token /\ x \in JobType
    BY <1>2, <2>1, <2>2, <2>3 DEF JobType, Steps
  <2>5. KnownAs(x.user, x.team, x.id)
    BY <1>1, <1>2, <2>1, <2>4 DEF Sound
  <2>6. Sound(x) /\ (x.at = "idle" <=> x.user = Nobody)
    BY <1>2, <2>2, <2>4, <2>5 DEF Sound
  <2>7. job' = [job EXCEPT ![j] = x]
    BY <1>4, <2>1, <2>3 DEF readLiveWithToken
  <2> QED BY <1>1, <2>4, <2>6, <2>7, JobAlone
<1> QED BY <1>3, <1>4

----------------------------------------------------------------------------
(* What Slack answers. *)

LEMMA refusedKeeps ==
    ASSUME SlackInv, NEW j \in Jobs, job[j].at \in {"cached", "open", "post"}, refused(j),
           UNCHANGED <<store, handling, slack, died, left, torn>>
    PROVE  SlackInv'
<1>1. job[j] \in JobType /\ job[j].user \in Users /\ Sound(job[j])
  BY JobIs
<1>2. "revoke" \in Steps \ {"idle"} /\ "unlink" \in Steps \ {"idle"}
  BY DEF Steps
<1>3. CASE ~accepts(j) /\ goes(j, "revoke")
  <2>1. job[j].team \in died
    BY <1>1, <1>3 DEF Sound, TokenOf, accepts
  <2>2. Sound([job[j] EXCEPT !.at = "revoke"])
    BY <1>1, <2>1 DEF Sound, JobType
  <2> QED BY <1>2, <1>3, <2>2, GoesKeeps
<1>4. CASE ~knows(j) /\ goes(j, "unlink")
  <2>1. <<job[j].user, job[j].team>> \in left
    BY <1>1, <1>4 DEF Sound, KnownAs, knows
  <2>2. Sound([job[j] EXCEPT !.at = "unlink"])
    BY <1>1, <2>1 DEF Sound, JobType
  <2> QED BY <1>2, <1>4, <2>2, GoesKeeps
<1> QED BY <1>3, <1>4 DEF refused

LEMMA failsKeeps ==
    ASSUME SlackInv, NEW j \in Jobs, fails(j)
    PROVE  SlackInv'
BY EndsKeeps DEF fails, history

LEMMA postCachedKeeps ==
    ASSUME SlackInv, NEW j \in Jobs, postCached(j)
    PROVE  SlackInv'
<1>1. job[j].at = "cached" /\ UNCHANGED <<store, handling, slack, died, left, torn>>
  BY DEF postCached, quiet, rest
<1>2. job[j] \in JobType /\ Sound(job[j])
  BY JobIs
<1>3. Sound([job[j] EXCEPT !.at = "clear"]) /\ "clear" \in Steps \ {"idle"}
  BY <1>1, <1>2 DEF Sound, JobType, Steps
<1>4. refused(j) \/ goes(j, "clear") \/ ends(j)
  BY DEF postCached
<1> QED BY <1>1, <1>3, <1>4, refusedKeeps, GoesKeeps, EndsKeeps

LEMMA openDirectMessageKeeps ==
    ASSUME SlackInv, NEW j \in Jobs, openDirectMessage(j)
    PROVE  SlackInv'
<1>1. job[j].at = "open" /\ UNCHANGED <<store, handling, slack, died, left, torn>>
  BY DEF openDirectMessage, quiet, rest
<1>2. job[j] \in JobType /\ Sound(job[j]) /\ job[j].user \in Users /\ Nobody \notin Users
  BY <1>1, JobIs
<1>3. CASE refused(j)
  BY <1>1, <1>3, refusedKeeps
<1>4. CASE ~refused(j)
  <2>1. PICK dm : dm = channel[job[j].user][job[j].team]
    OBVIOUS
  <2>2. dm \in Nat
    BY <1>1, <1>2, <2>1 DEF Sound, SlackInv, SlackTyped, LinksTyped
  <2>3. PICK x : x = [job[j] EXCEPT !.at = "post", !.dm = dm]
    OBVIOUS
  <2>4. /\ x \in JobType /\ (x.at = "idle" <=> x.user = Nobody) /\ x.at = "post" /\ x.user = job[j].user
        /\ x.team = job[j].team /\ x.id = job[j].id /\ x.token = job[j].token
    BY <1>2, <2>2, <2>3 DEF JobType, Steps
  <2>5. Sound(x)
    BY <1>1, <1>2, <2>4 DEF Sound
  <2>6. job' = [job EXCEPT ![j] = x]
    BY <1>4, <2>1, <2>3 DEF openDirectMessage
  <2> QED BY <1>1, <2>4, <2>5, <2>6, JobAlone
<1> QED BY <1>3, <1>4

LEMMA postOpenedKeeps ==
    ASSUME SlackInv, NEW j \in Jobs, postOpened(j)
    PROVE  SlackInv'
<1>1. job[j].at = "post" /\ UNCHANGED <<store, handling, slack, died, left, torn>>
  BY DEF postOpened, quiet, rest
<1>2. job[j] \in JobType /\ Sound(job[j])
  BY JobIs
<1>3. Sound([job[j] EXCEPT !.at = "cache"]) /\ "cache" \in Steps \ {"idle"}
  BY <1>1, <1>2 DEF Sound, JobType, Steps
<1>4. refused(j) \/ goes(j, "cache") \/ ends(j)
  BY DEF postOpened
<1> QED BY <1>1, <1>3, <1>4, refusedKeeps, GoesKeeps, EndsKeeps

----------------------------------------------------------------------------
(* Steps that write a workspace's row. *)

RowType == [token : Nat, revoked : BOOLEAN]

LEMMA RowKeeps ==
    ASSUME SlackInv, row' \in [Teams -> RowType], RowsSound', RevokedOnlyIfDied',
           job' \in [Jobs -> JobType], JobsSound',
           \A i \in Jobs : job'[i].at = "idle" <=> job'[i].user = Nobody,
           \A c \in Connects : job[c].at = "drop" => job'[c] = job[c],
           \A c \in Connects : job'[c].at = "drop" => job[c].at = "drop",
           EventsSound', handling' \subseteq Teams, events' \subseteq events,
           UNCHANGED <<recent, link, live, issued, who, ids, channel, died, left, torn>>
    PROVE  SlackInv'
<1>1. SlackTyped'
  <2>1. LinksTyped
    BY DEF SlackInv, SlackTyped
  <2>2. \A i \in Jobs : job'[i].user \in Users \cup {Nobody} /\ job'[i].team \in Teams \cup {Nowhere}
    BY DEF JobType
  <2>3. LinksTyped'
    BY <2>1, <2>2 DEF LinksTyped, Linked, RowType
  <2> QED BY <2>3 DEF SlackInv, SlackTyped
<1>2. Ordered' /\ LinksKnown'
  BY DEF SlackInv, Ordered, LinksKnown, links, Linked, KnownAs
<1>3. OneOrTorn'
  <2> SUFFICES ASSUME NEW u \in Users \ torn,
                      \A c \in Connects : job'[c].user = u => job'[c].at # "drop"
               PROVE  \A s, t \in links(u) : s = t
    BY DEF OneOrTorn, links, Linked
  <2>1. \A c \in Connects : job[c].user = u => job[c].at # "drop"
    OBVIOUS
  <2> QED BY <2>1 DEF SlackInv, OneOrTorn
<1> QED BY <1>1, <1>2, <1>3 DEF SlackInv

LEMMA Revoking ==
    ASSUME SlackInv, NEW t \in died \cap Teams, row' = revokedRow(t), UNCHANGED <<live, died>>
    PROVE  row' \in [Teams -> RowType] /\ RowsSound' /\ RevokedOnlyIfDied'
<1>1. row \in [Teams -> RowType]
  BY DEF SlackInv, SlackTyped, LinksTyped, RowType
<1>2. /\ row' \in [Teams -> RowType]
      /\ \A s \in Teams : row'[s].token = row[s].token /\ (row'[s].revoked => row[s].revoked \/ s = t)
  <2>1. CASE row[t].token = None
    BY <1>1, <2>1 DEF revokedRow
  <2>2. CASE row[t].token # None
    <3>1. PICK x : x = [row[t] EXCEPT !.revoked = TRUE]
      OBVIOUS
    <3>2. x \in RowType /\ x.token = row[t].token
      BY <1>1, <3>1 DEF RowType
    <3>3. row' = [row EXCEPT ![t] = x]
      BY <2>2, <3>1 DEF revokedRow
    <3> QED BY <1>1, <3>2, <3>3
  <2> QED BY <2>1, <2>2
<1> QED BY <1>2 DEF SlackInv, RowsSound, TokenOf, RevokedOnlyIfDied

LEMMA installKeeps ==
    ASSUME SlackInv, NEW c \in Connects, install(c)
    PROVE  SlackInv'
<1>1. c \in Jobs /\ job[c].at = "install" /\ UNCHANGED <<recent, link, handling, slack, died, left, torn>>
  BY DEF install, quiet, rest, Jobs
<1>2. job[c] \in JobType /\ Sound(job[c]) /\ job[c].user \in Users /\ Nobody \notin Users
  BY <1>1, JobIs
<1>3. PICK t \in Teams : t = job[c].team
  BY <1>1, <1>2 DEF Sound
<1>4. PICK x : x = [token |-> job[c].token, revoked |-> FALSE]
  OBVIOUS
<1>5. x \in RowType /\ TokenOf(t, x.token) /\ ~x.revoked
  BY <1>1, <1>2, <1>3, <1>4 DEF JobType, RowType, Sound
<1>6. row' = [row EXCEPT ![t] = x]
  BY <1>3, <1>4 DEF install
<1>7. row \in [Teams -> RowType]
  BY DEF SlackInv, SlackTyped, LinksTyped, RowType
<1>8. row' \in [Teams -> RowType] /\ RowsSound' /\ RevokedOnlyIfDied'
  BY <1>1, <1>5, <1>6, <1>7 DEF SlackInv, RowsSound, TokenOf, RevokedOnlyIfDied, slack
<1>9. PICK y : y = [job[c] EXCEPT !.at = "upsert"]
  OBVIOUS
<1>10. y \in JobType /\ (y.at = "idle" <=> y.user = Nobody) /\ y.at = "upsert" /\ y.user = job[c].user
       /\ y.team = job[c].team /\ y.id = job[c].id
  BY <1>2, <1>9 DEF JobType, Steps
<1>11. Sound(y)
  BY <1>1, <1>2, <1>10 DEF Sound
<1>12. job' = [job EXCEPT ![c] = y]
  BY <1>9 DEF install, goes
<1>13. Remembers
  BY <1>1, RemembersAtRest DEF slack
<1>14. Sound(y)'
  BY <1>10, <1>11, <1>13, SoundStays
<1>15. /\ job' \in [Jobs -> JobType] /\ JobsSound'
       /\ \A i \in Jobs : job'[i].at = "idle" <=> job'[i].user = Nobody
       /\ job'[c] = y /\ \A i \in Jobs : i # c => job'[i] = job[i]
  BY <1>1, <1>10, <1>12, <1>13, <1>14, JobGoes
<1>16. /\ \A d \in Connects : job[d].at = "drop" => job'[d] = job[d]
       /\ \A d \in Connects : job'[d].at = "drop" => job[d].at = "drop"
  BY <1>1, <1>10, <1>15 DEF Jobs
<1>17. EventsSound' /\ handling' \subseteq Teams /\ events' \subseteq events
  BY <1>1 DEF SlackInv, SlackTyped, LinksTyped, EventsSound, slack
<1>18. UNCHANGED <<recent, link, live, issued, who, ids, channel, died, left, torn>>
  BY <1>1 DEF slack
<1> QED BY <1>8, <1>15, <1>16, <1>17, <1>18, RowKeeps

LEMMA markRevokedKeeps ==
    ASSUME SlackInv, NEW j \in Jobs, markRevoked(j)
    PROVE  SlackInv'
<1>1. job[j].at = "revoke" /\ UNCHANGED <<recent, link, handling, slack, died, left, torn>>
  BY DEF markRevoked, quiet, rest
<1>2. job[j].team \in died \cap Teams
  BY <1>1, JobIs DEF Sound
<1>3. row' \in [Teams -> RowType] /\ RowsSound' /\ RevokedOnlyIfDied'
  BY <1>1, <1>2, Revoking DEF markRevoked, slack
<1>4. job' = [job EXCEPT ![j] = Idle]
  BY DEF markRevoked, ends
<1>5. Remembers
  BY <1>1, RemembersAtRest DEF slack
<1>6. Sound(Idle)'
  BY <1>5, IdleIsAJob, SoundStays
<1>7. /\ job' \in [Jobs -> JobType] /\ JobsSound'
      /\ \A i \in Jobs : job'[i].at = "idle" <=> job'[i].user = Nobody
      /\ job'[j] = Idle /\ \A i \in Jobs : i # j => job'[i] = job[i]
  BY <1>4, <1>5, <1>6, IdleIsAJob, JobGoes
<1>8. /\ \A d \in Connects : job[d].at = "drop" => job'[d] = job[d]
      /\ \A d \in Connects : job'[d].at = "drop" => job[d].at = "drop"
  BY <1>1, <1>7, IdleIsAJob DEF Jobs
<1>9. EventsSound' /\ handling' \subseteq Teams /\ events' \subseteq events
  BY <1>1 DEF SlackInv, SlackTyped, LinksTyped, EventsSound, slack
<1>10. UNCHANGED <<recent, link, live, issued, who, ids, channel, died, left, torn>>
  BY <1>1 DEF slack
<1> QED BY <1>3, <1>7, <1>8, <1>9, <1>10, RowKeeps

LEMMA handleKeeps ==
    ASSUME SlackInv, NEW e \in events, handle(e)
    PROVE  SlackInv'
<1>1. /\ events' = events \ {e}
      /\ UNCHANGED <<recent, link, job, live, issued, who, ids, channel, died, left, torn>>
  BY DEF handle, history
<1>2. row \in [Teams -> RowType] /\ RowsSound /\ RevokedOnlyIfDied /\ EventsSound
      /\ events \subseteq [team : Teams, tokens : {"bot", "user"}] /\ handling \subseteq Teams
  BY DEF SlackInv, SlackTyped, LinksTyped, RowType
<1>3. /\ row' \in [Teams -> RowType] /\ RowsSound' /\ RevokedOnlyIfDied'
      /\ handling' \subseteq Teams /\ handling' \subseteq died
  <2>1. CASE isWorkspaceGone(e)
    <3>1. e.team \in died \cap Teams
      BY <1>2, <2>1 DEF EventsSound, isWorkspaceGone
    <3>2. row' = revokedRow(e.team) /\ handling' = handling \cup {e.team}
      BY <2>1 DEF handle
    <3> QED BY <1>1, <1>2, <3>1, <3>2, Revoking DEF EventsSound
  <2>2. CASE ~isWorkspaceGone(e)
    <3>1. UNCHANGED <<row, handling>>
      BY <2>2 DEF handle
    <3> QED BY <1>1, <1>2, <3>1 DEF EventsSound, RowsSound, TokenOf, RevokedOnlyIfDied
  <2> QED BY <2>1, <2>2
<1>4. EventsSound'
  BY <1>1, <1>2, <1>3 DEF EventsSound
<1>5. JobsSound' /\ job' \in [Jobs -> JobType] /\ \A i \in Jobs : job'[i].at = "idle" <=> job'[i].user = Nobody
  BY <1>1 DEF SlackInv, SlackTyped, LinksTyped, JobsSound, Sound, KnownAs, TokenOf
<1>6. /\ \A d \in Connects : job[d].at = "drop" => job'[d] = job[d]
      /\ \A d \in Connects : job'[d].at = "drop" => job[d].at = "drop"
  BY <1>1
<1> QED BY <1>1, <1>3, <1>4, <1>5, <1>6, RowKeeps

----------------------------------------------------------------------------
(* Steps that write links. *)

LinkType == [id : Nat, dm : Nat]

\* What such a step leaves well formed.
LinksSound ==
    /\ recent \in [Users -> SUBSET (Teams \X Teams)] /\ Ordered
    /\ link \in [Users -> [Teams -> LinkType]]
    /\ \A u \in Users, t \in Teams : Linked(u, t) <=> link[u][t].id # None
    /\ LinksKnown

LEMMA LinksKeep ==
    ASSUME SlackInv, LinksSound', OneOrTorn',
           job' \in [Jobs -> JobType], JobsSound',
           \A i \in Jobs : job'[i].at = "idle" <=> job'[i].user = Nobody,
           handling' \subseteq handling,
           UNCHANGED <<row, slack, died, left>>
    PROVE  SlackInv'
<1> USE DEF slack
<1>1. LinksTyped
  BY DEF SlackInv, SlackTyped
<1>2. \A i \in Jobs : job'[i].user \in Users \cup {Nobody} /\ job'[i].team \in Teams \cup {Nowhere}
  BY DEF JobType
<1>3. LinksTyped'
  BY <1>1, <1>2 DEF LinksTyped, LinksSound, LinkType
<1>4. SlackTyped'
  BY <1>3 DEF SlackInv, SlackTyped
<1>5. EventsSound' /\ RowsSound' /\ RevokedOnlyIfDied'
  BY DEF SlackInv, EventsSound, RowsSound, TokenOf, RevokedOnlyIfDied
<1>6. Ordered' /\ LinksKnown'
  BY DEF LinksSound
<1> QED BY <1>4, <1>5, <1>6 DEF SlackInv

LEMMA UnlinksSound ==
    ASSUME SlackInv, NEW gone, unlinks(gone), UNCHANGED <<who, left>>
    PROVE  /\ LinksSound'
           /\ \A u \in Users, t \in Teams : Linked(u, t)' <=> Linked(u, t) /\ <<u, t>> \notin gone
<1> DEFINE K == [u \in Users |-> {t \in Teams : <<u, t>> \notin gone}]
<1>1. recent' = [u \in Users |-> among(u, K[u])]
  BY DEF unlinks
<1>2. \A u \in Users, t \in Teams : t \in K[u] <=> <<u, t>> \notin gone
  OBVIOUS
<1>3. SlackTyped /\ Ordered
  BY DEF SlackInv
<1> HIDE DEF K
<1>4. /\ recent' \in [Users -> SUBSET (Teams \X Teams)] /\ Ordered'
      /\ \A u \in Users, t \in Teams : Linked(u, t)' <=> Linked(u, t) /\ t \in K[u]
  BY <1>1, <1>3, AmongKeepsOrder
<1>5. \A u \in Users, t \in Teams : Linked(u, t)' <=> Linked(u, t) /\ <<u, t>> \notin gone
  BY <1>2, <1>4
<1>6. Unlinked \in LinkType /\ Unlinked.id = None
  BY DEF Unlinked, LinkType, None
<1>7. /\ link \in [Users -> [Teams -> LinkType]]
      /\ \A u \in Users, t \in Teams : Linked(u, t) <=> link[u][t].id # None
  BY <1>3 DEF SlackTyped, LinksTyped, LinkType
<1>8. \A u \in Users, t \in Teams : link'[u][t] = IF <<u, t>> \in gone THEN Unlinked ELSE link[u][t]
  BY DEF unlinks
<1>9. link' \in [Users -> [Teams -> LinkType]]
  BY <1>6, <1>7 DEF unlinks
<1>10. \A u \in Users, t \in Teams : Linked(u, t)' <=> link'[u][t].id # None
  BY <1>5, <1>6, <1>7, <1>8
<1>11. LinksKnown'
  BY <1>5, <1>8 DEF SlackInv, LinksKnown, KnownAs
<1> QED BY <1>4, <1>5, <1>9, <1>10, <1>11 DEF LinksSound

\* Fewer links, and nobody's second write done: one at most stays one at most.
LEMMA FewerIsOne ==
    ASSUME SlackInv, \A u \in Users : links(u)' \subseteq links(u), torn' = torn,
           \A c \in Connects : job[c].at = "drop" => job'[c] = job[c]
    PROVE  OneOrTorn'
<1> SUFFICES ASSUME NEW u \in Users \ torn,
                    \A c \in Connects : job'[c].user = u => job'[c].at # "drop"
             PROVE  \A s, t \in links(u)' : s = t
  BY DEF OneOrTorn
<1>1. \A c \in Connects : job[c].user = u => job[c].at # "drop"
  OBVIOUS
<1> QED BY <1>1 DEF SlackInv, OneOrTorn

LEMMA WrittenSound ==
    ASSUME SlackInv, NEW v \in Users, NEW w \in Teams, NEW id \in Nat \ {None}, NEW dm \in Nat,
           KnownAs(v, w, id), writes(v, w, id, dm), recent' = touched(v, w), UNCHANGED <<who, left>>
    PROVE  /\ LinksSound'
           /\ \A u \in Users, t \in Teams : Linked(u, t)' <=> Linked(u, t) \/ (u = v /\ t = w)
<1>1. SlackTyped /\ Ordered
  BY DEF SlackInv
<1>2. /\ recent' \in [Users -> SUBSET (Teams \X Teams)] /\ Ordered'
      /\ \A u \in Users, t \in Teams : Linked(u, t)' <=> Linked(u, t) \/ (u = v /\ t = w)
  BY <1>1, TouchedKeepsOrder
<1>3. /\ link \in [Users -> [Teams -> LinkType]]
      /\ \A u \in Users, t \in Teams : Linked(u, t) <=> link[u][t].id # None
  BY <1>1 DEF SlackTyped, LinksTyped, LinkType
<1>4. PICK x \in LinkType : x = [id |-> id, dm |-> dm]
  BY DEF LinkType
<1>5. PICK f : f = [link[v] EXCEPT ![w] = x]
  OBVIOUS
<1>6. f \in [Teams -> LinkType] /\ f[w] = x /\ \A t \in Teams : t # w => f[t] = link[v][t]
  BY <1>3, <1>5
<1>7. link' = [link EXCEPT ![v] = f]
  BY <1>4, <1>5 DEF writes
<1>8. link' \in [Users -> [Teams -> LinkType]]
  BY <1>3, <1>6, <1>7
<1>9. \A u \in Users, t \in Teams : link'[u][t] = IF u = v /\ t = w THEN x ELSE link[u][t]
  BY <1>3, <1>6, <1>7
<1>10. x.id = id
  BY <1>4
<1>11. \A u \in Users, t \in Teams : Linked(u, t)' <=> link'[u][t].id # None
  BY <1>2, <1>3, <1>9, <1>10
<1>12. LinksKnown'
  BY <1>2, <1>9, <1>10 DEF SlackInv, LinksKnown, KnownAs
<1> QED BY <1>2, <1>8, <1>11, <1>12 DEF LinksSound

\* A job is replaced in a step that keeps what there is to know.
LEMMA JobReplaced ==
    ASSUME SlackInv, NEW j \in Jobs, NEW x \in JobType, x.at = "idle" <=> x.user = Nobody, Sound(x),
           job' = [job EXCEPT ![j] = x], UNCHANGED <<slack, died, left>>
    PROVE  /\ job' \in [Jobs -> JobType] /\ JobsSound'
           /\ \A i \in Jobs : job'[i].at = "idle" <=> job'[i].user = Nobody
           /\ job'[j] = x /\ \A i \in Jobs : i # j => job'[i] = job[i]
<1>1. Remembers
  BY RemembersAtRest DEF slack
<1>2. Sound(x)'
  BY <1>1, SoundStays
<1> QED BY <1>1, <1>2, JobGoes

LEMMA upsertKeeps ==
    ASSUME SlackInv, NEW c \in Connects, upsert(c)
    PROVE  SlackInv'
<1>1. c \in Jobs /\ job[c].at = "upsert" /\ UNCHANGED <<row, handling, slack, died, left, torn>>
  BY DEF upsert, quiet, rest, Jobs
<1>2. job[c] \in JobType /\ Sound(job[c]) /\ job[c].user \in Users /\ Nobody \notin Users
  BY <1>1, JobIs
<1>3. PICK u \in Users, t \in Teams, id \in Nat \ {None} : u = job[c].user /\ t = job[c].team /\ id = job[c].id
  BY <1>1, <1>2 DEF Sound, JobType
<1>4. KnownAs(u, t, id)
  BY <1>1, <1>2, <1>3 DEF Sound
<1>5. PICK dm \in Nat : dm = link[u][t].dm
  BY DEF SlackInv, SlackTyped, LinksTyped
<1>6. writes(u, t, id, dm) /\ recent' = touched(u, t)
  BY <1>3, <1>5 DEF upsert
<1>7. /\ LinksSound'
      /\ \A s \in Users, r \in Teams : Linked(s, r)' <=> Linked(s, r) \/ (s = u /\ r = t)
  BY <1>1, <1>4, <1>6, WrittenSound DEF slack
<1>8. PICK x : x = [job[c] EXCEPT !.at = "drop"]
  OBVIOUS
<1>9. x \in JobType /\ x.at = "drop" /\ x.user = u /\ x.team = t /\ x.id = id
  BY <1>2, <1>3, <1>8 DEF JobType, Steps
<1>10. Sound(x) /\ (x.at = "idle" <=> x.user = Nobody)
  BY <1>2, <1>4, <1>9 DEF Sound
<1>11. job' = [job EXCEPT ![c] = x]
  BY <1>8 DEF upsert, goes
<1>12. /\ job' \in [Jobs -> JobType] /\ JobsSound'
       /\ \A i \in Jobs : job'[i].at = "idle" <=> job'[i].user = Nobody
       /\ job'[c] = x /\ \A i \in Jobs : i # c => job'[i] = job[i]
  BY <1>1, <1>9, <1>10, <1>11, JobReplaced
<1>13. OneOrTorn'
  <2> SUFFICES ASSUME NEW v \in Users \ torn,
                      \A d \in Connects : job'[d].user = v => job'[d].at # "drop"
               PROVE  \A r, s \in links(v)' : r = s
    BY <1>1 DEF OneOrTorn
  <2>1. v # u
    BY <1>9, <1>12
  <2>2. links(v)' = links(v)
    BY <1>7, <2>1 DEF links
  <2>3. \A d \in Connects : job[d].user = v => job[d].at # "drop"
    BY <1>1, <1>12 DEF Jobs
  <2> QED BY <2>2, <2>3 DEF SlackInv, OneOrTorn
<1> QED BY <1>1, <1>7, <1>12, <1>13, LinksKeep

LEMMA dropOthersKeeps ==
    ASSUME SlackInv, NEW c \in Connects, dropOthers(c)
    PROVE  /\ SlackInv'
           /\ \A u \in Users, t \in Teams :
                 Linked(u, t)' <=> Linked(u, t) /\ (u = job[c].user => t = job[c].team)
<1>1. c \in Jobs /\ job[c].at = "drop" /\ UNCHANGED <<row, handling, slack, died, left>>
  BY DEF dropOthers, rest, Jobs
<1>2. job[c] \in JobType /\ Sound(job[c]) /\ job[c].user \in Users /\ Nobody \notin Users
  BY <1>1, JobIs
<1>3. PICK v \in Users, w \in Teams : v = job[c].user /\ w = job[c].team
  BY <1>1, <1>2 DEF Sound
<1> DEFINE K == [u \in Users |-> IF u = v THEN {w} ELSE Teams]
<1>4. recent \in [Users -> SUBSET (Teams \X Teams)] /\ SlackTyped /\ Ordered
  BY DEF SlackInv, SlackTyped, LinksTyped
<1>5. \A u \in Users : among(u, Teams) = recent[u]
  BY <1>4 DEF among
<1>6. recent' = [recent EXCEPT ![v] = among(v, {w})]
  BY <1>3 DEF dropOthers
<1>7. recent' = [u \in Users |-> among(u, K[u])]
  BY <1>4, <1>5, <1>6
<1>8. \A u \in Users, t \in Teams : t \in K[u] <=> (u = v => t = w)
  OBVIOUS
<1> HIDE DEF K
<1>9. /\ recent' \in [Users -> SUBSET (Teams \X Teams)] /\ Ordered'
      /\ \A u \in Users, t \in Teams : Linked(u, t)' <=> Linked(u, t) /\ t \in K[u]
  BY <1>4, <1>7, AmongKeepsOrder
<1>10. \A u \in Users, t \in Teams : Linked(u, t)' <=> Linked(u, t) /\ (u = v => t = w)
  BY <1>8, <1>9
<1>11. Unlinked \in LinkType /\ Unlinked.id = None
  BY DEF Unlinked, LinkType, None
<1>12. /\ link \in [Users -> [Teams -> LinkType]]
       /\ \A u \in Users, t \in Teams : Linked(u, t) <=> link[u][t].id # None
  BY <1>4 DEF SlackTyped, LinksTyped, LinkType
<1>13. PICK f : f = [s \in Teams |-> IF s = w THEN link[v][s] ELSE Unlinked]
  OBVIOUS
<1>14. link' = [link EXCEPT ![v] = f]
  BY <1>3, <1>13 DEF dropOthers
<1>15. f \in [Teams -> LinkType]
  BY <1>11, <1>12, <1>13
<1>16. link' \in [Users -> [Teams -> LinkType]]
  BY <1>12, <1>14, <1>15
<1>17. \A u \in Users, t \in Teams : link'[u][t] = IF u = v /\ t # w THEN Unlinked ELSE link[u][t]
  BY <1>12, <1>13, <1>14
<1>18. \A u \in Users, t \in Teams : Linked(u, t)' <=> link'[u][t].id # None
  BY <1>10, <1>11, <1>12, <1>17
<1>19. LinksKnown'
  BY <1>1, <1>10, <1>17 DEF SlackInv, LinksKnown, KnownAs, slack
<1>20. LinksSound'
  BY <1>9, <1>16, <1>18, <1>19 DEF LinksSound
<1>21. PICK x : x = [job[c] EXCEPT !.at = "status"]
  OBVIOUS
<1>22. x \in JobType /\ x.at = "status" /\ x.user = v
  BY <1>2, <1>3, <1>21 DEF JobType, Steps
<1>23. Sound(x) /\ (x.at = "idle" <=> x.user = Nobody)
  BY <1>2, <1>22 DEF Sound
<1>24. job' = [job EXCEPT ![c] = x]
  BY <1>21 DEF dropOthers, goes
<1>25. /\ job' \in [Jobs -> JobType] /\ JobsSound'
       /\ \A i \in Jobs : job'[i].at = "idle" <=> job'[i].user = Nobody
       /\ job'[c] = x /\ \A i \in Jobs : i # c => job'[i] = job[i]
  BY <1>1, <1>22, <1>23, <1>24, JobReplaced
<1>26. OneOrTorn'
  <2> SUFFICES ASSUME NEW u \in Users \ torn',
                      \A d \in Connects : job'[d].user = u => job'[d].at # "drop"
               PROVE  \A r, s \in links(u)' : r = s
    BY DEF OneOrTorn
  <2>1. CASE u = v
    BY <1>10, <2>1 DEF links
  <2>2. CASE u # v
    <3>1. u \notin torn
      BY <1>3, <2>2 DEF dropOthers
    <3>2. links(u)' = links(u)
      BY <1>10, <2>2 DEF links
    <3>3. \A d \in Connects : job[d].user = u => job[d].at # "drop"
      BY <1>3, <1>25, <2>2 DEF Jobs
    <3> QED BY <3>1, <3>2, <3>3 DEF SlackInv, OneOrTorn
  <2> QED BY <2>1, <2>2
<1>27. SlackInv'
  BY <1>1, <1>20, <1>25, <1>26, LinksKeep
<1> QED BY <1>3, <1>10, <1>27

\* The channel of a link that is there is written, or nothing is.
LEMMA ChannelWritten ==
    ASSUME SlackInv, NEW j \in Jobs, NEW x \in JobType, x.at = "idle" <=> x.user = Nobody, Sound(x),
           x.at # "drop", job[j].at \notin {"idle", "drop"}, job[j].team \in Teams,
           job' = [job EXCEPT ![j] = x], NEW dm \in Nat,
           IF Linked(job[j].user, job[j].team)
           THEN writes(job[j].user, job[j].team, link[job[j].user][job[j].team].id, dm)
                /\ recent' = touched(job[j].user, job[j].team)
           ELSE UNCHANGED <<link, recent>>,
           UNCHANGED <<row, handling, slack, died, left, torn>>
    PROVE  SlackInv' /\ \A u \in Users, t \in Teams : Linked(u, t)' <=> Linked(u, t)
<1>1. PICK v \in Users, w \in Teams : v = job[j].user /\ w = job[j].team
  BY JobIs
<1>2. /\ job' \in [Jobs -> JobType] /\ JobsSound'
      /\ \A i \in Jobs : job'[i].at = "idle" <=> job'[i].user = Nobody
      /\ job'[j] = x /\ \A i \in Jobs : i # j => job'[i] = job[i]
  BY JobReplaced
<1>3. \A c \in Connects : job[c].at = "drop" => job'[c] = job[c]
  BY <1>2 DEF Jobs
<1>4. LinksSound' /\ \A u \in Users, t \in Teams : Linked(u, t)' <=> Linked(u, t)
  <2>1. CASE Linked(v, w)
    <3>1. PICK id : id = link[v][w].id
      OBVIOUS
    <3>2. id \in Nat \ {None} /\ KnownAs(v, w, id)
      BY <2>1, <3>1 DEF SlackInv, SlackTyped, LinksTyped, LinksKnown
    <3>3. writes(v, w, id, dm) /\ recent' = touched(v, w)
      BY <1>1, <2>1, <3>1
    <3>4. UNCHANGED <<who, left>>
      BY DEF slack
    <3>5. /\ LinksSound'
          /\ \A u \in Users, t \in Teams : Linked(u, t)' <=> Linked(u, t) \/ (u = v /\ t = w)
      BY <3>2, <3>3, <3>4, WrittenSound
    <3> QED BY <2>1, <3>5
  <2>2. CASE ~Linked(v, w)
    <3>1. UNCHANGED <<link, recent, who, left>>
      BY <1>1, <2>2 DEF slack
    <3>2. Ordered' /\ LinksKnown' /\ \A u, t : Linked(u, t)' <=> Linked(u, t)
      BY <3>1 DEF SlackInv, Ordered, LinksKnown, Linked, links, KnownAs
    <3>3. /\ recent \in [Users -> SUBSET (Teams \X Teams)] /\ link \in [Users -> [Teams -> LinkType]]
          /\ \A u \in Users, t \in Teams : Linked(u, t) <=> link[u][t].id # None
      BY DEF SlackInv, SlackTyped, LinksTyped, LinkType
    <3> QED BY <3>1, <3>2, <3>3 DEF LinksSound
  <2> QED BY <2>1, <2>2
<1>5. \A u \in Users : links(u)' \subseteq links(u)
  BY <1>4 DEF links
<1>6. OneOrTorn'
  BY <1>3, <1>5, FewerIsOne
<1>7. SlackInv'
  BY <1>2, <1>4, <1>6, LinksKeep
<1> QED BY <1>4, <1>7

LEMMA clearDmChannelKeeps ==
    ASSUME SlackInv, NEW j \in Jobs, clearDmChannel(j)
    PROVE  SlackInv' /\ \A u \in Users, t \in Teams : Linked(u, t)' <=> Linked(u, t)
<1>1. job[j].at = "clear" /\ UNCHANGED <<row, handling, slack, died, left, torn>>
  BY DEF clearDmChannel, quiet, rest
<1>2. job[j] \in JobType /\ Sound(job[j]) /\ job[j].user \in Users /\ Nobody \notin Users
  BY <1>1, JobIs
<1>3. PICK x : x = [job[j] EXCEPT !.at = "open"]
  OBVIOUS
<1>4. /\ x \in JobType /\ x.at = "open" /\ x.user = job[j].user /\ x.team = job[j].team
      /\ x.id = job[j].id /\ x.token = job[j].token
  BY <1>2, <1>3 DEF JobType, Steps
<1>5. Sound(x) /\ (x.at = "idle" <=> x.user = Nobody) /\ job[j].team \in Teams
  BY <1>1, <1>2, <1>4 DEF Sound
<1>6. job' = [job EXCEPT ![j] = x]
  BY <1>3 DEF clearDmChannel, goes
<1>7. None \in Nat
  BY DEF None
<1>8. IF Linked(job[j].user, job[j].team)
      THEN writes(job[j].user, job[j].team, link[job[j].user][job[j].team].id, None)
           /\ recent' = touched(job[j].user, job[j].team)
      ELSE UNCHANGED <<link, recent>>
  BY DEF clearDmChannel
<1> QED BY <1>1, <1>4, <1>5, <1>6, <1>7, <1>8, ChannelWritten

LEMMA cacheDmChannelKeeps ==
    ASSUME SlackInv, NEW j \in Jobs, cacheDmChannel(j)
    PROVE  SlackInv' /\ \A u \in Users, t \in Teams : Linked(u, t)' <=> Linked(u, t)
<1>1. job[j].at = "cache" /\ UNCHANGED <<row, handling, slack, died, left, torn>>
  BY DEF cacheDmChannel, quiet, rest
<1>2. job[j] \in JobType /\ Sound(job[j])
  BY <1>1, JobIs
<1>3. job[j].team \in Teams /\ job[j].dm \in Nat
  BY <1>1, <1>2 DEF Sound, JobType
<1>4. job' = [job EXCEPT ![j] = Idle]
  BY DEF cacheDmChannel, ends
<1>5. IF Linked(job[j].user, job[j].team)
      THEN writes(job[j].user, job[j].team, link[job[j].user][job[j].team].id, job[j].dm)
           /\ recent' = touched(job[j].user, job[j].team)
      ELSE UNCHANGED <<link, recent>>
  BY DEF cacheDmChannel
<1> QED BY <1>1, <1>3, <1>4, <1>5, IdleIsAJob, ChannelWritten

LEMMA deleteLinkKeeps ==
    ASSUME SlackInv, NEW j \in Jobs, deleteLink(j)
    PROVE  /\ SlackInv'
           /\ \A u \in Users, t \in Teams : Linked(u, t) /\ ~Linked(u, t)' => <<u, t>> \in left
<1>1. job[j].at = "unlink" /\ UNCHANGED <<row, handling, slack, died, left, torn>>
  BY DEF deleteLink, quiet, rest
<1>2. <<job[j].user, job[j].team>> \in left
  BY <1>1, JobIs DEF Sound
<1>3. UNCHANGED <<who, left>>
  BY <1>1 DEF slack
<1>4. PICK gone : gone = {<<job[j].user, job[j].team>>}
  OBVIOUS
<1>5. unlinks(gone)
  BY <1>4 DEF deleteLink
<1>6. /\ LinksSound'
      /\ \A u \in Users, t \in Teams : Linked(u, t)' <=> Linked(u, t) /\ <<u, t>> \notin gone
  BY <1>3, <1>5, UnlinksSound
<1>7. job' = [job EXCEPT ![j] = Idle]
  BY DEF deleteLink, ends
<1>8. /\ job' \in [Jobs -> JobType] /\ JobsSound'
      /\ \A i \in Jobs : job'[i].at = "idle" <=> job'[i].user = Nobody
      /\ job'[j] = Idle /\ \A i \in Jobs : i # j => job'[i] = job[i]
  BY <1>1, <1>7, IdleIsAJob, JobReplaced
<1>9. \A c \in Connects : job[c].at = "drop" => job'[c] = job[c]
  BY <1>1, <1>8 DEF Jobs
<1>10. \A u \in Users : links(u)' \subseteq links(u)
  BY <1>6 DEF links
<1>11. OneOrTorn'
  BY <1>1, <1>9, <1>10, FewerIsOne
<1>12. SlackInv'
  BY <1>1, <1>6, <1>8, <1>11, LinksKeep
<1> QED BY <1>2, <1>4, <1>6, <1>12

\* The process's other writers of links are no jobs.
LEMMA UnlinkedAside ==
    ASSUME SlackInv, NEW gone, unlinks(gone), handling' \subseteq handling,
           UNCHANGED <<row, job, slack, died, left, torn>>
    PROVE  /\ SlackInv'
           /\ \A u \in Users, t \in Teams : Linked(u, t)' <=> Linked(u, t) /\ <<u, t>> \notin gone
<1>1. UNCHANGED <<who, left>>
  BY DEF slack
<1>2. /\ LinksSound'
      /\ \A u \in Users, t \in Teams : Linked(u, t)' <=> Linked(u, t) /\ <<u, t>> \notin gone
  BY <1>1, UnlinksSound
<1>3. \A u \in Users : links(u)' \subseteq links(u)
  BY <1>2 DEF links
<1>4. OneOrTorn'
  BY <1>3, FewerIsOne
<1>5. JobsSound' /\ job' \in [Jobs -> JobType] /\ \A i \in Jobs : job'[i].at = "idle" <=> job'[i].user = Nobody
  BY DEF SlackInv, SlackTyped, LinksTyped, JobsSound, Sound, KnownAs, TokenOf, slack
<1>6. SlackInv'
  BY <1>2, <1>4, <1>5, LinksKeep
<1> QED BY <1>2, <1>6

LEMMA deleteForTeamKeeps ==
    ASSUME SlackInv, NEW r \in Teams, deleteForTeam(r)
    PROVE  /\ SlackInv'
           /\ \A u \in Users, t \in Teams : Linked(u, t) /\ ~Linked(u, t)' => t \in died
<1>1. r \in died
  BY DEF deleteForTeam, SlackInv, EventsSound
<1>2. PICK gone : gone = Users \X {r}
  OBVIOUS
<1>3. unlinks(gone) /\ handling' \subseteq handling
  BY <1>2 DEF deleteForTeam
<1>4. UNCHANGED <<row, job, slack, died, left, torn>>
  BY DEF deleteForTeam
<1>5. /\ SlackInv'
      /\ \A u \in Users, t \in Teams : Linked(u, t)' <=> Linked(u, t) /\ <<u, t>> \notin gone
  BY <1>3, <1>4, UnlinkedAside
<1> QED BY <1>1, <1>2, <1>5

LEMMA disconnectKeeps ==
    ASSUME SlackInv, NEW v \in Users, disconnect(v)
    PROVE  /\ SlackInv'
           /\ \A u \in Users, t \in Teams : Linked(u, t) /\ ~Linked(u, t)' => u = v
<1>1. PICK gone : gone = {v} \X Teams
  OBVIOUS
<1>2. unlinks(gone) /\ handling' \subseteq handling
  BY <1>1 DEF disconnect
<1>3. UNCHANGED <<row, job, slack, died, left, torn>>
  BY DEF disconnect
<1>4. /\ SlackInv'
      /\ \A u \in Users, t \in Teams : Linked(u, t)' <=> Linked(u, t) /\ <<u, t>> \notin gone
  BY <1>2, <1>3, UnlinkedAside
<1> QED BY <1>1, <1>4

----------------------------------------------------------------------------
(* Authorizations that come back, restarts, and Slack. *)

\* What must be shown where only jobs, and what Slack knows, change.
LEMMA BesidesLinks ==
    ASSUME SlackInv, Remembers, LinksTyped', issued' \in [Teams -> Nat],
           job' \in [Jobs -> JobType], JobsSound', EventsSound', OneOrTorn',
           UNCHANGED <<store>>
    PROVE  SlackInv'
<1>1. UNCHANGED <<recent, link, row>>
  BY DEF store
<1>2. Ordered'
  BY <1>1 DEF SlackInv, Ordered, links, Linked
<1>3. \A u \in Users, t \in Teams : link[u][t].id \in Nat /\ row[t].token \in Nat
  BY DEF SlackInv, SlackTyped, LinksTyped
<1>4. LinksKnown'
  <2> SUFFICES ASSUME NEW u \in Users, NEW t \in Teams, Linked(u, t)
               PROVE  KnownAs(u, t, link[u][t].id)'
    BY <1>1 DEF LinksKnown, Linked
  <2>1. PICK id \in Nat : id = link[u][t].id
    BY <1>3
  <2>2. KnownAs(u, t, id)'
    BY <2>1 DEF SlackInv, LinksKnown, Remembers
  <2> QED BY <1>1, <2>1, <2>2 DEF KnownAs
<1>5. RowsSound'
  <2> SUFFICES ASSUME NEW t \in Teams PROVE TokenOf(t, row[t].token)'
    BY DEF RowsSound
  <2>1. PICK x \in Nat : x = row[t].token
    BY DEF SlackInv, SlackTyped, LinksTyped
  <2>2. TokenOf(t, x)'
    BY <2>1 DEF SlackInv, RowsSound, Remembers
  <2> QED BY <1>1, <2>1, <2>2 DEF TokenOf
<1>6. RevokedOnlyIfDied'
  BY <1>1 DEF SlackInv, RevokedOnlyIfDied, Remembers
<1>7. SlackTyped'
  BY DEF SlackTyped
<1> QED BY <1>2, <1>4, <1>5, <1>6, <1>7 DEF SlackInv

LEMMA authorizeKeeps ==
    ASSUME SlackInv, NEW c \in Connects, NEW u \in Users, NEW t \in Teams, NEW adds \in BOOLEAN,
           authorize(c, u, t, adds)
    PROVE  SlackInv'
<1>1. /\ c \in Jobs /\ job[c].at = "idle" /\ who[u][t] # None
      /\ UNCHANGED <<store, handling, who, ids, channel, events, died, left, torn>>
  BY DEF authorize, history, Jobs
<1>2. /\ LinksTyped /\ issued \in [Teams -> Nat] /\ live \in [Teams -> Nat]
      /\ \A s \in Teams : live[s] \in {None, issued[s]}
      /\ who[u][t] \in Nat /\ Nobody \notin Users
  BY NobodyAssumption DEF SlackInv, SlackTyped, LinksTyped
<1>3. PICK n \in Nat : n = IF adds /\ live[t] = None THEN issued[t] + 1 ELSE issued[t]
  BY <1>2
<1>4. issued' = [issued EXCEPT ![t] = n]
  BY <1>2, <1>3 DEF authorize
<1>5. issued' \in [Teams -> Nat] /\ issued'[t] = n /\ \A s \in Teams : s # t => issued'[s] = issued[s]
  BY <1>2, <1>4
<1>6. live' = IF adds THEN [live EXCEPT ![t] = n] ELSE live
  BY <1>5 DEF authorize
<1>7. /\ live' \in [Teams -> Nat] /\ \A s \in Teams : live'[s] \in {None, issued'[s]}
      /\ \A s \in Teams : live[s] = None \/ live'[s] = live[s]
  <2>1. CASE adds
    BY <1>2, <1>3, <1>5, <1>6, <2>1
  <2>2. CASE ~adds
    <3>1. live' = live /\ n = issued[t]
      BY <1>3, <1>6, <2>2
    <3> QED BY <1>2, <1>5, <3>1
  <2> QED BY <2>1, <2>2
<1>8. Remembers
  BY <1>1, <1>7 DEF Remembers, KnownAs, TokenOf
<1>9. PICK id \in Nat : id = who[u][t]
  BY <1>2
<1>10. PICK tok \in Nat : tok = IF adds THEN n ELSE None
  BY DEF None
<1>11. (IF adds THEN live'[t] ELSE None) = tok
  BY <1>2, <1>6, <1>10
<1>12. PICK x : x = [Idle EXCEPT !.at = IF adds THEN "install" ELSE "upsert",
                                 !.user = u, !.team = t, !.id = id, !.token = tok]
  OBVIOUS
<1>13. job' = [job EXCEPT ![c] = x]
  <2>1. job' = [job EXCEPT ![c] = [Idle EXCEPT !.at = IF adds THEN "install" ELSE "upsert",
                  !.user = u, !.team = t, !.id = who[u][t], !.token = IF adds THEN live'[t] ELSE None]]
    BY DEF authorize
  <2> QED BY <1>9, <1>11, <1>12, <2>1
<1>14. /\ x.at \in {"install", "upsert"} /\ x.user = u /\ x.team = t /\ x.id = id /\ x.token = tok
       /\ x \in JobType /\ (x.at = "install" => adds)
  BY <1>12 DEF Idle, JobType, Steps, None
<1>15. Sound(x)'
  <2>1. KnownAs(u, t, id)'
    BY <1>1, <1>9 DEF KnownAs
  <2>2. adds => TokenOf(t, tok)'
    BY <1>11 DEF TokenOf
  <2> QED BY <1>1, <1>9, <1>14, <2>1, <2>2 DEF Sound
<1>16. x.at = "idle" <=> x.user = Nobody
  BY <1>2, <1>14
<1>17. /\ job' \in [Jobs -> JobType] /\ JobsSound'
       /\ \A i \in Jobs : job'[i].at = "idle" <=> job'[i].user = Nobody
       /\ job'[c] = x /\ \A i \in Jobs : i # c => job'[i] = job[i]
  BY <1>1, <1>8, <1>13, <1>14, <1>15, <1>16, JobGoes
<1>18. \A i \in Jobs : job'[i].user \in Users \cup {Nobody} /\ job'[i].team \in Teams \cup {Nowhere}
  BY <1>17 DEF JobType
<1>19. LinksTyped'
  BY <1>1, <1>2, <1>7, <1>17, <1>18 DEF LinksTyped, Linked, store
<1>20. EventsSound'
  BY <1>1 DEF SlackInv, EventsSound
<1>21. \A v \in Users : links(v)' \subseteq links(v)
  BY <1>1 DEF links, Linked, store
<1>22. OneOrTorn'
  BY <1>1, <1>17, <1>21, FewerIsOne DEF Jobs
<1> QED BY <1>1, <1>5, <1>8, <1>17, <1>19, <1>20, <1>22, BesidesLinks

LEMMA ReplacedKeeps ==
    ASSUME SlackInv, Replaced
    PROVE  SlackInv'
<1>1. /\ job' = [j \in Jobs |-> Idle] /\ handling' = {} /\ UNCHANGED <<store, slack, died, left>>
      /\ torn' = torn \cup {job[c].user : c \in {k \in Connects : job[k].at = "drop"}}
  BY DEF Replaced
<1>2. LinksTyped /\ issued \in [Teams -> Nat]
  BY DEF SlackInv, SlackTyped
<1>3. Remembers
  BY <1>1, RemembersAtRest DEF slack
<1>4. /\ job' \in [Jobs -> JobType] /\ \A i \in Jobs : job'[i] = Idle
      /\ \A i \in Jobs : job'[i].at = "idle" <=> job'[i].user = Nobody
  BY <1>1, IdleIsAJob
<1>5. JobsSound'
  <2>1. \A i \in Jobs : job'[i].at = "idle"
    BY <1>4, IdleIsAJob
  <2> QED BY <2>1 DEF JobsSound, Sound
<1>6. \A i \in Jobs : job'[i].user \in Users \cup {Nobody} /\ job'[i].team \in Teams \cup {Nowhere}
  BY <1>4 DEF JobType
<1>7. LinksTyped'
  BY <1>1, <1>2, <1>4, <1>6 DEF LinksTyped, Linked, store, slack
<1>8. EventsSound'
  BY <1>1 DEF SlackInv, EventsSound, slack
<1>9. OneOrTorn'
  <2> SUFFICES ASSUME NEW u \in Users \ torn' PROVE \A s, t \in links(u)' : s = t
    BY DEF OneOrTorn
  <2>1. links(u)' = links(u)
    BY <1>1 DEF links, Linked, store
  <2>2. u \notin torn /\ \A c \in Connects : job[c].user = u => job[c].at # "drop"
    BY <1>1
  <2> QED BY <2>1, <2>2 DEF SlackInv, OneOrTorn
<1>10. issued' \in [Teams -> Nat]
  BY <1>1, <1>2 DEF slack
<1>11. UNCHANGED <<store>>
  BY <1>1
<1> QED BY <1>3, <1>4, <1>5, <1>7, <1>8, <1>9, <1>10, <1>11, BesidesLinks

LEMMA SlackKeeps ==
    ASSUME SlackInv, Slack
    PROVE  SlackInv'
<1>1. UNCHANGED <<store, job, handling, issued, torn>>
  BY DEF Slack
<1>2. /\ LinksTyped /\ live \in [Teams -> Nat] /\ \A s \in Teams : live[s] \in {None, issued[s]}
      /\ who \in [Users -> [Teams -> Nat]] /\ ids \in [Users -> [Teams -> Nat]]
      /\ channel \in [Users -> [Teams -> Nat]] /\ issued \in [Teams -> Nat]
      /\ events \subseteq [team : Teams, tokens : {"bot", "user"}] /\ EventsSound
  BY DEF SlackInv, SlackTyped, LinksTyped
<1> DEFINE Fine == /\ Remembers
                   /\ live' \in [Teams -> Nat] /\ \A s \in Teams : live'[s] \in {None, issued[s]}
                   /\ who' \in [Users -> [Teams -> Nat]] /\ ids' \in [Users -> [Teams -> Nat]]
                   /\ channel' \in [Users -> [Teams -> Nat]]
                   /\ events' \subseteq [team : Teams, tokens : {"bot", "user"}] /\ EventsSound'
<1>3. ASSUME NEW t \in Teams, live' = [live EXCEPT ![t] = None],
             events' = events \cup {[team |-> t, tokens |-> "bot"]}, died' = died \cup {t},
             UNCHANGED <<who, ids, channel, left>>
      PROVE  Fine
  <2>1. live' \in [Teams -> Nat] /\ \A s \in Teams : live'[s] \in {None, issued[s]}
    BY <1>2, <1>3 DEF None
  <2>2. Remembers
    BY <1>2, <1>3 DEF Remembers, KnownAs, TokenOf
  <2>3. events' \subseteq [team : Teams, tokens : {"bot", "user"}] /\ EventsSound'
    BY <1>1, <1>2, <1>3 DEF EventsSound
  <2> QED BY <1>2, <1>3, <2>1, <2>2, <2>3
<1>4. ASSUME NEW t \in Teams, events' = events \cup {[team |-> t, tokens |-> "user"]},
             UNCHANGED <<live, who, ids, channel, died, left>>
      PROVE  Fine
  <2>1. Remembers
    BY <1>4, RemembersAtRest
  <2>2. events' \subseteq [team : Teams, tokens : {"bot", "user"}] /\ EventsSound'
    BY <1>1, <1>2, <1>4 DEF EventsSound
  <2> QED BY <1>2, <1>4, <2>1, <2>2
<1>5. ASSUME NEW u \in Users, NEW t \in Teams,
             IF who[u][t] = None
             THEN /\ ids' = [ids EXCEPT ![u] = [@ EXCEPT ![t] = ids[u][t] + 1]]
                  /\ who' = [who EXCEPT ![u] = [@ EXCEPT ![t] = ids[u][t] + 1]]
             ELSE who' = [who EXCEPT ![u] = [@ EXCEPT ![t] = None]] /\ UNCHANGED ids,
             left' = left \cup {<<u, t>>}, UNCHANGED <<live, channel, events, died>>
      PROVE  Fine
  <2>1. PICK n \in Nat : n = IF who[u][t] = None THEN ids[u][t] + 1 ELSE None
    BY <1>2 DEF None
  <2>2. PICK f : f = [who[u] EXCEPT ![t] = n]
    OBVIOUS
  <2>3. f \in [Teams -> Nat] /\ \A s \in Teams : s # t => f[s] = who[u][s]
    BY <1>2, <2>2
  <2>4. who' = [who EXCEPT ![u] = f]
    BY <1>5, <2>1, <2>2
  <2>5. /\ who' \in [Users -> [Teams -> Nat]]
        /\ \A v \in Users, s \in Teams : (v = u /\ s = t) \/ who'[v][s] = who[v][s]
    BY <1>2, <2>3, <2>4
  <2>6. Remembers
    BY <1>5, <2>5 DEF Remembers, KnownAs, TokenOf
  <2>7. ids' \in [Users -> [Teams -> Nat]]
    <3>1. PICK m \in Nat : m = ids[u][t] + 1
      BY <1>2
    <3>2. PICK g : g = [ids[u] EXCEPT ![t] = m]
      OBVIOUS
    <3>3. g \in [Teams -> Nat]
      BY <1>2, <3>2
    <3>4. ids' = [ids EXCEPT ![u] = g] \/ ids' = ids
      BY <1>5, <3>1, <3>2
    <3> QED BY <1>2, <3>3, <3>4
  <2>8. EventsSound'
    BY <1>1, <1>2, <1>5 DEF EventsSound
  <2> QED BY <1>2, <1>5, <2>5, <2>6, <2>7, <2>8
<1>6. ASSUME NEW u \in Users, NEW t \in Teams, channel' = [channel EXCEPT ![u] = [@ EXCEPT ![t] = channel[u][t] + 1]],
             UNCHANGED <<live, who, ids, events, died, left>>
      PROVE  Fine
  <2>1. PICK m \in Nat : m = channel[u][t] + 1
    BY <1>2
  <2>2. PICK g : g = [channel[u] EXCEPT ![t] = m]
    OBVIOUS
  <2>3. g \in [Teams -> Nat]
    BY <1>2, <2>2
  <2>4. channel' = [channel EXCEPT ![u] = g]
    BY <1>6, <2>1, <2>2
  <2>5. channel' \in [Users -> [Teams -> Nat]]
    BY <1>2, <2>3, <2>4
  <2>6. Remembers
    BY <1>6, RemembersAtRest
  <2>7. EventsSound'
    BY <1>1, <1>2, <1>6 DEF EventsSound
  <2> QED BY <1>2, <1>6, <2>5, <2>6, <2>7
<1>7. Fine
  <2> HIDE DEF Fine
  <2> QED BY <1>3, <1>4, <1>5, <1>6 DEF Slack
<1>8. /\ job' \in [Jobs -> JobType]
      /\ \A i \in Jobs : job[i] \in JobType /\ Sound(job[i]) /\ (job[i].at = "idle" <=> job[i].user = Nobody)
  BY <1>1, JobIs DEF SlackInv, SlackTyped
<1>9. JobsSound'
  <2> SUFFICES ASSUME NEW i \in Jobs PROVE Sound(job[i])'
    BY <1>1 DEF JobsSound
  <2>1. PICK x \in JobType : x = job[i]
    BY <1>8
  <2>2. Sound(x)'
    BY <1>7, <1>8, <2>1, SoundStays
  <2> QED BY <1>1, <2>1, <2>2 DEF Sound, KnownAs, TokenOf
<1>10. LinksTyped'
  BY <1>1, <1>2, <1>7 DEF LinksTyped, Linked, store
<1>11. OneOrTorn'
  BY <1>1, FewerIsOne DEF links, Linked, store
<1>12. issued' \in [Teams -> Nat] /\ UNCHANGED <<store>>
  BY <1>1, <1>2
<1> QED BY <1>7, <1>8, <1>9, <1>10, <1>11, <1>12, BesidesLinks

----------------------------------------------------------------------------
(* Invariance, and why a link goes. *)

LEMMA SlackInitInv == SlackInit => SlackInv
<1> SUFFICES ASSUME SlackInit PROVE SlackInv
  OBVIOUS
<1>1. PICK home \in [Users -> Teams \cup {Nowhere}], installed \in SUBSET Teams :
        /\ recent = [u \in Users |-> IF home[u] = Nowhere THEN {} ELSE {<<home[u], home[u]>>}]
        /\ link = [u \in Users |-> [t \in Teams |->
                     IF home[u] = t THEN [id |-> 1, dm |-> None] ELSE Unlinked]]
        /\ live = [t \in Teams |-> IF t \in installed THEN 1 ELSE None]
  BY DEF SlackInit
<1>2. Nowhere \notin Teams /\ Nobody \notin Users
  BY NobodyAssumption
<1>3. /\ issued = live /\ row = [t \in Teams |-> [token |-> live[t], revoked |-> FALSE]]
      /\ job = [j \in Jobs |-> Idle] /\ who = [u \in Users |-> [t \in Teams |-> 1]]
      /\ ids = who /\ channel = who
      /\ handling = {} /\ events = {} /\ died = {} /\ left = {} /\ torn = {}
  BY DEF SlackInit
<1>4. \A u \in Users, t \in Teams : Linked(u, t) <=> home[u] = t
  BY <1>1, <1>2 DEF Linked
<1>5. \A u \in Users, s, t \in Teams : <<s, t>> \in recent[u] <=> home[u] = s /\ home[u] = t
  BY <1>1, <1>2
<1>6. recent \in [Users -> SUBSET (Teams \X Teams)]
  BY <1>1
<1>7. Ordered
  <2> SUFFICES ASSUME NEW u \in Users
               PROVE  /\ \A p \in recent[u] : Linked(u, p[1]) /\ Linked(u, p[2])
                      /\ \A s, t \in links(u) : <<s, t>> \in recent[u] \/ <<t, s>> \in recent[u]
                      /\ \A s, t \in links(u) : <<s, t>> \in recent[u] /\ <<t, s>> \in recent[u] => s = t
                      /\ \A r, s, t \in links(u) :
                            <<r, s>> \in recent[u] /\ <<s, t>> \in recent[u] => <<r, t>> \in recent[u]
    BY DEF Ordered
  <2>1. \A p \in recent[u] : Linked(u, p[1]) /\ Linked(u, p[2])
    BY <1>1 DEF Linked
  <2>2. \A s \in links(u) : s = home[u] /\ s \in Teams
    BY <1>4 DEF links
  <2> QED BY <1>5, <2>1, <2>2
<1>8. /\ live \in [Teams -> Nat] /\ \A t \in Teams : live[t] \in {None, issued[t]}
      /\ row \in [Teams -> RowType] /\ issued \in [Teams -> Nat]
  <2>1. live \in [Teams -> Nat]
    BY <1>1 DEF None
  <2>2. row \in [Teams -> RowType]
    BY <1>3, <2>1 DEF RowType
  <2> QED BY <1>3, <2>1, <2>2
<1>9. /\ link \in [Users -> [Teams -> LinkType]]
      /\ \A u \in Users, t \in Teams : link[u][t].id = IF home[u] = t THEN 1 ELSE None
  <2>1. [id |-> 1, dm |-> None] \in LinkType /\ Unlinked \in LinkType
    BY DEF LinkType, Unlinked, None
  <2>2. \A u \in Users, t \in Teams : link[u][t] = IF home[u] = t THEN [id |-> 1, dm |-> None] ELSE Unlinked
    BY <1>1
  <2>3. link \in [Users -> [Teams -> LinkType]]
    BY <1>1, <2>1
  <2> QED BY <2>2, <2>3 DEF Unlinked
<1>10. who \in [Users -> [Teams -> Nat]] /\ \A u \in Users, t \in Teams : who[u][t] = 1
  BY <1>3
<1>11. job \in [Jobs -> JobType] /\ \A j \in Jobs : job[j].at = "idle" /\ job[j].user = Nobody
  BY <1>3, IdleIsAJob
<1>12. \A j \in Jobs : job[j].user \in Users \cup {Nobody} /\ job[j].team \in Teams \cup {Nowhere}
  BY <1>11 DEF JobType
<1>13. LinksTyped
  <2>1. \A u \in Users, t \in Teams : Linked(u, t) <=> link[u][t].id # None
    BY <1>4, <1>9 DEF None
  <2>2. DOMAIN job = Jobs
    BY <1>3
  <2>3. handling \subseteq Teams /\ events \subseteq [team : Teams, tokens : {"bot", "user"}]
    BY <1>3
  <2>4. ids \in [Users -> [Teams -> Nat]] /\ channel \in [Users -> [Teams -> Nat]]
    BY <1>3, <1>10
  <2> QED BY <1>6, <1>8, <1>9, <1>10, <1>11, <1>12, <2>1, <2>2, <2>3, <2>4
          DEF LinksTyped, LinkType, RowType
<1>14. JobsSound
  BY <1>11 DEF JobsSound, Sound
<1>15. RowsSound /\ RevokedOnlyIfDied
  BY <1>3 DEF RowsSound, TokenOf, RevokedOnlyIfDied
<1>16. LinksKnown
  BY <1>4, <1>9, <1>10 DEF LinksKnown, KnownAs
<1>17. EventsSound
  BY <1>3 DEF EventsSound
<1>18. OneOrTorn
  BY <1>4 DEF OneOrTorn, links
<1> QED BY <1>7, <1>8, <1>11, <1>13, <1>14, <1>15, <1>16, <1>17, <1>18 DEF SlackInv, SlackTyped

\* Steps that leave the links as they are.
LEMMA NothingUnlinked ==
    ASSUME \A u \in Users, t \in Teams : Linked(u, t)' <=> Linked(u, t)
    PROVE  UnlinkedWithCause
BY DEF UnlinkedWithCause

LEMMA RecentUnlinksNothing ==
    ASSUME UNCHANGED recent PROVE UnlinkedWithCause
BY DEF UnlinkedWithCause, Linked

LEMMA connectStepKeeps ==
    ASSUME SlackInv, NEW c \in Connects, connectStep(c)
    PROVE  SlackInv' /\ UnlinkedWithCause
<1>1. CASE install(c)
  <2>1. UNCHANGED recent
    BY <1>1 DEF install
  <2> QED BY <1>1, <2>1, installKeeps, RecentUnlinksNothing
<1>2. CASE unidentified(c) \/ readConnection(c) \/ sendWelcomePoke(c)
  <2>1. UNCHANGED recent
    BY <1>2 DEF unidentified, readConnection, sendWelcomePoke, store
  <2> QED BY <1>2, <2>1, unidentifiedKeeps, readConnectionKeeps, sendWelcomePokeKeeps, RecentUnlinksNothing
<1>3. CASE upsert(c)
  <2>1. SlackInv'
    BY <1>3, upsertKeeps
  <2>2. c \in Jobs /\ job[c].at = "upsert"
    BY <1>3 DEF upsert, Jobs
  <2>3. job[c].user \in Users /\ job[c].team \in Teams
    BY <2>2, JobIs DEF Sound
  <2>4. recent' = touched(job[c].user, job[c].team)
    BY <1>3 DEF upsert
  <2>5. \A u \in Users, t \in Teams : Linked(u, t) => Linked(u, t)'
    BY <2>3, <2>4, TouchedKeepsOrder DEF SlackInv
  <2> QED BY <2>1, <2>5 DEF UnlinkedWithCause
<1>4. CASE dropOthers(c)
  <2>1. /\ SlackInv'
        /\ \A u \in Users, t \in Teams :
              Linked(u, t)' <=> Linked(u, t) /\ (u = job[c].user => t = job[c].team)
    BY <1>4, dropOthersKeeps
  <2>2. UnlinkedWithCause
    <3> SUFFICES ASSUME NEW u \in Users, NEW t \in Teams, Linked(u, t), ~Linked(u, t)'
                 PROVE  \E d \in Connects : job[d].user = u /\ job[d].team # t /\ dropOthers(d)
      BY DEF UnlinkedWithCause
    <3> QED BY <1>4, <2>1
  <2> QED BY <2>1, <2>2
<1> QED BY <1>1, <1>2, <1>3, <1>4 DEF connectStep

LEMMA sendStepKeeps ==
    ASSUME SlackInv, NEW j \in Jobs, sendStep(j)
    PROVE  SlackInv' /\ UnlinkedWithCause
<1>1. CASE readForUser(j) \/ readLiveWithToken(j)
  <2>1. UNCHANGED recent
    BY <1>1 DEF readForUser, readLiveWithToken, store
  <2> QED BY <1>1, <2>1, readForUserKeeps, readLiveWithTokenKeeps, RecentUnlinksNothing
<1>2. CASE postCached(j) \/ openDirectMessage(j) \/ postOpened(j)
  <2>1. UNCHANGED recent
    BY <1>2 DEF postCached, openDirectMessage, postOpened, store
  <2> QED BY <1>2, <2>1, postCachedKeeps, openDirectMessageKeeps, postOpenedKeeps, RecentUnlinksNothing
<1>3. CASE clearDmChannel(j) \/ cacheDmChannel(j)
  BY <1>3, clearDmChannelKeeps, cacheDmChannelKeeps, NothingUnlinked
<1>4. CASE markRevoked(j)
  <2>1. UNCHANGED recent
    BY <1>4 DEF markRevoked
  <2> QED BY <1>4, <2>1, markRevokedKeeps, RecentUnlinksNothing
<1>5. CASE deleteLink(j)
  <2>1. /\ SlackInv'
        /\ \A u \in Users, t \in Teams : Linked(u, t) /\ ~Linked(u, t)' => <<u, t>> \in left
    BY <1>5, deleteLinkKeeps
  <2> QED BY <2>1 DEF UnlinkedWithCause
<1> QED BY <1>1, <1>2, <1>3, <1>4, <1>5 DEF sendStep

LEMMA SlackNextInv == SlackInv /\ [SlackNext]_slackVars => SlackInv' /\ UnlinkedWithCause
<1> SUFFICES ASSUME SlackInv, [SlackNext]_slackVars PROVE SlackInv' /\ UnlinkedWithCause
  OBVIOUS
<1>1. ASSUME NEW c \in Connects, NEW u \in Users, NEW t \in Teams, NEW adds \in BOOLEAN, authorize(c, u, t, adds)
      PROVE  SlackInv' /\ UnlinkedWithCause
  <2>1. UNCHANGED recent
    BY <1>1 DEF authorize, store
  <2> QED BY <1>1, <2>1, authorizeKeeps, RecentUnlinksNothing
<1>2. ASSUME NEW c \in Connects, connectStep(c) PROVE SlackInv' /\ UnlinkedWithCause
  BY <1>2, connectStepKeeps
<1>3. ASSUME NEW d \in Deliveries, NEW u \in Users, deliver(d, u) PROVE SlackInv' /\ UnlinkedWithCause
  <2>1. UNCHANGED recent
    BY <1>3 DEF deliver, store
  <2> QED BY <1>3, <2>1, deliverKeeps, RecentUnlinksNothing
<1>4. ASSUME NEW j \in Jobs, sendStep(j) PROVE SlackInv' /\ UnlinkedWithCause
  BY <1>4, sendStepKeeps
<1>5. ASSUME NEW j \in Jobs, fails(j) PROVE SlackInv' /\ UnlinkedWithCause
  <2>1. UNCHANGED recent
    BY <1>5 DEF fails, store
  <2> QED BY <1>5, <2>1, failsKeeps, RecentUnlinksNothing
<1>6. ASSUME NEW e \in events, handle(e) PROVE SlackInv' /\ UnlinkedWithCause
  <2>1. UNCHANGED recent
    BY <1>6 DEF handle
  <2> QED BY <1>6, <2>1, handleKeeps, RecentUnlinksNothing
<1>7. ASSUME NEW r \in Teams, deleteForTeam(r) PROVE SlackInv' /\ UnlinkedWithCause
  <2>1. /\ SlackInv'
        /\ \A u \in Users, t \in Teams : Linked(u, t) /\ ~Linked(u, t)' => t \in died
    BY <1>7, deleteForTeamKeeps
  <2> QED BY <2>1 DEF UnlinkedWithCause
<1>8. ASSUME NEW v \in Users, disconnect(v) PROVE SlackInv' /\ UnlinkedWithCause
  <2>1. /\ SlackInv'
        /\ \A u \in Users, t \in Teams : Linked(u, t) /\ ~Linked(u, t)' => u = v
    BY <1>8, disconnectKeeps
  <2> QED BY <1>8, <2>1 DEF UnlinkedWithCause
<1>9. CASE Replaced
  <2>1. UNCHANGED recent
    BY <1>9 DEF Replaced, store
  <2> QED BY <1>9, <2>1, ReplacedKeeps, RecentUnlinksNothing
<1>10. CASE Slack
  <2>1. UNCHANGED recent
    BY <1>10 DEF Slack, store
  <2> QED BY <1>10, <2>1, SlackKeeps, RecentUnlinksNothing
<1>11. CASE UNCHANGED slackVars
  <2>1. UNCHANGED <<store, job, handling, slack, died, left, torn>>
    BY <1>11 DEF slackVars, history
  <2>2. UnlinkedWithCause
    BY <2>1, RecentUnlinksNothing DEF store
  <2>3. Remembers
    BY <2>1, RemembersAtRest DEF slack
  <2>4. LinksTyped' /\ issued' \in [Teams -> Nat] /\ job' \in [Jobs -> JobType]
    BY <2>1 DEF SlackInv, SlackTyped, LinksTyped, Linked, store, slack
  <2>5. JobsSound' /\ EventsSound'
    BY <2>1 DEF SlackInv, JobsSound, Sound, KnownAs, TokenOf, EventsSound, slack
  <2>6. OneOrTorn'
    BY <2>1 DEF SlackInv, OneOrTorn, links, Linked, store
  <2>7. SlackInv'
    BY <2>1, <2>3, <2>4, <2>5, <2>6, BesidesLinks
  <2> QED BY <2>2, <2>7
<1> HIDE DEF SlackInv
<1> QED BY <1>1, <1>2, <1>3, <1>4, <1>5, <1>6, <1>7, <1>8, <1>9, <1>10, <1>11 DEF SlackNext

THEOREM SlackInvariance == SlackSpec => []SlackInv
<1>1. SlackInv /\ [SlackNext]_slackVars => SlackInv'
  BY SlackNextInv
<1> QED BY SlackInitInv, <1>1, PTL DEF SlackSpec

\* Links and workspaces stay well formed, of any two links one is the later, and once a person's
\* authorizations are through there is one place at most that their pokes go to, whatever else
\* was writing links (upsert, dropOthers, readForUser).
THEOREM OnePlaceForPokes == SlackSpec => []LinksStandAlone
<1>1. SlackInv => LinksStandAlone
  BY DEF SlackInv, SlackTyped, OneOrTorn, LinksStandAlone, OneDestination
<1> QED BY SlackInvariance, <1>1, PTL

\* A workspace is taken for gone only if Slack ended it, and a link goes only with its workspace,
\* with a person who left, or by its owner's own act (markRevoked, handle, unlinks).
THEOREM LinksAreKept == SlackSpec => KeptUnless
<1>1. SlackInv /\ [SlackNext]_slackVars => SlackInv' /\ UnlinkedWithCause
  BY SlackNextInv
<1>2. SlackInv' => RevokedOnlyIfDied'
  BY DEF SlackInv
<1>3. SlackInv /\ [SlackNext]_slackVars => [RevokedOnlyIfDied' /\ UnlinkedWithCause]_slackVars
  BY <1>1, <1>2
<1> QED BY SlackInvariance, <1>3, PTL DEF SlackSpec, KeptUnless

=============================================================================
