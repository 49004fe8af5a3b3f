---------------------- MODULE ListenReminder_proofs ----------------------
(***************************************************************************)
(* Once a week at most, for any people, processes, pool, week and lag.  What a  *)
(* claim leaves behind is its own age: whoever is in a sweep's hand was claimed  *)
(* exactly as long ago as the sweep has run, so no other sweep can find them      *)
(* owed, and the post before theirs is older than the claim before theirs, less    *)
(* the time a sweep takes.                                                       *)
(***************************************************************************)
EXTENDS ListenReminder, FiniteSetTheorems, TLAPS

\* What TypeOK leaves out: the sets are functions of the processes, what is in hand is finite, and
\* the flag that keeps one sweep a process is set as long as there is one.
Sets == /\ members \subseteq Users
        /\ todo \in [Processes -> SUBSET Users] /\ hand \in [Processes -> SUBSET Users]
        /\ \A p \in Processes : IsFiniteSet(hand[p]) /\ (~sweeping[p] => at[p] = "idle")

\* Whoever is in hand was claimed when the sweep began, by the sweep's own clock.
ClaimIsFresh == \A p \in Processes : \A u \in hand[p] : sent[u] = lag[p]
OneHand      == \A p, q \in Processes : \A u \in hand[p] : u \in hand[q] => p = q

\* A post follows its claim by no more than a sweep takes.
PostFollowsClaim ==
    \A u \in Users : told[u] # Never => sent[u] # Never /\ told[u] >= sent[u] - MaxLag

\* Whoever is in hand was last posted to about a week ago.
PostIsOld == \A p \in Processes : \A u \in hand[p] : told[u] = Never \/ told[u] >= Week - MaxLag

\* Whoever is read or in hand has been connected for a week, unless they connected anew.
LinkIsOld ==
    \A p \in Processes : \A u \in todo[p] \cup hand[p] : u \in moved \/ linked[u] >= Week

Claims == ClaimIsFresh /\ OneHand /\ PostFollowsClaim /\ PostIsOld

IInv == TypeOK /\ Sets /\ Claims /\ LinkIsOld

----------------------------------------------------------------------------
LEMMA InitIInv == Init => IInv
<1> SUFFICES ASSUME Init PROVE IInv
  OBVIOUS
<1> USE ConcurrencyAssumption, TimesAssumption, WorldsAssumption DEF Init
<1>1. Sets
  BY FS_EmptySet DEF Sets
<1>2. TypeOK
  BY FS_EmptySet, <1>1 DEF TypeOK, Ages, Never, Oldest, Sets
<1>3. Claims /\ LinkIsOld
  BY DEF Claims, ClaimIsFresh, OneHand, PostFollowsClaim, PostIsOld, LinkIsOld
<1> QED BY <1>1, <1>2, <1>3 DEF IInv

\* A sweep that begins, goes on or ends without claiming or posting: what it holds it held before,
\* and what it has still to get to it was to get to, or has just been read.
LEMMA SweepIInv ==
  ASSUME IInv, NEW p \in Processes,
         \/ sweep(p) \/ readUserIdsLinkedBy(p) \/ readSubscribedUserIds(p) \/ readListenReminderDue(p)
         \/ sweepFails(p) \/ sweepEnds(p) \/ Restart(p)
         \/ \E u \in Users : claimedAlready(p, u) \/ claimThrows(p, u)
  PROVE  IInv'
<1> USE ConcurrencyAssumption, TimesAssumption
<1>0. TypeOK /\ Sets
  BY DEF IInv
<1>1. /\ UNCHANGED <<people, sent, told>>
      /\ hand' = hand \/ hand' = [hand EXCEPT ![p] = {}]
  BY DEF sweep, readUserIdsLinkedBy, readSubscribedUserIds, readListenReminderDue, reads,
         sweepFails, sweepEnds, Restart, claimedAlready, claimThrows, people
<1>2. lag' = lag \/ (lag' = [lag EXCEPT ![p] = 0] /\ hand'[p] = {})
  BY <1>0 DEF sweep, readUserIdsLinkedBy, readSubscribedUserIds, readListenReminderDue, reads,
         sweepFails, sweepEnds, Restart, claimedAlready, claimThrows, TypeOK, Sets
<1>3. /\ todo' \in [Processes -> SUBSET Users]
      /\ \A q \in Processes : \A u \in todo'[q] : u \in todo[q] \/ linked[u] >= Week
  <2>1. CASE readUserIdsLinkedBy(p)
    BY <1>0, <2>1 DEF readUserIdsLinkedBy, reads, weekAgo, TypeOK, Sets, Ages, Never, Oldest
  <2>2. CASE readSubscribedUserIds(p) \/ readListenReminderDue(p)
    BY <1>0, <2>2 DEF readSubscribedUserIds, readListenReminderDue, reads, Sets
  <2>3. CASE sweep(p) \/ sweepEnds(p) \/ sweepFails(p) \/ Restart(p)
    BY <1>0, <2>3 DEF sweep, sweepEnds, sweepFails, Restart, Sets
  <2>4. CASE \E u \in Users : claimedAlready(p, u) \/ claimThrows(p, u)
    BY <1>0, <2>4 DEF claimedAlready, claimThrows, takes, Sets
  <2> QED BY <2>1, <2>2, <2>3, <2>4
<1>4. Sets'
  <2>1. \A q \in Processes : ~sweeping'[q] => at'[q] = "idle"
    BY <1>0 DEF sweep, readUserIdsLinkedBy, readSubscribedUserIds, readListenReminderDue, reads,
         sweepFails, sweepEnds, Restart, claimedAlready, claimThrows, TypeOK, Sets
  <2> QED BY <1>0, <1>1, <1>3, <2>1, FS_EmptySet DEF Sets, people
<1>5. TypeOK'
  <2>1. CASE sweep(p)
    BY <1>0, <2>1 DEF sweep, TypeOK, people, Sets
  <2>2. CASE readUserIdsLinkedBy(p) \/ readSubscribedUserIds(p) \/ readListenReminderDue(p)
    BY <1>0, <1>4, <2>2 DEF readUserIdsLinkedBy, readSubscribedUserIds, readListenReminderDue, reads, TypeOK, people, Sets
  <2>3. CASE sweepFails(p)
    BY <1>0, <2>3 DEF sweepFails, TypeOK, people, Sets
  <2>4. CASE sweepEnds(p)
    BY <1>0, <2>4 DEF sweepEnds, TypeOK, people, Sets
  <2>5. CASE Restart(p)
    BY <1>0, <2>5, FS_EmptySet DEF Restart, TypeOK, people, Sets
  <2>6. CASE \E u \in Users : claimedAlready(p, u) \/ claimThrows(p, u)
    BY <1>0, <2>6 DEF claimedAlready, claimThrows, takes, TypeOK, people, Sets
  <2> QED BY <2>1, <2>2, <2>3, <2>4, <2>5, <2>6
<1>6. \A q \in Processes : \A u \in hand'[q] : u \in hand[q] /\ lag'[q] = lag[q]
  BY <1>0, <1>1, <1>2 DEF Sets, TypeOK
<1>7. Claims'
  BY <1>1, <1>6 DEF IInv, Claims, ClaimIsFresh, OneHand, PostFollowsClaim, PostIsOld
<1>8. LinkIsOld'
  BY <1>1, <1>3, <1>6 DEF IInv, LinkIsOld, people
<1> QED BY <1>4, <1>5, <1>7, <1>8 DEF IInv

LEMMA ClaimIInv ==
  ASSUME IInv, NEW p \in Processes, NEW u \in Users, claimListenReminder(p, u)
  PROVE  IInv'
<1> USE ConcurrencyAssumption, TimesAssumption DEF claimListenReminder, takes
<1>0. TypeOK /\ Sets
  BY DEF IInv
<1>1. /\ sent[u] = Never \/ sent[u] >= Week + lag[p]
      /\ lag[p] \in 0 .. MaxLag /\ sent[u] \in Ages /\ told[u] \in Ages
  BY <1>0 DEF owed, weekAgo, TypeOK
<1>2. \A q \in Processes : u \notin hand[q]
  BY <1>0, <1>1 DEF IInv, Claims, ClaimIsFresh, TypeOK, Never
<1>3. told[u] = Never \/ told[u] >= Week - MaxLag
  BY <1>1 DEF IInv, Claims, PostFollowsClaim, Never, Ages, Oldest
<1>4. hand' = [hand EXCEPT ![p] = @ \cup {u}] /\ todo' = [todo EXCEPT ![p] = @ \ {u}]
      /\ sent' = [sent EXCEPT ![u] = lag[p]] /\ UNCHANGED <<people, told, sweeping, at, lag>>
  OBVIOUS
<1>5. /\ IsFiniteSet(hand[p]) /\ Cardinality(hand[p]) < Concurrency /\ u \notin hand[p]
      /\ hand'[p] = hand[p] \cup {u}
  BY <1>0, <1>2, <1>4 DEF Sets
<1>6. IsFiniteSet(hand'[p]) /\ Cardinality(hand'[p]) <= Concurrency
  <2>1. IsFiniteSet(hand[p] \cup {u}) /\ Cardinality(hand[p] \cup {u}) = Cardinality(hand[p]) + 1
    BY <1>5, FS_AddElement
  <2>2. Cardinality(hand[p]) \in Nat
    BY <1>5, FS_CardinalityType
  <2> QED BY <1>5, <2>1, <2>2
<1>7. Sets'
  BY <1>0, <1>4, <1>6 DEF Sets, people
<1>8. TypeOK'
  BY <1>0, <1>1, <1>4, <1>6 DEF TypeOK, people, Sets, Ages, Oldest
<1>9. Claims'
  <2>1. ClaimIsFresh'
    BY <1>0, <1>2, <1>4 DEF IInv, Claims, ClaimIsFresh, TypeOK, Sets
  <2>2. OneHand'
    BY <1>0, <1>2, <1>4 DEF IInv, Claims, OneHand, Sets
  <2>3. PostFollowsClaim'
    BY <1>0, <1>1, <1>4 DEF IInv, Claims, PostFollowsClaim, TypeOK, Ages, Never, Oldest
  <2>4. PostIsOld'
    BY <1>0, <1>3, <1>4 DEF IInv, Claims, PostIsOld, Sets
  <2> QED BY <2>1, <2>2, <2>3, <2>4 DEF Claims
<1>10. LinkIsOld'
  BY <1>0, <1>4 DEF IInv, LinkIsOld, people, Sets
<1> QED BY <1>7, <1>8, <1>9, <1>10 DEF IInv

\* A week that was won is let go of, with a post or without.
LEMMA PostIInv ==
  ASSUME IInv, NEW p \in Processes, NEW u \in Users, posts(p, u) \/ undeliverable(p, u)
  PROVE  IInv'
<1> USE ConcurrencyAssumption, TimesAssumption
<1>0. TypeOK /\ Sets
  BY DEF IInv
<1>1. /\ u \in hand[p] /\ hand' = [hand EXCEPT ![p] = @ \ {u}]
      /\ UNCHANGED <<people, sent, sweeping, at, todo, lag>>
      /\ told' = told \/ told' = [told EXCEPT ![u] = 0]
  BY DEF posts, undeliverable, lets
<1>2. sent[u] = lag[p] /\ lag[p] \in 0 .. MaxLag
  BY <1>0, <1>1 DEF IInv, Claims, ClaimIsFresh, TypeOK
<1>3. IsFiniteSet(hand'[p]) /\ Cardinality(hand'[p]) <= Concurrency
  <2>1. IsFiniteSet(hand[p]) /\ Cardinality(hand[p]) <= Concurrency /\ hand'[p] = hand[p] \ {u}
    BY <1>0, <1>1 DEF Sets, TypeOK
  <2>2. IsFiniteSet(hand'[p]) /\ Cardinality(hand'[p]) = Cardinality(hand[p]) - 1
    BY <1>1, <2>1, FS_RemoveElement
  <2>3. Cardinality(hand[p]) \in Nat
    BY <2>1, FS_CardinalityType
  <2> QED BY <2>1, <2>2, <2>3
<1>4. Sets'
  BY <1>0, <1>1, <1>3 DEF Sets, people
<1>5. TypeOK'
  BY <1>0, <1>1, <1>3 DEF TypeOK, people, Sets, Ages, Oldest
<1>6. Claims'
  <2>1. \A q \in Processes : u \notin hand'[q]
    BY <1>0, <1>1 DEF IInv, Claims, OneHand, Sets
  <2>2. ClaimIsFresh' /\ OneHand'
    BY <1>0, <1>1 DEF IInv, Claims, ClaimIsFresh, OneHand, Sets
  <2>3. PostFollowsClaim'
    BY <1>0, <1>1, <1>2 DEF IInv, Claims, PostFollowsClaim, TypeOK, Never
  <2>4. PostIsOld'
    BY <1>0, <1>1, <2>1 DEF IInv, Claims, PostIsOld, Sets, TypeOK
  <2> QED BY <2>2, <2>3, <2>4 DEF Claims
<1>7. LinkIsOld'
  BY <1>0, <1>1 DEF IInv, LinkIsOld, people, Sets
<1> QED BY <1>4, <1>5, <1>6, <1>7 DEF IInv

\* People: what they do moves no stamp, and a link that is made anew is known to be.
LEMMA PeopleIInv == ASSUME IInv, NEW u \in members, stop(u) \/ Changes(u) PROVE IInv'
<1> USE TimesAssumption
<1>0. TypeOK /\ Sets /\ u \in Users
  BY DEF IInv, Sets
<1>1. UNCHANGED <<members, sent, told, process>> /\ moved \subseteq moved'
      /\ (linked' = linked \/ (u \in moved' /\ linked' = [linked EXCEPT ![u] = IF @ = Never THEN 0 ELSE Never]))
  BY DEF stop, Changes, people
<1>2. TypeOK'
  BY <1>0, <1>1 DEF stop, Changes, TypeOK, process, Ages, Never, Oldest
<1>3. Sets' /\ Claims'
  BY <1>0, <1>1 DEF IInv, Sets, Claims, ClaimIsFresh, OneHand, PostFollowsClaim, PostIsOld, process
<1>4. LinkIsOld'
  BY <1>0, <1>1 DEF IInv, LinkIsOld, process, TypeOK, Sets
<1> QED BY <1>2, <1>3, <1>4 DEF IInv

\* How an age grows.
LEMMA Older ==
  ASSUME NEW age \in Ages
  PROVE  /\ older(age) \in Ages /\ (older(age) = Never <=> age = Never)
         /\ age # Never => older(age) >= age /\ older(age) <= age + 1
         /\ age # Never /\ age < Oldest => older(age) = age + 1
         /\ age # Never /\ age >= Oldest => older(age) = Oldest
BY TimesAssumption DEF older, Ages, Never, Oldest

LEMMA TickIInv == ASSUME IInv, Tick PROVE IInv'
<1> USE TimesAssumption DEF Tick
<1>0. TypeOK /\ Sets
  BY DEF IInv
<1>1. \A u \in Users : /\ linked[u] \in Ages /\ sent[u] \in Ages /\ told[u] \in Ages
                       /\ linked'[u] = older(linked[u]) /\ sent'[u] = older(sent[u]) /\ told'[u] = older(told[u])
  BY <1>0 DEF TypeOK
<1>2. \A p \in Processes : lag'[p] \in 0 .. MaxLag /\ lag[p] \in 0 .. MaxLag
                           /\ (at[p] # "idle" => lag'[p] = lag[p] + 1) /\ (at[p] = "idle" => lag'[p] = lag[p])
  BY <1>0 DEF TypeOK
<1>3. TypeOK'
  BY <1>0, <1>1, <1>2, Older DEF TypeOK
<1>4. Sets'
  BY <1>0 DEF Sets
<1>5. \A p \in Processes : \A u \in hand[p] : u \in Users /\ at[p] # "idle"
  BY <1>0 DEF TypeOK, Sets
<1>6. ClaimIsFresh' /\ OneHand'
  <2>1. ASSUME NEW p \in Processes, NEW u \in hand[p] PROVE sent'[u] = lag'[p]
    <3>1. sent[u] = lag[p] /\ lag'[p] = lag[p] + 1 /\ lag'[p] <= MaxLag /\ lag[p] >= 0
      BY <1>2, <1>5 DEF IInv, Claims, ClaimIsFresh
    <3>2. sent[u] # Never /\ sent[u] < Oldest
      BY <1>2, <3>1 DEF Never, Oldest
    <3> QED BY <1>1, <1>5, <3>1, <3>2, Older
  <2> QED BY <2>1 DEF IInv, Claims, ClaimIsFresh, OneHand
<1>7. PostFollowsClaim'
  <2>1. ASSUME NEW u \in Users, told'[u] # Never PROVE sent'[u] # Never /\ told'[u] >= sent'[u] - MaxLag
    <3>1. told[u] # Never /\ sent[u] # Never /\ told[u] >= sent[u] - MaxLag
      BY <1>1, <2>1, Older DEF IInv, Claims, PostFollowsClaim
    <3>2. sent'[u] # Never /\ sent'[u] <= sent[u] + 1 /\ sent'[u] \in 0 .. Oldest
      BY <1>1, <3>1, Older DEF Ages, Never
    <3>3. told'[u] = told[u] + 1 \/ told'[u] = Oldest
      BY <1>1, <3>1, Older DEF Ages, Never, Oldest
    <3> QED BY <1>1, <3>1, <3>2, <3>3 DEF Ages, Never, Oldest
  <2> QED BY <2>1 DEF PostFollowsClaim
<1>8. PostIsOld'
  <2>1. ASSUME NEW p \in Processes, NEW u \in hand[p] PROVE told'[u] = Never \/ told'[u] >= Week - MaxLag
    <3>1. told[u] = Never \/ told[u] >= Week - MaxLag
      BY DEF IInv, Claims, PostIsOld
    <3> QED BY <1>1, <1>5, <3>1, Older DEF Ages, Never, Oldest
  <2> QED BY <2>1 DEF PostIsOld
<1>9. LinkIsOld'
  <2>1. ASSUME NEW p \in Processes, NEW u \in todo[p] \cup hand[p] PROVE u \in moved \/ linked'[u] >= Week
    <3>1. u \in Users /\ (u \in moved \/ linked[u] >= Week)
      BY <1>0 DEF IInv, LinkIsOld, Sets
    <3> QED BY <1>1, <3>1, Older DEF Ages, Never, Oldest
  <2> QED BY <2>1 DEF LinkIsOld
<1> QED BY <1>3, <1>4, <1>6, <1>7, <1>8, <1>9 DEF IInv, Claims

LEMMA NextIInv == IInv /\ [Next]_vars => IInv'
<1> SUFFICES ASSUME IInv, [Next]_vars PROVE IInv'
  OBVIOUS
<1>1. ASSUME NEW p \in Processes, sweep(p) \/ sweepFails(p) \/ Restart(p) \/ \E u \in Users : claimThrows(p, u)
      PROVE  IInv'
  BY <1>1, SweepIInv
<1>2. ASSUME NEW p \in Processes, work(p) PROVE IInv'
  BY <1>2, SweepIInv, ClaimIInv, PostIInv DEF work
<1>3. ASSUME NEW u \in members, stop(u) \/ Changes(u) PROVE IInv'
  BY <1>3, PeopleIInv
<1>4. CASE Tick
  BY <1>4, TickIInv
<1>5. CASE UNCHANGED vars
  BY <1>5 DEF vars, people, process, IInv, TypeOK, Sets, Claims, ClaimIsFresh, OneHand,
              PostFollowsClaim, PostIsOld, LinkIsOld
<1> QED BY <1>1, <1>2, <1>3, <1>4, <1>5 DEF Next

----------------------------------------------------------------------------
\* The inductive invariant holds in every reachable state.
THEOREM Invariance == Spec => []IInv
BY InitIInv, NextIInv, PTL DEF Spec

\* Type correctness: a sweep holds nobody's week outside its pool, and no more than its workers.
THEOREM TypeCorrect == Spec => []TypeOK
<1>1. IInv => TypeOK
  BY DEF IInv
<1> QED BY Invariance, <1>1, PTL

\* However many processes sweep, crash and start over: sweeps hold what they should, nobody is
\* posted to twice within a week less a sweep, and nobody in the week after they connected.
THEOREM AtMostWeekly == Spec => SweepsWithinTheWeek
<1> DEFINE Weekly == \A p \in Processes, u \in Users :
                       posts(p, u) => /\ told[u] = Never \/ told[u] >= Week - MaxLag
                                      /\ u \in moved \/ linked[u] >= Week
<1>1. IInv => Weekly
  BY DEF IInv, Claims, PostIsOld, LinkIsOld, posts, lets
<1>2. IInv => [Weekly]_vars
  BY <1>1
<1> HIDE DEF Weekly
<1>3. Spec => [][Weekly]_vars
  BY Invariance, <1>2, PTL
<1>4. [][Weekly]_vars => OnceAWeek
  BY PTL DEF Weekly, OnceAWeek
<1> QED BY <1>3, <1>4, TypeCorrect, PTL DEF SweepsWithinTheWeek
==========================================================================
