---------------------------- MODULE Digest_proofs ----------------------------
(***************************************************************************)
(* One digest a day, for any replicas, hours, times and saves, of somebody who  *)
(* stays in one zone and whose hour is no nearer to midnight than a pass, or a   *)
(* save, may take.  Then a pass that claims late still claims no day before the   *)
(* one the row has, so that the days claimed only grow; without it, a pass that   *)
(* began before midnight gives back the day that another has claimed since.       *)
(***************************************************************************)
EXTENDS Digest, TLAPS

OneZone == \E z \in Int : Zones = {z} /\ Start + z >= 0
ClearOfMidnight == \A h \in Hours : MaxLag <= h

\* The day and the hour where the person is.
Here == CHOOSE z \in Zones : TRUE
dayAt(t)  == (t + Here) \div HoursPerDay
hourAt(t) == (t + Here) % HoursPerDay
----------------------------------------------------------------------------
LEMMA HereIs == OneZone => Zones = {Here} /\ Here \in Int /\ Start + Here >= 0
<1> SUFFICES ASSUME OneZone PROVE Zones = {Here} /\ Here \in Int /\ Start + Here >= 0
  OBVIOUS
<1>1. PICK z \in Int : Zones = {z} /\ Start + z >= 0
  BY DEF OneZone
<1>2. Here = z
  BY <1>1 DEF Here
<1> QED
  BY <1>1, <1>2

LEMMA Division ==
    ASSUME NEW t \in Int, NEW h \in Nat \ {0}
    PROVE  t \div h \in Int /\ t % h \in 0 .. h - 1 /\ t = h * (t \div h) + (t % h)
  OBVIOUS

LEMMA Growth ==
    ASSUME NEW h \in Nat \ {0}, NEW a \in Int, NEW b \in Int, NEW r \in 0 .. h - 1, h * a <= h * b + r
    PROVE  a <= b
<1> SUFFICES ASSUME b + 1 <= a PROVE FALSE
  OBVIOUS
<1>1. h * (b + 1) <= h * a
  OBVIOUS
<1>2. h * (b + 1) = h * b + h
  OBVIOUS
<1> QED
  BY <1>1, <1>2

LEMMA MomentIs ==
    ASSUME OneZone, NEW t \in Int, Start <= t
    PROVE  /\ dayAt(t) \in Nat /\ hourAt(t) \in 0 .. HoursPerDay - 1
           /\ t + Here = HoursPerDay * dayAt(t) + hourAt(t)
           /\ \A z \in Zones : localMomentIn(z, t).day = dayAt(t) /\ localMomentIn(z, t).hour = hourAt(t)
<1>1. Here \in Int /\ Zones = {Here} /\ t + Here \in Int /\ t + Here >= 0
  BY HereIs, BoundsAssumption
<1>2. HoursPerDay \in Nat \ {0}
  BY HoursAssumption
<1>3. /\ dayAt(t) \in Int /\ hourAt(t) \in 0 .. HoursPerDay - 1
      /\ t + Here = HoursPerDay * dayAt(t) + hourAt(t)
  BY <1>1, <1>2, Division DEF dayAt, hourAt
<1>4. 0 <= dayAt(t)
  <2>1. HoursPerDay * 0 <= HoursPerDay * dayAt(t) + hourAt(t)
    BY <1>1, <1>2, <1>3
  <2> QED
    BY <1>2, <1>3, <2>1, Growth
<1>5. \A z \in Zones : localMomentIn(z, t).day = dayAt(t) /\ localMomentIn(z, t).hour = hourAt(t)
  BY <1>1 DEF localMomentIn, dayAt, hourAt
<1> QED
  BY <1>3, <1>4, <1>5

\* The day of a moment whose hour is past the lag is over for nobody who began within the lag of it.
LEMMA NotBefore ==
    ASSUME OneZone, NEW t \in Int, NEW u \in Int, Start <= t, Start <= u,
           MaxLag <= hourAt(t), t - MaxLag <= u
    PROVE  dayAt(t) <= dayAt(u)
<1>1. HoursPerDay \in Nat \ {0} /\ MaxLag \in Nat /\ Here \in Int
  BY HoursAssumption, BoundsAssumption, HereIs
<1>2. /\ dayAt(t) \in Nat /\ hourAt(t) \in 0 .. HoursPerDay - 1
      /\ t + Here = HoursPerDay * dayAt(t) + hourAt(t)
  BY MomentIs
<1>3. /\ dayAt(u) \in Nat /\ hourAt(u) \in 0 .. HoursPerDay - 1
      /\ u + Here = HoursPerDay * dayAt(u) + hourAt(u)
  BY MomentIs
<1>4. PICK p \in Int, q \in Int : p = HoursPerDay * dayAt(t) /\ q = HoursPerDay * dayAt(u)
  BY <1>1, <1>2, <1>3
<1>5. p <= q + hourAt(u)
  BY <1>1, <1>2, <1>3, <1>4
<1> QED
  BY <1>1, <1>2, <1>3, <1>4, <1>5, Growth

----------------------------------------------------------------------------
RowType  == [enabled : BOOLEAN, hour : Hours, zone : Zones \cup {NoZone}, sentOn : Days, token : BOOLEAN]
PassType == [by : Replicas, now : Start .. MaxTime, pc : {"read", "refresh", "claim", "deliver", "others"},
             target : RowType]
SaveType == [by : Replicas, now : Start .. MaxTime, day : Days]

Typed ==
    /\ world \in Worlds /\ clock \in Start .. MaxTime /\ row \in RowType
    /\ passes \subseteq PassType /\ saves \subseteq SaveType /\ saved \in Nat /\ late \subseteq Days
    /\ sent \in Seq([day : Days, late : BOOLEAN])

OneSweepEach == \A p, q \in passes : q.by = p.by => q = p

\* What is under way began no longer ago than it may take.
Lately == \A job \in passes \cup saves : job.now <= clock /\ clock <= job.now + MaxLag

\* A pass goes on only with somebody whose hour had come when it began, and a save takes the day only then.
ComeWhenBegun ==
    /\ \A p \in passes : p.pc \in {"refresh", "claim", "deliver"} =>
           dayOf(p) = dayAt(p.now) /\ MaxLag <= hourAt(p.now)
    /\ \A s \in saves : s.day = dayAt(s.now) /\ MaxLag <= hourAt(s.now)

\* The day the row has is one whose hour has come.
ComeWhenTaken ==
    row.sentOn # NeverSent => \E t \in Start .. clock : dayAt(t) = row.sentOn /\ MaxLag <= hourAt(t)

\* What is posted, or about to be, is of a day that is taken, each of another.
EachOfItsOwn ==
    /\ \A i \in DOMAIN sent : sent[i].day <= row.sentOn
    /\ \A p \in passes : p.pc = "deliver" => dayOf(p) <= row.sentOn
    /\ \A p, q \in passes : p.pc = "deliver" /\ q.pc = "deliver" /\ dayOf(p) = dayOf(q) => p = q
    /\ \A p \in passes, i \in DOMAIN sent : p.pc = "deliver" => sent[i].day # dayOf(p)
    /\ OnePerDay

\* Where no save is divided, a day it was turned on too late for is taken before anything else is.
LateIsTaken ==
    /\ \A s, r \in saves : s = r
    /\ \A d \in late : d <= row.sentOn \/ \E s \in saves : s.day = d
    /\ \A p \in passes : p.pc = "deliver" => dayOf(p) \notin late
    /\ LateOnWaits

IInv ==
    /\ Typed /\ OneSweepEach /\ Lately /\ ComeWhenBegun /\ ComeWhenTaken /\ EachOfItsOwn
    /\ "overlap" \notin world.faults => LateIsTaken

----------------------------------------------------------------------------
LEMMA DaysAre ==
    OneZone => /\ Days \subseteq Int
               /\ \A t \in Start .. MaxTime : dayAt(t) \in Days
<1> SUFFICES ASSUME OneZone PROVE Days \subseteq Int /\ \A t \in Start .. MaxTime : dayAt(t) \in Days
  OBVIOUS
<1>1. \A t \in Start .. MaxTime, z \in Zones : localMomentIn(z, t).day = dayAt(t) /\ dayAt(t) \in Nat
  BY MomentIs, BoundsAssumption
<1>2. Zones = {Here}
  BY HereIs
<1> QED
  BY <1>1, <1>2 DEF Days, NeverSent

\* The row's day is none that is still to come for whoever began within the lag.
LEMMA TakenBefore ==
    ASSUME OneZone, IInv, NEW t \in Int, Start <= t, clock <= t + MaxLag
    PROVE  row.sentOn \in Int /\ dayAt(t) \in Nat /\ row.sentOn <= dayAt(t)
<1>1. row.sentOn \in Int /\ clock \in Int /\ MaxLag \in Nat
  BY DaysAre, BoundsAssumption DEF IInv, Typed, RowType
<1>2. dayAt(t) \in Nat
  BY MomentIs
<1>3. CASE row.sentOn = NeverSent
  BY <1>2, <1>3 DEF NeverSent
<1>4. CASE row.sentOn # NeverSent
  <2>1. PICK u \in Start .. clock : dayAt(u) = row.sentOn /\ MaxLag <= hourAt(u)
    BY <1>4 DEF IInv, ComeWhenTaken
  <2>2. u \in Int /\ Start <= u /\ u - MaxLag <= t
    BY <1>1, <2>1, BoundsAssumption
  <2> QED
    BY <1>1, <1>2, <2>1, <2>2, NotBefore
<1> QED
  BY <1>1, <1>2, <1>3, <1>4

LEMMA MomentOfJob ==
    ASSUME OneZone, IInv, NEW job \in passes \cup saves
    PROVE  /\ job.now \in Start .. MaxTime /\ job.now \in Int /\ Start <= job.now
           /\ job.now <= clock /\ clock <= job.now + MaxLag
           /\ dayAt(job.now) \in Days /\ row.sentOn \in Int /\ dayAt(job.now) \in Nat
           /\ row.sentOn <= dayAt(job.now)
<1>1. job.now \in Start .. MaxTime
  BY DEF IInv, Typed, PassType, SaveType
<1>2. job.now \in Int /\ Start <= job.now
  BY <1>1, BoundsAssumption
<1>3. job.now <= clock /\ clock <= job.now + MaxLag
  BY DEF IInv, Lately
<1> QED
  BY <1>1, <1>2, <1>3, TakenBefore, DaysAre

LEMMA SentDays == ASSUME OneZone, IInv PROVE \A i \in DOMAIN sent : sent[i].day \in Int
<1>1. sent \in Seq([day : Days, late : BOOLEAN])
  BY DEF IInv, Typed
<1>2. \A i \in DOMAIN sent : sent[i] \in [day : Days, late : BOOLEAN]
  <2>1. PICK Post : Post = [day : Days, late : BOOLEAN]
    OBVIOUS
  <2>2. sent \in Seq(Post)
    BY <1>1, <2>1, Zenon
  <2>3. \A i \in DOMAIN sent : sent[i] \in Post
    BY <2>2
  <2> QED
    BY <2>1, <2>3, Zenon
<1> QED
  BY <1>2, DaysAre
----------------------------------------------------------------------------
LEMMA InitIInv == OneZone /\ ClearOfMidnight /\ Init => IInv
<1> SUFFICES ASSUME OneZone, Init PROVE IInv
  OBVIOUS
<1>1. Typed
  <2>1. row \in RowType
    <3>1. NeverSent \in Days
      BY DEF Days
    <3>2. row \in [enabled: BOOLEAN, hour: Hours, zone: Zones \cup {NoZone}, sentOn: {NeverSent}, token: {TRUE}]
      BY DEF Init
    <3> QED
      BY <3>1, <3>2 DEF RowType
  <2>2. clock \in Start .. MaxTime
    BY BoundsAssumption DEF Init
  <2>3. sent \in Seq([day : Days, late : BOOLEAN])
    BY DEF Init
  <2> QED
    BY <2>1, <2>2, <2>3 DEF Init, Typed
<1>2. OneSweepEach /\ Lately /\ ComeWhenBegun /\ ComeWhenTaken
  BY DEF Init, OneSweepEach, Lately, ComeWhenBegun, ComeWhenTaken
<1>3. EachOfItsOwn /\ LateIsTaken
  BY DEF Init, EachOfItsOwn, OnePerDay, LateIsTaken, LateOnWaits
<1> QED
  BY <1>1, <1>2, <1>3 DEF IInv

\* A pass goes a step on and posts nothing.
LEMMA PassGoesOn ==
    ASSUME OneZone, IInv, NEW p \in passes, NEW m \in PassType,
           passes' = (passes \ {p}) \cup {m},
           m.by = p.by, m.now = p.now, m.pc # "deliver",
           m.pc \in {"refresh", "claim"} => dayOf(m) = dayAt(m.now) /\ MaxLag <= hourAt(m.now),
           row' \in RowType, row'.sentOn = row.sentOn,
           UNCHANGED <<world, clock, saves, saved, late, sent>>
    PROVE  IInv'
<1>1. Typed'
  BY DEF IInv, Typed
<1>2. OneSweepEach'
  BY DEF IInv, OneSweepEach
<1>3. Lately'
  <2>1. p.now <= clock /\ clock <= p.now + MaxLag
    BY DEF IInv, Lately
  <2> QED
    BY <2>1 DEF IInv, Lately
<1>4. ComeWhenBegun'
  BY DEF IInv, ComeWhenBegun
<1>5. ComeWhenTaken'
  BY DEF IInv, ComeWhenTaken
<1>6. EachOfItsOwn'
  <2>1. OnePerDay'
    BY DEF IInv, EachOfItsOwn, OnePerDay
  <2>2. \A q \in passes' : q.pc = "deliver" => q \in passes
    OBVIOUS
  <2> QED
    BY <2>1, <2>2 DEF IInv, EachOfItsOwn
<1>7. ASSUME "overlap" \notin world'.faults PROVE LateIsTaken'
  <2>1. LateIsTaken
    BY <1>7 DEF IInv
  <2>2. LateOnWaits'
    BY <2>1 DEF LateIsTaken, LateOnWaits
  <2>3. \A q \in passes' : q.pc = "deliver" => q \in passes
    OBVIOUS
  <2> QED
    BY <2>1, <2>2, <2>3 DEF LateIsTaken
<1> QED
  BY <1>1, <1>2, <1>3, <1>4, <1>5, <1>6, <1>7 DEF IInv

LEMMA Moved ==
    ASSUME Typed, NEW p \in passes, NEW pc \in {"read", "refresh", "claim", "deliver", "others"}, to(p, pc)
    PROVE  \E m \in PassType : /\ passes' = (passes \ {p}) \cup {m}
                               /\ m.by = p.by /\ m.now = p.now /\ m.pc = pc /\ dayOf(m) = dayOf(p)
<1>1. p \in PassType
  BY DEF Typed
<1>2. PICK m : m = [p EXCEPT !.pc = pc]
  OBVIOUS
<1>3. m \in PassType /\ m.by = p.by /\ m.now = p.now /\ m.pc = pc /\ m.target = p.target
  BY <1>1, <1>2 DEF PassType
<1>4. dayOf(m) = dayOf(p)
  BY <1>3 DEF dayOf
<1>5. passes' = (passes \ {p}) \cup {m}
  BY <1>2 DEF to
<1> QED
  BY <1>3, <1>4, <1>5

LEMMA PassMoves ==
    ASSUME OneZone, IInv, NEW p \in passes, NEW pc \in {"claim", "others"}, to(p, pc),
           pc = "claim" => p.pc = "refresh",
           row' \in RowType, row'.sentOn = row.sentOn,
           UNCHANGED <<world, clock, saves, saved, late, sent>>
    PROVE  IInv'
<1>1. PICK m \in PassType : /\ passes' = (passes \ {p}) \cup {m}
                            /\ m.by = p.by /\ m.now = p.now /\ m.pc = pc /\ dayOf(m) = dayOf(p)
  BY Moved DEF IInv
<1>2. m.pc \in {"refresh", "claim"} => dayOf(m) = dayAt(m.now) /\ MaxLag <= hourAt(m.now)
  BY <1>1 DEF IInv, ComeWhenBegun
<1> QED
  BY <1>1, <1>2, PassGoesOn

\* The day is taken: it comes after the day the row had, so nothing was posted of it yet.
LEMMA ClaimIInv ==
    ASSUME OneZone, IInv, NEW p \in passes, claimDigest(p)
    PROVE  IInv'
<1>1. CASE row.sentOn = dayOf(p)
  <2>1. to(p, "others") /\ UNCHANGED <<world, clock, row, saves, saved, late, sent>>
    BY <1>1 DEF claimDigest
  <2>2. row' \in RowType /\ row'.sentOn = row.sentOn
    BY <2>1 DEF IInv, Typed
  <2> QED
    BY <2>1, <2>2, PassMoves
<1>2. CASE row.sentOn # dayOf(p)
  <2>1. /\ p.pc = "claim" /\ Settled
        /\ row' = [row EXCEPT !.sentOn = dayOf(p)]
        /\ UNCHANGED <<world, clock, saves, saved, late, sent>>
    BY <1>2 DEF claimDigest
  <2>2. PICK pc \in {"deliver", "others"} : to(p, pc)
    BY <1>2 DEF claimDigest
  <2>3. PICK m \in PassType : /\ passes' = (passes \ {p}) \cup {m}
                              /\ m.by = p.by /\ m.now = p.now /\ m.pc = pc /\ dayOf(m) = dayOf(p)
    BY <2>2, Moved DEF IInv
  <2>4. dayOf(p) = dayAt(p.now) /\ MaxLag <= hourAt(p.now)
    BY <2>1 DEF IInv, ComeWhenBegun
  <2>5. /\ p.now \in Start .. MaxTime /\ p.now <= clock /\ clock <= p.now + MaxLag
        /\ dayOf(p) \in Days /\ row.sentOn \in Int /\ dayOf(p) \in Nat /\ row.sentOn <= dayOf(p)
    BY <2>4, MomentOfJob
  <2>6. row.sentOn < dayOf(p)
    BY <1>2, <2>5
  <2>7. row' \in RowType /\ row'.sentOn = dayOf(p)
    BY <2>1, <2>5 DEF IInv, Typed, RowType
  <2>8. Typed'
    BY <2>1, <2>3, <2>7 DEF IInv, Typed
  <2>9. OneSweepEach'
    BY <2>3 DEF IInv, OneSweepEach
  <2>10. Lately'
    BY <2>1, <2>3, <2>5 DEF IInv, Lately
  <2>11. ComeWhenBegun'
    BY <2>1, <2>3, <2>4 DEF IInv, ComeWhenBegun
  <2>12. ComeWhenTaken'
    <3>1. p.now \in Start .. clock
      BY <2>5, BoundsAssumption DEF IInv, Typed
    <3> QED
      BY <2>1, <2>4, <2>7, <3>1 DEF ComeWhenTaken
  <2>13. EachOfItsOwn'
    <3>1. \A i \in DOMAIN sent : sent[i].day < dayOf(p)
      BY <2>5, <2>6, SentDays DEF IInv, EachOfItsOwn
    <3>2. \A q \in passes : q.pc = "deliver" => dayOf(q) < dayOf(p) /\ dayOf(q) \in Int
      <4>1. ASSUME NEW q \in passes, q.pc = "deliver" PROVE dayOf(q) \in Int /\ dayOf(q) <= row.sentOn
        <5>1. dayOf(q) = dayAt(q.now)
          BY <4>1 DEF IInv, ComeWhenBegun
        <5> QED
          BY <4>1, <5>1, MomentOfJob DEF IInv, EachOfItsOwn
      <4> QED
        BY <2>5, <2>6, <4>1
    <3>3. OnePerDay'
      BY <2>1 DEF IInv, EachOfItsOwn, OnePerDay
    <3>4. \A i \in DOMAIN sent : sent[i].day <= dayOf(p)
      BY <2>5, <3>1, SentDays
    <3>5. \A q \in passes' : q.pc = "deliver" => q = m \/ (q \in passes /\ dayOf(q) < dayOf(p) /\ dayOf(q) \in Int)
      BY <2>3, <3>2
    <3>6. \A q \in passes' : q.pc = "deliver" => dayOf(q) <= dayOf(p)
      BY <2>3, <2>5, <3>5
    <3>7. \A q, r \in passes' : q.pc = "deliver" /\ r.pc = "deliver" /\ dayOf(q) = dayOf(r) => q = r
      BY <2>3, <2>5, <3>5 DEF IInv, EachOfItsOwn
    <3>8. \A q \in passes', i \in DOMAIN sent : q.pc = "deliver" => sent[i].day # dayOf(q)
      BY <2>3, <2>5, <3>1, <3>5 DEF IInv, EachOfItsOwn
    <3> QED
      BY <2>1, <2>7, <3>3, <3>4, <3>6, <3>7, <3>8 DEF EachOfItsOwn
  <2>14. ASSUME "overlap" \notin world'.faults PROVE LateIsTaken'
    <3>1. LateIsTaken /\ saves = {}
      BY <2>1, <2>14 DEF IInv, Settled
    <3>2. \A d \in late : d <= row.sentOn /\ d \in Int
      BY <3>1, DaysAre DEF LateIsTaken, IInv, Typed
    <3>3. dayOf(p) \notin late /\ \A d \in late : d <= dayOf(p)
      BY <2>5, <2>6, <3>2
    <3>4. LateOnWaits'
      BY <2>1, <3>1 DEF LateIsTaken, LateOnWaits
    <3> QED
      BY <2>1, <2>3, <2>7, <3>1, <3>3, <3>4 DEF LateIsTaken
  <2> QED
    BY <2>8, <2>9, <2>10, <2>11, <2>12, <2>13, <2>14 DEF IInv
<1> QED
  BY <1>1, <1>2

\* What is under way is given up, or done, and nothing of the day changes.
LEMMA LessIInv ==
    ASSUME OneZone, IInv, passes' \subseteq passes, saves' \subseteq saves,
           saves' = saves \/ Settled,
           row' \in RowType, row'.sentOn = row.sentOn,
           UNCHANGED <<world, clock, late, sent>>, saved' = saved
    PROVE  IInv'
<1>1. Typed'
  BY DEF IInv, Typed
<1>2. OneSweepEach' /\ Lately' /\ ComeWhenBegun'
  BY DEF IInv, OneSweepEach, Lately, ComeWhenBegun
<1>3. ComeWhenTaken'
  BY DEF IInv, ComeWhenTaken
<1>4. EachOfItsOwn'
  BY DEF IInv, EachOfItsOwn, OnePerDay
<1>5. ASSUME "overlap" \notin world'.faults PROVE LateIsTaken'
  <2>1. LateIsTaken
    BY <1>5 DEF IInv
  <2>2. saves' = saves
    BY <1>5 DEF Settled
  <2>3. LateOnWaits'
    BY <2>1 DEF LateIsTaken, LateOnWaits
  <2> QED
    BY <2>1, <2>2, <2>3 DEF LateIsTaken
<1> QED
  BY <1>1, <1>2, <1>3, <1>4, <1>5 DEF IInv

LEMMA SweepIInv ==
    ASSUME OneZone, IInv, NEW r \in Replicas, sweep(r)
    PROVE  IInv'
<1>1. PICK m : m = [by |-> r, now |-> clock, pc |-> "read", target |-> row]
  OBVIOUS
<1>2. m \in PassType /\ m.by = r /\ m.now = clock /\ m.pc = "read"
  BY <1>1 DEF PassType, IInv, Typed
<1>3. /\ \A p \in passes : p.by # r
      /\ passes' = passes \cup {m}
      /\ UNCHANGED <<world, clock, row, saves, saved, late, sent>>
  BY <1>1 DEF sweep
<1>4. Typed'
  BY <1>2, <1>3 DEF IInv, Typed
<1>5. OneSweepEach'
  BY <1>2, <1>3 DEF IInv, OneSweepEach
<1>6. Lately'
  <2>1. clock <= clock /\ clock <= clock + MaxLag
    BY BoundsAssumption DEF IInv, Typed
  <2> QED
    BY <1>2, <1>3, <2>1 DEF IInv, Lately
<1>7. ComeWhenBegun'
  BY <1>2, <1>3 DEF IInv, ComeWhenBegun
<1>8. ComeWhenTaken'
  BY <1>3 DEF IInv, ComeWhenTaken
<1>9. \A q \in passes' : q.pc = "deliver" => q \in passes
  BY <1>2, <1>3
<1>10. EachOfItsOwn'
  <2>1. OnePerDay'
    BY <1>3 DEF IInv, EachOfItsOwn, OnePerDay
  <2> QED
    BY <1>3, <1>9, <2>1 DEF IInv, EachOfItsOwn
<1>11. ASSUME "overlap" \notin world'.faults PROVE LateIsTaken'
  <2>1. LateIsTaken
    BY <1>3, <1>11 DEF IInv
  <2>2. LateOnWaits'
    BY <1>3, <2>1 DEF LateIsTaken, LateOnWaits
  <2> QED
    BY <1>3, <1>9, <2>1, <2>2 DEF LateIsTaken
<1> QED
  BY <1>4, <1>5, <1>6, <1>7, <1>8, <1>10, <1>11 DEF IInv

\* Whoever is due by what a pass reads has an hour that had come when the pass began.
LEMMA ReadIInv ==
    ASSUME OneZone, ClearOfMidnight, IInv, NEW p \in passes, readDigestTargets(p)
    PROVE  IInv'
<1>1. PICK m : m = [p EXCEPT !.target = row,
                             !.pc = IF isTarget /\ isDue(row, p.now) THEN "refresh" ELSE "others"]
  OBVIOUS
<1>2. p \in PassType /\ row \in RowType
  BY DEF IInv, Typed
<1>3. /\ m.by = p.by /\ m.now = p.now /\ m.target = row
      /\ m.pc = IF isTarget /\ isDue(row, p.now) THEN "refresh" ELSE "others"
  BY <1>1, <1>2 DEF PassType
<1>4. m \in PassType
  BY <1>1, <1>2, <1>3 DEF PassType
<1>5. passes' = (passes \ {p}) \cup {m} /\ UNCHANGED <<world, clock, row, saves, saved, late, sent>>
  BY <1>1 DEF readDigestTargets
<1>6. ASSUME isTarget, isDue(row, p.now) PROVE dayOf(m) = dayAt(m.now) /\ MaxLag <= hourAt(m.now)
  <2>1. row.zone \in Zones /\ row.hour \in Hours
    BY <1>2, <1>6 DEF isTarget, RowType
  <2>2. p.now \in Int /\ Start <= p.now
    BY MomentOfJob
  <2>3. localMomentIn(row.zone, p.now).day = dayAt(p.now) /\ localMomentIn(row.zone, p.now).hour = hourAt(p.now)
    BY <2>1, <2>2, MomentIs
  <2>4. row.hour <= hourAt(p.now) /\ hourAt(p.now) \in Int
    BY <1>6, <2>2, <2>3, MomentIs DEF isDue
  <2>5. MaxLag <= row.hour /\ row.hour \in Int /\ MaxLag \in Int
    <3>1. MaxLag <= row.hour
      BY <2>1 DEF ClearOfMidnight
    <3>2. \A h \in Hours : h \in Int
      BY HoursAssumption
    <3> QED
      BY <2>1, <3>1, <3>2, BoundsAssumption
  <2> QED
    BY <1>3, <2>3, <2>4, <2>5 DEF dayOf
<1>7. m.pc # "deliver" /\ (m.pc \in {"refresh", "claim"} => dayOf(m) = dayAt(m.now) /\ MaxLag <= hourAt(m.now))
  BY <1>3, <1>6
<1> QED
  BY <1>2, <1>3, <1>4, <1>5, <1>7, PassGoesOn

LEMMA DeliverIInv ==
    ASSUME OneZone, IInv, NEW p \in passes, deliverDigest(p)
    PROVE  IInv'
<1>1. CASE sent' = sent
  <2>1. to(p, "others") /\ UNCHANGED <<world, clock, row, saves, saved, late, sent>>
    BY <1>1 DEF deliverDigest
  <2>2. row' \in RowType /\ row'.sentOn = row.sentOn
    BY <2>1 DEF IInv, Typed
  <2> QED
    BY <2>1, <2>2, PassMoves
<1>2. CASE sent' = Append(sent, [day |-> dayOf(p), late |-> dayOf(p) \in late])
  <2>1. p.pc = "deliver" /\ to(p, "others") /\ UNCHANGED <<world, clock, row, saves, saved, late>>
    BY DEF deliverDigest
  <2>2. PICK m \in PassType : /\ passes' = (passes \ {p}) \cup {m}
                              /\ m.by = p.by /\ m.now = p.now /\ m.pc = "others"
    BY <2>1, Moved DEF IInv
  <2>3. PICK n \in Nat : n = Len(sent)
    BY DEF IInv, Typed
  <2>4. /\ DOMAIN sent = 1 .. n /\ DOMAIN sent' = 1 .. n + 1
        /\ \A i \in 1 .. n : sent'[i] = sent[i]
        /\ sent'[n + 1].day = dayOf(p) /\ sent'[n + 1].late = (dayOf(p) \in late)
    BY <1>2, <2>3 DEF IInv, Typed
  <2>5. dayOf(p) = dayAt(p.now) /\ dayOf(p) \in Days /\ dayOf(p) \in Int
    BY <2>1, MomentOfJob DEF IInv, ComeWhenBegun
  <2>6. sent' \in Seq([day : Days, late : BOOLEAN])
    <3>1. [day |-> dayOf(p), late |-> dayOf(p) \in late] \in [day : Days, late : BOOLEAN]
      BY <2>5
    <3> QED
      BY <1>2, <3>1 DEF IInv, Typed
  <2>7. Typed'
    BY <2>1, <2>2, <2>6 DEF IInv, Typed
  <2>8. OneSweepEach'
    BY <2>2 DEF IInv, OneSweepEach
  <2>9. Lately'
    <3>1. p.now <= clock /\ clock <= p.now + MaxLag
      BY DEF IInv, Lately
    <3> QED
      BY <2>1, <2>2, <3>1 DEF IInv, Lately
  <2>10. ComeWhenBegun'
    BY <2>1, <2>2 DEF IInv, ComeWhenBegun
  <2>11. ComeWhenTaken'
    BY <2>1 DEF IInv, ComeWhenTaken
  <2>12. \A q \in passes' : q.pc = "deliver" => q \in passes /\ q # p
    BY <2>2
  <2>13. \A q \in passes' : q.pc = "deliver" => dayOf(q) # dayOf(p)
    BY <2>1, <2>12 DEF IInv, EachOfItsOwn
  <2>14. EachOfItsOwn'
    <3>1. \A i \in 1 .. n : sent[i].day <= row.sentOn /\ sent[i].day # dayOf(p)
      BY <2>1, <2>4 DEF IInv, EachOfItsOwn
    <3>2. \A i \in 1 .. n + 1 : i \in 1 .. n \/ i = n + 1
      BY <2>3
    <3>3. \A i \in DOMAIN sent' : sent'[i].day <= row.sentOn
      BY <2>1, <2>4, <3>1, <3>2 DEF IInv, EachOfItsOwn
    <3>4. OnePerDay'
      <4>1. \A i, j \in 1 .. n : sent[i].day = sent[j].day => i = j
        BY <2>4 DEF IInv, EachOfItsOwn, OnePerDay
      <4> QED
        BY <2>4, <3>1, <3>2, <4>1 DEF OnePerDay
    <3>5. \A q \in passes', i \in DOMAIN sent' : q.pc = "deliver" => sent'[i].day # dayOf(q)
      BY <2>4, <2>12, <2>13, <3>2 DEF IInv, EachOfItsOwn
    <3>6. \A q, r \in passes' : q.pc = "deliver" /\ r.pc = "deliver" /\ dayOf(q) = dayOf(r) => q = r
      BY <2>12 DEF IInv, EachOfItsOwn
    <3>7. \A q \in passes' : q.pc = "deliver" => dayOf(q) <= row.sentOn
      BY <2>12 DEF IInv, EachOfItsOwn
    <3> QED
      BY <2>1, <3>3, <3>4, <3>5, <3>6, <3>7 DEF EachOfItsOwn
  <2>15. ASSUME "overlap" \notin world'.faults PROVE LateIsTaken'
    <3>1. LateIsTaken
      BY <2>1, <2>15 DEF IInv
    <3>2. \A i \in 1 .. n + 1 : i \in 1 .. n \/ i = n + 1
      BY <2>3
    <3>3. dayOf(p) \notin late
      BY <2>1, <3>1 DEF LateIsTaken
    <3>4. LateOnWaits'
      BY <2>4, <3>1, <3>2, <3>3 DEF LateIsTaken, LateOnWaits
    <3> QED
      BY <2>1, <2>12, <3>1, <3>4 DEF LateIsTaken
  <2> QED
    BY <2>7, <2>8, <2>9, <2>10, <2>11, <2>14, <2>15 DEF IInv
<1> QED
  BY <1>1, <1>2 DEF deliverDigest


\* A save takes the day only where its hour is gone, and it does so before another pass claims.
LEMMA SaveIInv ==
    ASSUME OneZone, ClearOfMidnight, IInv,
           NEW r \in Replicas, NEW enabled \in BOOLEAN, NEW hour \in Hours, NEW zone \in Zones,
           updatePokeSettings(r, enabled, hour, zone)
    PROVE  IInv'
<1>1. clock \in Int /\ Start <= clock /\ clock \in Start .. MaxTime /\ row \in RowType
  BY BoundsAssumption DEF IInv, Typed
<1>2. PICK moment : /\ moment = localMomentIn(zone, clock)
                    /\ moment.day = dayAt(clock) /\ moment.hour = hourAt(clock)
  BY <1>1, MomentIs
<1>3. PICK takes \in BOOLEAN : takes = (enabled /\ (~row.enabled \/ row.zone = NoZone) /\ moment.hour >= hour)
  OBVIOUS
<1>4. /\ Settled /\ saved' = saved + 1
      /\ row' = [row EXCEPT !.enabled = enabled, !.hour = hour, !.zone = zone]
      /\ saves' = IF takes THEN saves \cup {[by |-> r, now |-> clock, day |-> moment.day]} ELSE saves
      /\ late' = IF takes /\ row.sentOn # moment.day THEN late \cup {moment.day} ELSE late
      /\ UNCHANGED <<world, clock, passes, sent>>
  BY <1>2, <1>3 DEF updatePokeSettings
<1>5. row' \in RowType /\ row'.sentOn = row.sentOn
  BY <1>1, <1>4 DEF RowType
<1>6. dayAt(clock) \in Days /\ dayAt(clock) \in Int
  BY <1>1, DaysAre, MomentIs
<1>7. takes => MaxLag <= hourAt(clock)
  <2>1. MaxLag <= hour /\ MaxLag \in Int
    BY BoundsAssumption DEF ClearOfMidnight
  <2>2. \A h \in Hours : h \in Int
    BY HoursAssumption
  <2>3. hourAt(clock) \in Int
    BY <1>1, MomentIs
  <2>4. takes => moment.hour >= hour
    BY <1>3, Zenon
  <2> QED
    BY <1>2, <2>1, <2>2, <2>3, <2>4
<1>8. PICK new : new = [by |-> r, now |-> clock, day |-> moment.day]
  OBVIOUS
<1>9. new \in SaveType /\ new.now = clock /\ new.day = dayAt(clock)
  BY <1>1, <1>2, <1>6, <1>8 DEF SaveType
<1>10. saves' = IF takes THEN saves \cup {new} ELSE saves
  BY <1>4, <1>8
<1>11. Typed'
  <2>1. late' \subseteq Days
    BY <1>2, <1>4, <1>6 DEF IInv, Typed
  <2>2. saves' \subseteq SaveType /\ saved' \in Nat
    BY <1>4, <1>9, <1>10 DEF IInv, Typed
  <2> QED
    BY <1>4, <1>5, <2>1, <2>2 DEF IInv, Typed
<1>12. OneSweepEach'
  BY <1>4 DEF IInv, OneSweepEach
<1>13. Lately'
  <2>1. clock <= clock /\ clock <= clock + MaxLag
    BY <1>1, BoundsAssumption
  <2> QED
    BY <1>4, <1>9, <1>10, <2>1 DEF IInv, Lately
<1>14. ComeWhenBegun'
  BY <1>4, <1>7, <1>9, <1>10 DEF IInv, ComeWhenBegun
<1>15. ComeWhenTaken'
  BY <1>4, <1>5 DEF IInv, ComeWhenTaken
<1>16. EachOfItsOwn'
  <2>1. OnePerDay'
    BY <1>4 DEF IInv, EachOfItsOwn, OnePerDay
  <2> QED
    BY <1>4, <1>5, <2>1 DEF IInv, EachOfItsOwn
<1>17. ASSUME "overlap" \notin world'.faults PROVE LateIsTaken'
  <2>1. LateIsTaken /\ saves = {}
    BY <1>4, <1>17 DEF IInv, Settled
  <2>2. \A s, t \in saves' : s = t
    BY <1>10, <2>1
  <2>3. \A d \in late' : d <= row.sentOn \/ \E s \in saves' : s.day = d
    BY <1>2, <1>4, <1>9, <1>10, <2>1 DEF LateIsTaken
  <2>4. ASSUME NEW p \in passes, p.pc = "deliver", row.sentOn # dayAt(clock) PROVE dayOf(p) # dayAt(clock)
    <3>1. dayOf(p) <= row.sentOn
      BY <2>4 DEF IInv, EachOfItsOwn
    <3>2. row.sentOn \in Int /\ row.sentOn <= dayAt(clock)
      <4>1. clock <= clock + MaxLag
        BY <1>1, BoundsAssumption
      <4> QED
        BY <1>1, <4>1, TakenBefore
    <3> QED
      BY <1>6, <2>4, <3>1, <3>2
  <2>5. \A p \in passes' : p.pc = "deliver" => dayOf(p) \notin late'
    BY <1>2, <1>4, <2>1, <2>4 DEF LateIsTaken
  <2>6. LateOnWaits'
    BY <1>4, <2>1 DEF LateIsTaken, LateOnWaits
  <2> QED
    BY <1>5, <2>2, <2>3, <2>5, <2>6 DEF LateIsTaken
<1> QED
  BY <1>11, <1>12, <1>13, <1>14, <1>15, <1>16, <1>17 DEF IInv

\* The second write of a save takes a day that is no earlier than the row's.
LEMMA EnableIInv ==
    ASSUME OneZone, IInv, NEW s \in saves, claimDigestOnEnable(s)
    PROVE  IInv'
<1>1. /\ saves' = saves \ {s} /\ row' = [row EXCEPT !.sentOn = s.day]
      /\ UNCHANGED <<world, clock, passes, saved, late, sent>>
  BY DEF claimDigestOnEnable
<1>2. s.day = dayAt(s.now) /\ MaxLag <= hourAt(s.now)
  BY DEF IInv, ComeWhenBegun
<1>3. /\ s.now \in Start .. MaxTime /\ s.now <= clock
      /\ s.day \in Days /\ row.sentOn \in Int /\ s.day \in Int /\ row.sentOn <= s.day
  BY <1>2, MomentOfJob
<1>4. row' \in RowType /\ row'.sentOn = s.day
  BY <1>1, <1>3 DEF IInv, Typed, RowType
<1>5. Typed'
  BY <1>1, <1>4 DEF IInv, Typed
<1>6. OneSweepEach' /\ Lately' /\ ComeWhenBegun'
  BY <1>1 DEF IInv, OneSweepEach, Lately, ComeWhenBegun
<1>7. ComeWhenTaken'
  <2>1. s.now \in Start .. clock
    BY <1>3, BoundsAssumption DEF IInv, Typed
  <2> QED
    BY <1>1, <1>2, <1>4, <2>1 DEF ComeWhenTaken
<1>8. EachOfItsOwn'
  <2>1. OnePerDay'
    BY <1>1 DEF IInv, EachOfItsOwn, OnePerDay
  <2>2. \A i \in DOMAIN sent : sent[i].day <= s.day
    BY <1>3, SentDays DEF IInv, EachOfItsOwn
  <2>3. ASSUME NEW p \in passes, p.pc = "deliver" PROVE dayOf(p) <= s.day
    <3>1. dayOf(p) = dayAt(p.now) /\ dayOf(p) \in Int /\ dayOf(p) <= row.sentOn
      BY <2>3, MomentOfJob DEF IInv, ComeWhenBegun, EachOfItsOwn
    <3> QED
      BY <1>3, <3>1
  <2> QED
    BY <1>1, <1>4, <2>1, <2>2, <2>3 DEF IInv, EachOfItsOwn
<1>9. ASSUME "overlap" \notin world'.faults PROVE LateIsTaken'
  <2>1. LateIsTaken
    BY <1>1, <1>9 DEF IInv
  <2>2. \A d \in late : d \in Int
    BY DaysAre DEF IInv, Typed
  <2>3. \A d \in late : d <= row.sentOn \/ d = s.day
    BY <2>1 DEF LateIsTaken
  <2>4. \A d \in late : d <= s.day
    BY <1>3, <2>2, <2>3
  <2>5. LateOnWaits'
    BY <1>1, <2>1 DEF LateIsTaken, LateOnWaits
  <2> QED
    BY <1>1, <1>4, <2>1, <2>4, <2>5 DEF LateIsTaken
<1> QED
  BY <1>4, <1>5, <1>6, <1>7, <1>8, <1>9 DEF IInv

LEMMA TickIInv == ASSUME OneZone, IInv, Tick PROVE IInv'
<1>1. /\ clock' = clock + 1 /\ clock < MaxTime /\ \A job \in passes \cup saves : clock - job.now < MaxLag
      /\ UNCHANGED <<world, row, passes, saves, saved, late, sent>>
  BY DEF Tick
<1>2. clock \in Int /\ Start <= clock /\ clock' \in Start .. MaxTime
  BY <1>1, BoundsAssumption DEF IInv, Typed
<1>3. Typed'
  BY <1>1, <1>2 DEF IInv, Typed
<1>4. Lately'
  <2>1. \A job \in passes \cup saves : job.now <= clock + 1 /\ clock + 1 <= job.now + MaxLag
    <3>1. ASSUME NEW job \in passes \cup saves PROVE job.now <= clock + 1 /\ clock + 1 <= job.now + MaxLag
      <4>1. job.now \in Int /\ job.now <= clock /\ clock - job.now < MaxLag
        BY <1>1, MomentOfJob
      <4> QED
        BY <1>2, <4>1, BoundsAssumption
    <3> QED
      BY <3>1
  <2> QED
    BY <1>1, <2>1 DEF Lately
<1>5. OneSweepEach' /\ ComeWhenBegun'
  BY <1>1 DEF IInv, OneSweepEach, ComeWhenBegun
<1>6. ComeWhenTaken'
  <2>1. Start .. clock \subseteq Start .. clock'
    BY <1>1, <1>2, BoundsAssumption
  <2> QED
    BY <1>1, <2>1 DEF IInv, ComeWhenTaken
<1>7. EachOfItsOwn'
  BY <1>1 DEF IInv, EachOfItsOwn, OnePerDay
<1>8. ASSUME "overlap" \notin world'.faults PROVE LateIsTaken'
  BY <1>1, <1>8 DEF IInv, LateIsTaken, LateOnWaits
<1> QED
  BY <1>3, <1>4, <1>5, <1>6, <1>7, <1>8 DEF IInv
----------------------------------------------------------------------------
LEMMA PassStepIInv ==
    ASSUME OneZone, ClearOfMidnight, IInv, NEW p \in passes, passStep(p)
    PROVE  IInv'
<1>1. CASE readDigestTargets(p)
  BY <1>1, ReadIInv
<1>2. CASE refresh(p)
  <2>1. p.pc = "refresh" /\ to(p, "claim") /\ UNCHANGED <<world, clock, row, saves, saved, late, sent>>
    BY <1>2 DEF refresh
  <2>2. row' \in RowType /\ row'.sentOn = row.sentOn
    BY <2>1 DEF IInv, Typed
  <2> QED
    BY <2>1, <2>2, PassMoves
<1>3. CASE refreshFails(p)
  <2>1. to(p, "others") /\ UNCHANGED <<world, clock, saves, saved, late, sent>>
    BY <1>3 DEF refreshFails
  <2>2. row' = row \/ row' = [row EXCEPT !.token = FALSE]
    BY <1>3 DEF refreshFails
  <2>3. row' \in RowType /\ row'.sentOn = row.sentOn
    BY <2>2 DEF IInv, Typed, RowType
  <2> QED
    BY <2>1, <2>3, PassMoves
<1>4. CASE claimDigest(p)
  BY <1>4, ClaimIInv
<1>5. CASE deliverDigest(p)
  BY <1>5, DeliverIInv
<1>6. CASE throws(p)
  <2>1. to(p, "others") /\ UNCHANGED <<world, clock, row, saves, saved, late, sent>>
    BY <1>6 DEF throws
  <2>2. row' \in RowType /\ row'.sentOn = row.sentOn
    BY <2>1 DEF IInv, Typed
  <2> QED
    BY <2>1, <2>2, PassMoves
<1>7. CASE sweepEnds(p)
  <2>1. passes' \subseteq passes /\ UNCHANGED <<world, clock, row, saves, saved, late, sent>>
    BY <1>7 DEF sweepEnds
  <2>2. row' \in RowType /\ row'.sentOn = row.sentOn
    BY <2>1 DEF IInv, Typed
  <2> QED
    BY <2>1, <2>2, LessIInv
<1> QED
  BY <1>1, <1>2, <1>3, <1>4, <1>5, <1>6, <1>7 DEF passStep

LEMMA NextIInv == ASSUME OneZone, ClearOfMidnight, IInv, [Next]_vars PROVE IInv'
<1>1. world.replicas \subseteq Replicas
  BY WorldsAssumption DEF IInv, Typed
<1>2. row \in RowType
  BY DEF IInv, Typed
<1>3. ASSUME NEW r \in world.replicas, sweep(r) PROVE IInv'
  BY <1>1, <1>3, SweepIInv
<1>4. ASSUME NEW r \in world.replicas, Crash(r) PROVE IInv'
  <2>1. passes' \subseteq passes /\ saves' \subseteq saves /\ Settled /\ UNCHANGED <<world, clock, row, saved, late, sent>>
    BY <1>4 DEF Crash
  <2> QED
    BY <1>2, <2>1, LessIInv
<1>5. ASSUME NEW p \in passes, passStep(p) PROVE IInv'
  BY <1>5, PassStepIInv
<1>6. ASSUME NEW r \in world.replicas, NEW enabled \in BOOLEAN, NEW hour \in Hours, NEW zone \in Zones,
             updatePokeSettings(r, enabled, hour, zone)
      PROVE  IInv'
  BY <1>1, <1>6, SaveIInv
<1>7. ASSUME NEW s \in saves, claimDigestOnEnable(s) PROVE IInv'
  BY <1>7, EnableIInv
<1>8. CASE SignIn
  <2>1. row' = [row EXCEPT !.token = TRUE] /\ UNCHANGED <<world, clock, passes, saves, saved, late, sent>>
    BY <1>8 DEF SignIn
  <2>2. row' \in RowType /\ row'.sentOn = row.sentOn
    BY <1>2, <2>1 DEF RowType
  <2> QED
    BY <2>1, <2>2, LessIInv
<1>9. CASE Tick
  BY <1>9, TickIInv
<1>10. CASE UNCHANGED vars
  BY <1>2, <1>10, LessIInv DEF vars
<1> QED
  BY <1>3, <1>4, <1>5, <1>6, <1>7, <1>8, <1>9, <1>10 DEF Next

\* Days taken only grow, and what is posted is of a day that was taken for it: inductive for somebody who
\* stays in one zone with an hour clear of midnight.
THEOREM Invariance == OneZone /\ ClearOfMidnight => (Spec => []IInv)
<1> SUFFICES ASSUME OneZone, ClearOfMidnight PROVE Spec => []IInv
  OBVIOUS
<1>1. Init => IInv
  BY InitIInv
<1>2. IInv /\ [Next]_vars => IInv'
  BY NextIInv
<1> QED
  BY <1>1, <1>2, PTL DEF Spec

\* One digest a day, and none of a day it was turned on too late for, however many replicas sweep, crash
\* and lag, and however settings are saved meanwhile (claimDigest, claimDigestOnEnable).
THEOREM OnceADay == OneZone /\ ClearOfMidnight => (Spec => []OncePerDayInTime)
<1> SUFFICES ASSUME OneZone, ClearOfMidnight PROVE Spec => []OncePerDayInTime
  OBVIOUS
<1>1. IInv => OncePerDayInTime
  <2> SUFFICES ASSUME IInv PROVE OncePerDayInTime
    OBVIOUS
  <2>1. TypeOK
    <3>1. \A p \in passes : /\ p.by \in Replicas /\ p.now \in Start .. clock
                            /\ p.pc \in {"read", "refresh", "claim", "deliver", "others"}
      <4> SUFFICES ASSUME NEW p \in passes
                   PROVE  /\ p.by \in Replicas /\ p.now \in Start .. clock
                          /\ p.pc \in {"read", "refresh", "claim", "deliver", "others"}
        OBVIOUS
      <4>1. p \in PassType
        BY DEF IInv, Typed
      <4>2. p.now \in Start .. clock
        BY MomentOfJob, BoundsAssumption DEF IInv, Typed
      <4> QED
        BY <4>1, <4>2 DEF PassType
    <3>2. \A s \in saves : s.by \in Replicas /\ s.day \in Days
      BY DEF IInv, Typed, SaveType
    <3> QED
      BY <3>1, <3>2 DEF TypeOK, IInv, Typed, RowType, OneSweepEach
  <2>2. OnePerDay
    BY DEF IInv, EachOfItsOwn
  <2>3. LateOnWaitsUndivided
    BY DEF IInv, LateIsTaken, LateOnWaitsUndivided
  <2> QED
    BY <2>1, <2>2, <2>3 DEF OncePerDayInTime
<1> QED
  BY <1>1, Invariance, PTL

=============================================================================
