------------------------------- MODULE Digest -------------------------------
(***************************************************************************)
(* The daily digest of one person: DigestService sweeps in every replica,     *)
(* UserWriteService.claimDigest takes the day, and saves of the settings that  *)
(* turn it on late take it too.                                              *)
(*                                                                           *)
(* Other people meet this one only in the sweep, which does not end before     *)
(* everybody in it is done; a pass is a sweep as far as this person goes.  A   *)
(* pass reads the clock and the row once, when it begins, and works from that  *)
(* through a call to GitHub to the claim.  What the digest lists is left out.  *)
(***************************************************************************)
EXTENDS Integers, Sequences, FiniteSets

CONSTANTS
    Replicas,
    Zones,       \* offsets from the clock
    Hours,       \* the hours somebody may choose
    NoZone,
    HoursPerDay,
    Start, MaxTime, \* the hours explored
    MaxLag,      \* hours a pass, or a save, may still be running after it began
    MaxSaves,    \* saves explored
    Worlds       \* what is explored together: the replicas there are, and what may happen:
                 \* "overlap" of a save with a pass, "crash", "database", "token"

ASSUME ZonesAssumption == Zones \subseteq Int /\ NoZone \notin Zones
ASSUME HoursAssumption == HoursPerDay \in Nat \ {0} /\ Hours \subseteq 0 .. HoursPerDay - 1
ASSUME BoundsAssumption ==
    /\ Start \in Int /\ MaxTime \in Int /\ Start <= MaxTime
    /\ MaxLag \in Nat /\ MaxSaves \in Nat
ASSUME WorldsAssumption ==
    Worlds \subseteq [replicas : SUBSET Replicas,
                      faults   : SUBSET {"overlap", "crash", "database", "token"}]

VARIABLES
    world,
    clock,
    row,      \* the person's row: enabled, hour, zone, sentOn, and whether it has a token
    passes,   \* sweeps under way: by whom, begun when, how far, and what they read of the row
    saves,    \* saves whose second write is still to come: by whom, and the day it takes
    saved,    \* how many saves there have been
    late,     \* days on which the digest was turned on with its hour gone by
    sent      \* digests posted

vars == <<world, clock, row, passes, saves, saved, late, sent>>

----------------------------------------------------------------------------
localMomentIn(zone, t) == [day |-> (t + zone) \div HoursPerDay, hour |-> (t + zone) % HoursPerDay]
NeverSent == -1

\* Mutant of isDue: the hour itself is not yet the hour.
isDue_After(target, t) ==
    LET moment == localMomentIn(target.zone, t)
    IN  moment.hour > target.hour /\ target.sentOn # moment.day

isDue(target, t) ==
    LET moment == localMomentIn(target.zone, t)
    IN  moment.hour >= target.hour /\ target.sentOn # moment.day

\* Whether readDigestTargets finds the row.
isTarget == row.enabled /\ row.token /\ row.zone # NoZone

Init ==
    /\ world \in Worlds
    /\ clock = Start
    /\ row \in [enabled: BOOLEAN, hour: Hours, zone: Zones \cup {NoZone}, sentOn: {NeverSent},
                token: {TRUE}]
    /\ passes = {}
    /\ saves = {}
    /\ saved = 0
    /\ late = {}
    /\ sent = <<>>

\* Unless the runs ask for the overlap, a save's two writes are one.
Settled == saves = {} \/ "overlap" \in world.faults

to(p, pc) == passes' = (passes \ {p}) \cup {[p EXCEPT !.pc = pc]}

\* Mutant of sweep: the timer begins another whatever is running.
sweep_Overlaps(r) ==
    /\ Settled
    /\ Cardinality(passes) < 3
    /\ passes' = passes \cup {[by |-> r, now |-> clock, pc |-> "read", target |-> row]}
    /\ UNCHANGED <<world, clock, row, saves, saved, late, sent>>

\* The timer fires; a replica has one sweep at a time.
sweep(r) ==
    /\ Settled
    /\ \A p \in passes : p.by # r
    /\ passes' = passes \cup {[by |-> r, now |-> clock, pc |-> "read", target |-> row]}
    /\ UNCHANGED <<world, clock, row, saves, saved, late, sent>>

readDigestTargets(p) ==
    /\ Settled
    /\ p.pc = "read"
    /\ passes' = (passes \ {p}) \cup
          {[p EXCEPT !.target = row,
                     !.pc = IF isTarget /\ isDue(row, p.now) THEN "refresh" ELSE "others"]}
    /\ UNCHANGED <<world, clock, row, saves, saved, late, sent>>

\* GitHub answers and the digest is built.
refresh(p) ==
    /\ Settled
    /\ p.pc = "refresh" /\ row.token
    /\ to(p, "claim")
    /\ UNCHANGED <<world, clock, row, saves, saved, late, sent>>

\* There is no token, GitHub does not answer, or it rejects the token, which is then cleared.
\* The day stays unclaimed.
refreshFails(p) ==
    /\ Settled
    /\ p.pc = "refresh"
    /\ to(p, "others")
    /\ \/ UNCHANGED row
       \/ "token" \in world.faults /\ row' = [row EXCEPT !.token = FALSE]
    /\ UNCHANGED <<world, clock, saves, saved, late, sent>>

dayOf(p) == localMomentIn(p.target.zone, p.now).day

\* Mutant of claimDigest: the row is not looked at again.
claimDigest_Unconditional(p) ==
    /\ Settled
    /\ p.pc = "claim"
    /\ row' = [row EXCEPT !.sentOn = dayOf(p)]
    /\ \/ to(p, "deliver") \/ to(p, "others")
    /\ UNCHANGED <<world, clock, saves, saved, late, sent>>

\* One conditional write takes the day; with nothing waiting, that is all.
claimDigest(p) ==
    /\ Settled
    /\ p.pc = "claim"
    /\ IF row.sentOn = dayOf(p)
       THEN to(p, "others") /\ UNCHANGED row
       ELSE /\ row' = [row EXCEPT !.sentOn = dayOf(p)]
            /\ \/ to(p, "deliver") \/ to(p, "others")
    /\ UNCHANGED <<world, clock, saves, saved, late, sent>>

\* Slack takes the digest or does not; either way the day is spent.
deliverDigest(p) ==
    /\ Settled
    /\ p.pc = "deliver"
    /\ to(p, "others")
    /\ \/ sent' = Append(sent, [day |-> dayOf(p), late |-> dayOf(p) \in late])
       \/ UNCHANGED sent
    /\ UNCHANGED <<world, clock, row, saves, saved, late>>

\* The row cannot be read or written: the sweep, or this person's part of it, is given up.
throws(p) ==
    /\ "database" \in world.faults
    /\ p.pc \in {"read", "refresh", "claim"}
    /\ to(p, "others")
    /\ UNCHANGED <<world, clock, row, saves, saved, late, sent>>

\* Everybody else in the sweep is done too.
sweepEnds(p) ==
    /\ p.pc = "others"
    /\ passes' = passes \ {p}
    /\ UNCHANGED <<world, clock, row, saves, saved, late, sent>>

\* Mutant of updatePokeSettings: turning the digest on takes no day.
updatePokeSettings_NoClaim(r, enabled, hour, zone) ==
    /\ Settled
    /\ saved < MaxSaves
    /\ saved' = saved + 1
    /\ row' = [row EXCEPT !.enabled = enabled, !.hour = hour, !.zone = zone]
    /\ late' = IF /\ enabled /\ ~row.enabled
                  /\ localMomentIn(zone, clock).hour >= hour
               THEN late \cup {localMomentIn(zone, clock).day} ELSE late
    /\ UNCHANGED <<world, clock, passes, saves, sent>>

\* A save replaces the settings; the one that turns the digest on, or first brings its zone,
\* goes on to take the day where the hour is over.  A browser always sends its zone.
updatePokeSettings(r, enabled, hour, zone) ==
    LET moment  == localMomentIn(zone, clock)
        takes   == /\ enabled
                   /\ ~row.enabled \/ row.zone = NoZone
                   /\ moment.hour >= hour
    IN  /\ Settled
        /\ saved < MaxSaves
        /\ saved' = saved + 1
        /\ row' = [row EXCEPT !.enabled = enabled, !.hour = hour, !.zone = zone]
        /\ saves' = IF takes THEN saves \cup {[by |-> r, now |-> clock, day |-> moment.day]}
                    ELSE saves
        /\ late' = IF takes /\ row.sentOn # moment.day THEN late \cup {moment.day} ELSE late
        /\ UNCHANGED <<world, clock, passes, sent>>

\* The second write of such a save, whatever the row has come to say.
claimDigestOnEnable(s) ==
    /\ s \in saves
    /\ saves' = saves \ {s}
    /\ row' = [row EXCEPT !.sentOn = s.day]
    /\ UNCHANGED <<world, clock, passes, saved, late, sent>>

\* A replica restarts, and with it everything it was in the middle of.
Crash(r) ==
    /\ "crash" \in world.faults
    /\ Settled
    /\ passes' = {p \in passes : p.by # r}
    /\ saves' = {s \in saves : s.by # r}
    /\ UNCHANGED <<world, clock, row, saved, late, sent>>

\* Signing in again brings a token back.
SignIn ==
    /\ Settled
    /\ row' = [row EXCEPT !.token = TRUE]
    /\ UNCHANGED <<world, clock, passes, saves, saved, late, sent>>

Tick ==
    /\ Settled
    /\ clock < MaxTime
    /\ \A job \in passes \cup saves : clock - job.now < MaxLag
    /\ clock' = clock + 1
    /\ UNCHANGED <<world, row, passes, saves, saved, late, sent>>

passStep(p) ==
    \/ readDigestTargets(p) \/ refresh(p) \/ refreshFails(p) \/ claimDigest(p)
    \/ deliverDigest(p) \/ throws(p) \/ sweepEnds(p)

Next ==
    \/ \E r \in world.replicas : sweep(r) \/ Crash(r)
    \/ \E p \in passes : passStep(p)
    \/ \E r \in world.replicas, enabled \in BOOLEAN, hour \in Hours, zone \in Zones :
          updatePokeSettings(r, enabled, hour, zone)
    \/ \E s \in saves : claimDigestOnEnable(s)
    \/ SignIn
    \/ Tick

Spec == Init /\ [][Next]_vars

\* The timer keeps firing, calls return, and GitHub does not fail every time.
FairSpec ==
    /\ Spec
    /\ WF_vars(Tick)
    /\ \A r \in Replicas : WF_vars(r \in world.replicas /\ sweep(r))
    /\ WF_vars(\E p \in passes : passStep(p))
    /\ SF_vars(\E p \in passes : refresh(p))
    /\ WF_vars(\E s \in saves : claimDigestOnEnable(s))

----------------------------------------------------------------------------
Days == {NeverSent} \cup {localMomentIn(zone, t).day : zone \in Zones, t \in Start .. MaxTime}

\* Every variable has its type; a replica is in one sweep at a time.
TypeOK ==
    /\ world \in Worlds
    /\ clock \in Start .. MaxTime
    /\ row \in [enabled: BOOLEAN, hour: Hours, zone: Zones \cup {NoZone}, sentOn: Days,
                token: BOOLEAN]
    /\ \A p \in passes : /\ p.by \in Replicas /\ p.now \in Start .. clock
                         /\ p.pc \in {"read", "refresh", "claim", "deliver", "others"}
                         /\ \A q \in passes : q.by = p.by => q = p
    /\ \A s \in saves : s.by \in Replicas /\ s.day \in Days

\* user-write.service.ts:224-228: "one digest per person per day", however many replicas sweep,
\* restart, or lag behind the clock.
OnePerDay == \A i, j \in DOMAIN sent : sent[i].day = sent[j].day => i = j

\* user-write.service.ts:272: "turning it on at four sends nothing at four": where turning the
\* digest on takes the day, no digest of that day follows.
LateOnWaits == \A i \in DOMAIN sent : ~sent[i].late

\* So it is as long as nothing comes between the two writes of a save, whatever restarts, lags
\* behind the clock or is saved again around them.
LateOnWaitsUndivided == "overlap" \notin world.faults => LateOnWaits

\* Nobody stays due while the database is there and nothing restarts: the hour having come, sweeps get to them in the end, though GitHub is out
\* for a while and however settings are saved meanwhile.
StillDue ==
    LET moment == localMomentIn(row.zone, clock)
    IN  isTarget /\ row.hour <= moment.hour /\ moment.day # row.sentOn

NobodyDueForever == world.faults \cap {"crash", "database"} = {} => []<>~StillDue

\* The rows and sweeps are what they can be, there is one digest a day, and none on a day it was turned on too late for, where no save is divided
\* (claimDigest, claimDigestOnEnable).
OncePerDayInTime == TypeOK /\ OnePerDay /\ LateOnWaitsUndivided
============================================================================
