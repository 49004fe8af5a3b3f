------------------------ MODULE Announcements_proofs ------------------------
(***************************************************************************)
(* What AnnouncementService promises for any replicas, users, list and number *)
(* of starts.  The inductive invariant says who holds a copy between its claim *)
(* and its post, what a pass knows of the audience, and what it has still to    *)
(* reach of it.                                                              *)
(***************************************************************************)
EXTENDS Announcements, TLAPS

\* Instants lie in the past, and a pass under way has one.
Clocks ==
    /\ \A u \in Users : linked[u] <= clock
    /\ \A a \in ANNOUNCEMENTS : startedAt[a] <= clock
    /\ \A r \in Replicas : began[r] <= clock
    /\ \A r \in Replicas : pc[r] \in {"start", "audience", "pool"} => began[r] # None
    /\ \A r \in Replicas : pc[r] \in {"audience", "pool"} => startedAt[at[r]] # None

\* A pass that is about to post a copy holds its claim, nobody has posted it, and nobody else
\* is about to.
Held(r, u) == hand[r][u] = "claimed"

ClaimsHeld ==
    /\ \A c \in Copies : posted[c] > 0 => c \in claimed
    /\ \A r \in Replicas, u \in Users :
          Held(r, u) => <<at[r], u>> \in claimed /\ posted[<<at[r], u>>] = 0
    /\ \A r, q \in Replicas, u \in Users :
          Held(r, u) /\ Held(q, u) /\ at[r] = at[q] => r = q
    /\ OneCopyEach

\* A pass gets to nobody but the invited, and whoever is in the audience is invited.
InvitedOnly ==
    /\ \A r \in Replicas, u \in Users :
          u \in audience[r] \/ Held(r, u) => u \in invited[at[r]]
    /\ \A a \in ANNOUNCEMENTS, u \in Users :
          startedAt[a] # None /\ linked[u] # None /\ linked[u] <= startedAt[a]
             => u \in invited[a]
    /\ \A a \in ANNOUNCEMENTS : invited[a] # {} => startedAt[a] # None
    /\ AudienceStands

\* Whoever is in the audience is still to be taken, or is claimed.
NobodyMissed ==
    /\ \A r \in Replicas, u \in Users :
          /\ pc[r] = "pool" /\ ~errored[r]
          /\ linked[u] # None /\ linked[u] <= startedAt[at[r]]
          => u \in audience[r] \/ <<at[r], u>> \in claimed
    /\ CompletedReachedAll
    /\ \A a \in completed : startedAt[a] # None

IInv == TypeOK /\ Clocks /\ ClaimsHeld /\ InvitedOnly /\ NobodyMissed

----------------------------------------------------------------------------
LEMMA InitIInv == Init => IInv
<1> SUFFICES ASSUME Init PROVE IInv
  OBVIOUS
<1>1. 1 \in ANNOUNCEMENTS /\ 0 \in 0 .. MaxStarts /\ 0 \in 0 .. MaxLinks
  BY CountsAssumption DEF ANNOUNCEMENTS
<1>2. linked \in [Users -> Nat] /\ \A u \in Users : linked[u] \in Nat /\ linked[u] <= 1
  BY DEF Init, None
<1> USE DEF Init, None
<1>3. TypeOK
  <2>1. at \in [Replicas -> ANNOUNCEMENTS] /\ began \in [Replicas -> Nat]
    BY <1>1
  <2>2. /\ startedAt \in [ANNOUNCEMENTS -> Nat] /\ invited \in [ANNOUNCEMENTS -> SUBSET Users]
        /\ posted \in [Copies -> Nat]
    OBVIOUS
  <2> QED
    BY <1>1, <1>2, <2>1, <2>2 DEF TypeOK
<1>4. Clocks
  BY <1>1, <1>2 DEF Clocks
<1>5. ClaimsHeld /\ InvitedOnly
  BY DEF ClaimsHeld, InvitedOnly, Held, OneCopyEach, AudienceStands, Copies
<1>6. NobodyMissed
  BY DEF NobodyMissed, CompletedReachedAll
<1> QED
  BY <1>3, <1>4, <1>5, <1>6 DEF IInv

\* Two passes' copies are the same only where announcement and user are.
LEMMA CopyOf == ASSUME TypeOK PROVE \A r \in Replicas, u \in Users : <<at[r], u>> \in Copies
  BY DEF TypeOK, Copies

----------------------------------------------------------------------------
\* A pass begins, or is replaced, or stops: it holds nothing before or after.

LEMMA RunIInv == ASSUME IInv, NEW r \in Replicas, run(r) PROVE IInv'
<1> USE CountsAssumption DEF IInv, run, ANNOUNCEMENTS, Copies, None, store, history
<1>1. TypeOK'
  <2>1. starts' \in 0 .. MaxStarts /\ clock' \in Nat /\ clock + 1 \in Nat /\ 1 \in 1 .. Announcements
    BY DEF TypeOK
  <2>2. /\ began' \in [Replicas -> Nat] /\ at' \in [Replicas -> 1 .. Announcements]
        /\ pc' \in [Replicas -> {"booted", "start", "audience", "pool", "ended", "stopped"}]
        /\ \A q \in Replicas : pc'[q] # "pool" => pc[q] # "pool"
    BY <2>1 DEF TypeOK
  <2> QED
    BY <2>1, <2>2 DEF TypeOK
<1>2. Clocks'
  BY DEF TypeOK, Clocks
<1>3. hand[r] = [u \in Users |-> hand[r][u]] /\ \A u \in Users : ~Held(r, u) /\ u \notin audience[r]
  BY DEF TypeOK, InHand, Held
<1>4. ClaimsHeld'
  <2>1. \A q \in Replicas, u \in Users : (Held(q, u)' <=> Held(q, u)) /\ (Held(q, u) => at'[q] = at[q])
    BY <1>3 DEF TypeOK, Held
  <2> QED
    BY <2>1 DEF ClaimsHeld, OneCopyEach
<1>5. InvitedOnly'
  BY <1>3 DEF TypeOK, InvitedOnly, Held, AudienceStands
<1>6. NobodyMissed'
  BY DEF TypeOK, NobodyMissed, CompletedReachedAll
<1> QED
  BY <1>1, <1>2, <1>4, <1>5, <1>6

LEMMA RestartIInv == ASSUME IInv, NEW r \in Replicas, Restart(r) PROVE IInv'
<1> USE CountsAssumption DEF IInv, Restart, ANNOUNCEMENTS, Copies, None, store, history, world
<1>1. TypeOK'
  <2>1. /\ began' \in [Replicas -> Nat] /\ at' \in [Replicas -> 1 .. Announcements]
        /\ pc' \in [Replicas -> {"booted", "start", "audience", "pool", "ended", "stopped"}]
        /\ audience' \in [Replicas -> SUBSET Users] /\ errored' \in [Replicas -> BOOLEAN]
        /\ hand' \in [Replicas -> [Users -> {"nothing", "claimed", "answered"}]]
    BY DEF TypeOK
  <2>2. \A q \in Replicas, u \in Users :
           pc'[q] # "pool" => u \notin audience'[q] /\ hand'[q][u] = "nothing"
    BY DEF TypeOK
  <2> QED
    BY <2>1, <2>2 DEF TypeOK
<1>2. Clocks'
  BY DEF TypeOK, Clocks
<1>3. ClaimsHeld'
  BY DEF TypeOK, ClaimsHeld, Held, OneCopyEach
<1>4. InvitedOnly'
  BY DEF TypeOK, InvitedOnly, Held, AudienceStands
<1>5. NobodyMissed'
  BY DEF TypeOK, NobodyMissed, CompletedReachedAll
<1> QED
  BY <1>1, <1>2, <1>3, <1>4, <1>5

LEMMA StopsIInv == ASSUME IInv, NEW r \in Replicas, stops(r) PROVE IInv'
<1> USE CountsAssumption
        DEF IInv, stops, poolEnds, ANNOUNCEMENTS, Copies, None, store, history, world
<1>1. TypeOK'
  BY DEF TypeOK, InHand
<1>2. Clocks'
  BY DEF TypeOK, Clocks
<1>3. ClaimsHeld'
  BY DEF TypeOK, ClaimsHeld, Held, OneCopyEach
<1>4. InvitedOnly'
  BY DEF TypeOK, InvitedOnly, Held, AudienceStands
<1>5. NobodyMissed'
  BY DEF TypeOK, NobodyMissed, CompletedReachedAll
<1> QED
  BY <1>1, <1>2, <1>3, <1>4, <1>5

----------------------------------------------------------------------------
\* A pass goes from one announcement to the next.

LEMMA StartIInv == ASSUME IInv, NEW r \in Replicas, start(r) PROVE IInv'
<1> USE DEF IInv, start, world
<1>1. /\ pc[r] = "start" /\ \A u \in Users : hand[r][u] = "nothing" /\ u \notin audience[r]
      /\ began[r] # None /\ began[r] \in Nat /\ began[r] <= clock /\ at[r] \in ANNOUNCEMENTS
  BY DEF TypeOK, Clocks
<1>2. /\ pc' \in [Replicas -> {"booted", "start", "audience", "pool", "ended", "stopped"}]
      /\ pc'[r] # "pool"
      /\ at' \in [Replicas -> ANNOUNCEMENTS]
      /\ \A q \in Replicas : q # r => pc'[q] = pc[q] /\ at'[q] = at[q]
      /\ pc'[r] = "audience" => at'[r] = at[r]
  <2>1. CASE at[r] \notin completed
    BY <1>1, <2>1 DEF TypeOK
  <2>2. CASE at[r] \in completed /\ at[r] < Announcements
    <3>1. at[r] + 1 \in ANNOUNCEMENTS
      BY <1>1, <2>2, CountsAssumption DEF ANNOUNCEMENTS
    <3>2. at' = [at EXCEPT ![r] = at[r] + 1] /\ pc' = [pc EXCEPT ![r] = "start"]
      BY <2>2 DEF goOn
    <3>3. at \in [Replicas -> ANNOUNCEMENTS]
          /\ pc \in [Replicas -> {"booted", "start", "audience", "pool", "ended", "stopped"}]
      BY DEF TypeOK
    <3> HIDE DEF IInv, start
    <3> QED
      BY <3>1, <3>2, <3>3
  <2>3. CASE at[r] \in completed /\ ~(at[r] < Announcements)
    BY <1>1, <2>3 DEF TypeOK, goOn
  <2> QED
    BY <2>1, <2>2, <2>3
<1>3. errored' \in [Replicas -> BOOLEAN] /\ \A q \in Replicas : q # r => errored'[q] = errored[q]
  BY DEF TypeOK
<1>4. UNCHANGED <<began, audience, hand, starts, completed, claimed, clock, linked, links, posted>>
  OBVIOUS
<1>5. /\ startedAt' \in [ANNOUNCEMENTS -> Nat]
      /\ startedAt'[at[r]] # None
      /\ \A a \in ANNOUNCEMENTS : startedAt'[a] # startedAt[a]
            => a = at[r] /\ startedAt[a] = None /\ startedAt'[a] = began[r]
  BY <1>1 DEF TypeOK
<1>6. /\ invited' \in [ANNOUNCEMENTS -> SUBSET Users]
      /\ \A a \in ANNOUNCEMENTS : invited'[a] # invited[a] => a = at[r] /\ startedAt[a] = None
      /\ startedAt[at[r]] = None
            => \A u \in Users : u \in invited'[at[r]] <=> linked[u] # None /\ linked[u] <= began[r]
  BY <1>1 DEF TypeOK, invite
<1>7. TypeOK'
  BY <1>1, <1>2, <1>3, <1>4, <1>5, <1>6 DEF TypeOK, ANNOUNCEMENTS, Copies
<1>8. Clocks'
  <2>1. \A a \in ANNOUNCEMENTS : startedAt'[a] <= clock
    BY <1>1, <1>5 DEF Clocks
  <2>2. \A q \in Replicas : pc'[q] \in {"start", "audience", "pool"} => began[q] # None
    BY <1>1, <1>2 DEF Clocks
  <2>3. \A q \in Replicas : pc'[q] \in {"audience", "pool"} => startedAt'[at'[q]] # None
    BY <1>2, <1>5 DEF Clocks, TypeOK
  <2> QED
    BY <1>4, <2>1, <2>2, <2>3 DEF Clocks, ANNOUNCEMENTS
<1>9. \A q \in Replicas, u \in Users :
         (Held(q, u)' <=> Held(q, u)) /\ (Held(q, u) \/ u \in audience[q]
             => q # r /\ at'[q] = at[q] /\ startedAt[at[q]] # None)
  BY <1>1, <1>2, <1>4 DEF TypeOK, Clocks, Held
<1>10. ClaimsHeld'
  BY <1>4, <1>9 DEF ClaimsHeld, OneCopyEach, Copies, ANNOUNCEMENTS
<1>11. InvitedOnly'
  <2>1. \A q \in Replicas, u \in Users :
           u \in audience[q] \/ Held(q, u)' => u \in invited'[at'[q]]
    BY <1>6, <1>9 DEF TypeOK, InvitedOnly
  <2>2. \A a \in ANNOUNCEMENTS, u \in Users :
           startedAt'[a] # None /\ linked[u] # None /\ linked[u] <= startedAt'[a]
             => u \in invited'[a]
    BY <1>1, <1>5, <1>6 DEF InvitedOnly
  <2>3. ASSUME NEW a \in ANNOUNCEMENTS, NEW u \in Users, posted[<<a, u>>] > 0
        PROVE  u \in invited'[a]
    <3>1. u \in invited[a]
      BY <2>3 DEF InvitedOnly, AudienceStands
    <3>2. CASE invited'[a] = invited[a]
      BY <3>1, <3>2
    <3>3. CASE invited'[a] # invited[a]
      BY <1>6, <3>1, <3>3 DEF InvitedOnly
    <3> QED
      BY <3>2, <3>3
  <2>4. \A a \in ANNOUNCEMENTS : invited'[a] # {} => startedAt'[a] # None
    BY <1>5, <1>6 DEF InvitedOnly
  <2> QED
    BY <1>4, <2>1, <2>2, <2>3, <2>4 DEF InvitedOnly, AudienceStands, ANNOUNCEMENTS
<1>12. NobodyMissed'
  <2>1. \A q \in Replicas : pc'[q] = "pool"
           => /\ pc[q] = "pool" /\ at'[q] = at[q] /\ errored'[q] = errored[q]
              /\ startedAt'[at'[q]] = startedAt[at[q]]
    BY <1>2, <1>3, <1>5 DEF Clocks, TypeOK
  <2>2. \A a \in completed : startedAt[a] # None /\ startedAt'[a] = startedAt[a]
    BY <1>5 DEF NobodyMissed, TypeOK
  <2> QED
    BY <1>4, <2>1, <2>2 DEF NobodyMissed, CompletedReachedAll
<1> QED
  BY <1>7, <1>8, <1>10, <1>11, <1>12

LEMMA AudienceIInv == ASSUME IInv, NEW r \in Replicas, readUserIdsLinkedBy(r) PROVE IInv'
<1> USE CountsAssumption
        DEF IInv, readUserIdsLinkedBy, ANNOUNCEMENTS, Copies, None, store, history, world
<1>1. TypeOK'
  BY DEF TypeOK, InHand
<1>2. Clocks'
  BY DEF TypeOK, Clocks
<1>3. ClaimsHeld'
  BY DEF TypeOK, ClaimsHeld, Held, OneCopyEach
<1>4. InvitedOnly'
  BY DEF TypeOK, Clocks, InvitedOnly, Held, AudienceStands
<1>5. NobodyMissed'
  BY DEF TypeOK, NobodyMissed, CompletedReachedAll
<1> QED
  BY <1>1, <1>2, <1>3, <1>4, <1>5

LEMMA CompleteIInv == ASSUME IInv, NEW r \in Replicas, complete(r) PROVE IInv'
<1> USE DEF IInv, complete, poolEnds, history, world
<1>1. /\ at[r] \in ANNOUNCEMENTS /\ pc[r] = "pool" /\ startedAt[at[r]] # None
      /\ \A u \in Users : hand[r][u] = "nothing" /\ u \notin audience[r]
  BY DEF TypeOK, InHand, Clocks
<1>2. /\ pc' \in [Replicas -> {"booted", "start", "audience", "pool", "ended", "stopped"}]
      /\ pc'[r] \in {"start", "ended"}
      /\ at' \in [Replicas -> ANNOUNCEMENTS]
      /\ \A q \in Replicas : q # r => pc'[q] = pc[q] /\ at'[q] = at[q]
  <2>1. CASE errored[r]
    BY <1>1, <2>1 DEF TypeOK
  <2>2. CASE ~errored[r] /\ at[r] < Announcements
    <3>1. at[r] + 1 \in ANNOUNCEMENTS
      BY <1>1, <2>2, CountsAssumption DEF ANNOUNCEMENTS
    <3>2. at' = [at EXCEPT ![r] = at[r] + 1] /\ pc' = [pc EXCEPT ![r] = "start"]
      BY <2>2 DEF goOn
    <3>3. at \in [Replicas -> ANNOUNCEMENTS]
          /\ pc \in [Replicas -> {"booted", "start", "audience", "pool", "ended", "stopped"}]
      BY DEF TypeOK
    <3> HIDE DEF IInv, complete
    <3> QED
      BY <3>1, <3>2, <3>3
  <2>3. CASE ~errored[r] /\ ~(at[r] < Announcements)
    BY <1>1, <2>3 DEF TypeOK, goOn
  <2> QED
    BY <2>1, <2>2, <2>3
<1>3. /\ completed' \subseteq completed \cup {at[r]}
      /\ completed' # completed => ~errored[r]
      /\ UNCHANGED <<began, audience, hand, errored, starts, startedAt, claimed, clock, linked, links,
                     invited, posted>>
  BY <1>1
<1>4. TypeOK'
  <2>1. \A q \in Replicas, u \in Users :
           pc'[q] # "pool" => u \notin audience'[q] /\ hand'[q][u] = "nothing"
    BY <1>1, <1>2, <1>3 DEF TypeOK
  <2>2. completed' \subseteq ANNOUNCEMENTS
    BY <1>1, <1>3 DEF TypeOK
  <2> QED
    BY <1>2, <1>3, <2>1, <2>2 DEF TypeOK, Copies
<1>5. Clocks'
  BY <1>1, <1>2, <1>3 DEF Clocks, ANNOUNCEMENTS
<1>6. \A q \in Replicas, u \in Users : Held(q, u)' <=> Held(q, u) /\ q # r
  BY <1>1, <1>3 DEF Held
<1>7. ClaimsHeld'
  BY <1>2, <1>3, <1>6 DEF ClaimsHeld, OneCopyEach, ANNOUNCEMENTS, Copies
<1>8. InvitedOnly'
  BY <1>1, <1>2, <1>3, <1>6 DEF InvitedOnly, AudienceStands, ANNOUNCEMENTS, Copies
<1>9. NobodyMissed'
  <2>1. \A q \in Replicas : pc'[q] = "pool" => q # r /\ pc[q] = "pool" /\ at'[q] = at[q]
    BY <1>2
  <2>2. \A a \in completed' : startedAt[a] # None
    BY <1>1, <1>3 DEF NobodyMissed
  <2>3. \A a \in completed', u \in Users :
           linked[u] # None /\ linked[u] <= startedAt[a] => <<a, u>> \in claimed
    BY <1>1, <1>3 DEF NobodyMissed, CompletedReachedAll
  <2> QED
    BY <1>3, <2>1, <2>2, <2>3 DEF NobodyMissed, CompletedReachedAll
<1> QED
  BY <1>4, <1>5, <1>7, <1>8, <1>9

----------------------------------------------------------------------------
\* One copy, between its claim and its record.

LEMMA ClaimIInv == ASSUME IInv, NEW r \in Replicas, NEW u \in Users, claim(r, u) PROVE IInv'
<1> USE DEF IInv, claim, takes, world, history
<1>1. <<at[r], u>> \in Copies /\ u \in audience[r] /\ pc[r] = "pool" /\ <<at[r], u>> \notin claimed
  BY CopyOf
<1>2. /\ hand' \in [Replicas -> [Users -> {"nothing", "claimed", "answered"}]]
      /\ \A q \in Replicas, v \in Users :
            hand'[q][v] = IF q = r /\ v = u THEN "claimed" ELSE hand[q][v]
  BY DEF TypeOK
<1>3. /\ audience' \in [Replicas -> SUBSET Users]
      /\ \A q \in Replicas, v \in Users :
            v \in audience'[q] <=> v \in audience[q] /\ ~(q = r /\ v = u)
  BY DEF TypeOK
<1>4. TypeOK'
  <2>1. \A q \in Replicas, v \in Users :
           pc'[q] # "pool" => v \notin audience'[q] /\ hand'[q][v] = "nothing"
    BY <1>1, <1>2, <1>3 DEF TypeOK
  <2>2. claimed' \subseteq Copies
    BY <1>1 DEF TypeOK
  <2> QED
    BY <1>2, <1>3, <2>1, <2>2 DEF TypeOK
<1>5. Clocks'
  BY DEF Clocks, ANNOUNCEMENTS
<1>6. ClaimsHeld'
  <2>1. posted[<<at[r], u>>] = 0 /\ \A c \in Copies : posted[c] \in Nat
    BY <1>1 DEF ClaimsHeld, TypeOK
  <2>2. \A q \in Replicas, v \in Users : Held(q, v) => <<at[q], v>> # <<at[r], u>>
    BY <1>1 DEF ClaimsHeld
  <2>3. \A q \in Replicas, v \in Users : Held(q, v)' <=> Held(q, v) \/ (q = r /\ v = u)
    BY <1>2 DEF Held
  <2>4. \A q \in Replicas, v \in Users :
           Held(q, v)' => <<at[q], v>> \in claimed' /\ posted[<<at[q], v>>] = 0
    BY <2>1, <2>3 DEF ClaimsHeld
  <2>5. \A q, p \in Replicas, v \in Users : Held(q, v)' /\ Held(p, v)' /\ at[q] = at[p] => q = p
    BY <2>2, <2>3 DEF ClaimsHeld
  <2> QED
    BY <2>4, <2>5 DEF ClaimsHeld, OneCopyEach, Copies, ANNOUNCEMENTS
<1>7. InvitedOnly'
  BY <1>1, <1>2, <1>3 DEF InvitedOnly, Held, AudienceStands, ANNOUNCEMENTS, Copies
<1>8. NobodyMissed'
  BY <1>1, <1>3 DEF NobodyMissed, CompletedReachedAll
<1> QED
  BY <1>4, <1>5, <1>6, <1>7, <1>8

LEMMA TakenIInv ==
    ASSUME IInv, NEW r \in Replicas, NEW u \in Users, claimedAlready(r, u) \/ claimThrows(r, u)
    PROVE  IInv'
<1> USE DEF IInv, takes, world, store, history
<1>1. /\ pc[r] = "pool" /\ u \in audience[r] /\ <<at[r], u>> \in Copies
      /\ audience' = [audience EXCEPT ![r] = @ \ {u}]
      /\ UNCHANGED <<pc, began, at, hand, starts, clock, linked, links, startedAt, completed, claimed,
                     invited, posted>>
  BY CopyOf DEF claimedAlready, claimThrows
<1>2. /\ audience' \in [Replicas -> SUBSET Users]
      /\ \A q \in Replicas, v \in Users :
            v \in audience'[q] <=> v \in audience[q] /\ ~(q = r /\ v = u)
  BY <1>1 DEF TypeOK
<1>3. /\ errored' \in [Replicas -> BOOLEAN]
      /\ \A q \in Replicas : ~errored'[q] => ~errored[q]
      /\ ~errored'[r] => <<at[r], u>> \in claimed
  <2>1. CASE claimedAlready(r, u)
    BY <2>1 DEF TypeOK, claimedAlready
  <2>2. CASE claimThrows(r, u)
    BY <1>1, <2>2 DEF TypeOK, claimThrows
  <2> QED
    BY <2>1, <2>2
<1>4. TypeOK'
  BY <1>1, <1>2, <1>3 DEF TypeOK, ANNOUNCEMENTS, Copies
<1>5. Clocks'
  BY <1>1 DEF Clocks, ANNOUNCEMENTS
<1>6. ClaimsHeld'
  BY <1>1 DEF ClaimsHeld, Held, OneCopyEach, Copies, ANNOUNCEMENTS
<1>7. InvitedOnly'
  BY <1>1, <1>2 DEF InvitedOnly, Held, AudienceStands, ANNOUNCEMENTS, Copies
<1>8. NobodyMissed'
  BY <1>1, <1>2, <1>3 DEF NobodyMissed, CompletedReachedAll
<1> QED
  BY <1>4, <1>5, <1>6, <1>7, <1>8

LEMMA DeliverIInv ==
    ASSUME IInv, NEW r \in Replicas, NEW u \in Users, deliverAnnouncement(r, u)
    PROVE  IInv'
<1> USE CountsAssumption DEF IInv, deliverAnnouncement, ANNOUNCEMENTS, Copies, None, store, world
<1>1. /\ <<at[r], u>> \in Copies /\ Held(r, u) /\ pc[r] = "pool"
      /\ <<at[r], u>> \in claimed /\ posted[<<at[r], u>>] = 0 /\ u \in invited[at[r]]
  BY DEF TypeOK, InHand, Held, ClaimsHeld, InvitedOnly
<1>2. /\ posted' \in [Copies -> Nat]
      /\ \A c \in Copies : posted'[c] = IF c = <<at[r], u>> THEN 1 ELSE posted[c]
      /\ \A q \in Replicas, v \in Users : Held(q, v)' <=> Held(q, v) /\ ~(q = r /\ v = u)
  <2>1. posted \in [Copies -> Nat] /\ posted' = [posted EXCEPT ![<<at[r], u>>] = @ + 1]
    BY DEF TypeOK
  <2>2. posted' \in [Copies -> Nat] /\ \A c \in Copies : posted'[c] = IF c = <<at[r], u>> THEN 1 ELSE posted[c]
    <3> HIDE DEF IInv, deliverAnnouncement, Copies
    <3> QED
      BY <1>1, <2>1
  <2>3. /\ hand \in [Replicas -> [Users -> {"nothing", "claimed", "answered"}]]
        /\ hand' = [hand EXCEPT ![r][u] = "answered"]
    BY DEF TypeOK
  <2> HIDE DEF IInv, deliverAnnouncement
  <2> QED
    BY <1>1, <2>2, <2>3 DEF Held
<1>3. TypeOK'
  <2>1. /\ hand' \in [Replicas -> [Users -> {"nothing", "claimed", "answered"}]]
        /\ \A q \in Replicas, v \in Users :
              pc'[q] # "pool" => v \notin audience'[q] /\ hand'[q][v] = "nothing"
    BY <1>1 DEF TypeOK
  <2> QED
    BY <1>2, <2>1 DEF TypeOK
<1>4. Clocks'
  BY DEF TypeOK, Clocks
<1>5. ClaimsHeld'
  <2>1. \A q \in Replicas, v \in Users : Held(q, v)' => <<at[q], v>> # <<at[r], u>>
    BY <1>1, <1>2 DEF ClaimsHeld
  <2>2. \A q \in Replicas, v \in Users : <<at[q], v>> \in Copies
    BY DEF TypeOK
  <2> QED
    BY <1>1, <1>2, <2>1, <2>2 DEF ClaimsHeld, OneCopyEach
<1>6. InvitedOnly'
  BY <1>1, <1>2 DEF TypeOK, InvitedOnly, AudienceStands
<1>7. NobodyMissed'
  BY DEF TypeOK, NobodyMissed, CompletedReachedAll
<1> QED
  BY <1>3, <1>4, <1>5, <1>6, <1>7

LEMMA LetGoIInv ==
    ASSUME IInv, NEW r \in Replicas, NEW u \in Users,
           undeliverable(r, u) \/ deliverThrows(r, u) \/ record(r, u)
    PROVE  IInv'
<1> USE DEF IInv, world, store, history
<1>1. /\ hand[r][u] # "nothing" /\ <<at[r], u>> \in Copies
      /\ UNCHANGED <<pc, began, at, audience, starts, clock, linked, links, startedAt, completed,
                     claimed, invited, posted>>
  BY CopyOf DEF undeliverable, deliverThrows, record
<1>2. pc[r] = "pool"
  BY <1>1 DEF TypeOK
<1>3. PICK x \in {"nothing", "answered"} : hand' = [hand EXCEPT ![r][u] = x]
  BY DEF undeliverable, deliverThrows, record
<1>4. /\ hand' \in [Replicas -> [Users -> {"nothing", "claimed", "answered"}]]
      /\ \A q \in Replicas, v \in Users :
            hand'[q][v] = IF q = r /\ v = u THEN x ELSE hand[q][v]
  BY <1>3 DEF TypeOK
<1>5. /\ errored' \in [Replicas -> BOOLEAN]
      /\ \A q \in Replicas : ~errored'[q] => ~errored[q]
  <2>1. CASE undeliverable(r, u)
    BY <2>1 DEF TypeOK, undeliverable
  <2>2. CASE deliverThrows(r, u)
    BY <1>1, <2>2 DEF TypeOK, deliverThrows
  <2>3. CASE record(r, u)
    BY <2>3 DEF TypeOK, record
  <2> QED
    BY <2>1, <2>2, <2>3
<1>6. TypeOK'
  <2>1. \A q \in Replicas, v \in Users :
           pc[q] # "pool" => v \notin audience[q] /\ hand'[q][v] = "nothing"
    BY <1>2, <1>4 DEF TypeOK
  <2> QED
    BY <1>1, <1>4, <1>5, <2>1 DEF TypeOK, ANNOUNCEMENTS, Copies
<1>7. Clocks'
  BY <1>1 DEF Clocks, ANNOUNCEMENTS
<1>8. \A q \in Replicas, v \in Users : Held(q, v)' => Held(q, v)
  BY <1>3, <1>4 DEF Held
<1>9. ClaimsHeld'
  BY <1>1, <1>8 DEF ClaimsHeld, OneCopyEach, Copies, ANNOUNCEMENTS
<1>10. InvitedOnly'
  BY <1>1, <1>8 DEF InvitedOnly, AudienceStands, ANNOUNCEMENTS, Copies
<1>11. NobodyMissed'
  BY <1>1, <1>5 DEF NobodyMissed, CompletedReachedAll
<1> QED
  BY <1>6, <1>7, <1>9, <1>10, <1>11

----------------------------------------------------------------------------
\* Users come and go.

LEMMA WorldIInv ==
    ASSUME IInv, NEW u \in Users, Connect(u) \/ Disconnect(u)
    PROVE  IInv'
<1> USE DEF IInv, store, pass, history, ANNOUNCEMENTS, Copies
<1>1. /\ UNCHANGED <<startedAt, completed, claimed, pc, began, at, audience, hand, errored, starts,
                     invited, posted>>
      /\ clock \in Nat /\ clock' \in Nat /\ clock <= clock'
      /\ links' \in 0 .. MaxLinks
  BY CountsAssumption DEF TypeOK, Connect, Disconnect
<1>2. PICK t \in Nat : linked' = [linked EXCEPT ![u] = t] /\ (t = None \/ (t = clock + 1 /\ clock' = t))
  <2>1. CASE Connect(u)
    <3>1. clock + 1 \in Nat /\ linked' = [linked EXCEPT ![u] = clock + 1] /\ clock' = clock + 1
      BY <2>1 DEF TypeOK, Connect
    <3> QED
      BY <3>1
  <2>2. CASE Disconnect(u)
    <3>1. None \in Nat
      BY DEF None
    <3>2. linked' = [linked EXCEPT ![u] = None]
      BY <2>2 DEF Disconnect
    <3> WITNESS None \in Nat
    <3> QED
      BY <3>2
  <2> QED
    BY <2>1, <2>2
<1>3. /\ linked' \in [Users -> Nat]
      /\ \A v \in Users : linked'[v] = linked[v] \/ linked'[v] = None \/ linked'[v] > clock
      /\ \A v \in Users : linked'[v] <= clock'
  BY <1>1, <1>2 DEF TypeOK, Clocks, None
<1>4. TypeOK'
  BY <1>1, <1>3 DEF TypeOK
<1>5. Clocks'
  <2>1. /\ \A a \in ANNOUNCEMENTS : startedAt[a] \in Nat /\ startedAt[a] <= clock
        /\ \A r \in Replicas : began[r] \in Nat /\ began[r] <= clock
    BY DEF TypeOK, Clocks
  <2>2. /\ \A a \in ANNOUNCEMENTS : startedAt[a] <= clock'
        /\ \A r \in Replicas : began[r] <= clock'
    BY <1>1, <2>1
  <2> QED
    BY <1>1, <1>3, <2>2 DEF Clocks
<1>6. ClaimsHeld'
  BY <1>1 DEF ClaimsHeld, Held, OneCopyEach
<1>7. \A a \in ANNOUNCEMENTS, v \in Users :
         linked'[v] # None /\ linked'[v] <= startedAt[a]
            => linked[v] # None /\ linked[v] <= startedAt[a]
  <2>1. \A a \in ANNOUNCEMENTS : startedAt[a] \in Nat /\ startedAt[a] <= clock
    BY DEF TypeOK, Clocks
  <2>2. \A v \in Users : linked'[v] \in Nat
    BY <1>3
  <2> QED
    BY <1>1, <1>3, <2>1, <2>2
<1>8. \A r \in Replicas : at[r] \in ANNOUNCEMENTS
  BY DEF TypeOK
<1>9. InvitedOnly'
  BY <1>1, <1>7 DEF InvitedOnly, Held, AudienceStands
<1>10. NobodyMissed'
  BY <1>1, <1>7, <1>8 DEF TypeOK, NobodyMissed, CompletedReachedAll
<1> QED
  BY <1>4, <1>5, <1>6, <1>9, <1>10

LEMMA NextIInv == IInv /\ [Next]_vars => IInv'
<1> SUFFICES ASSUME IInv, [Next]_vars PROVE IInv'
  OBVIOUS
<1>1. ASSUME NEW r \in Replicas, passStep(r) PROVE IInv'
  <2>1. ASSUME NEW u \in Users, copyStep(r, u) PROVE IInv'
    BY <2>1, ClaimIInv, TakenIInv, DeliverIInv, LetGoIInv DEF copyStep
  <2> QED
    BY <1>1, <2>1, RunIInv, StartIInv, AudienceIInv, CompleteIInv, StopsIInv DEF passStep
<1>2. CASE UNCHANGED vars
  BY <1>2 DEF IInv, TypeOK, Clocks, ClaimsHeld, InvitedOnly, NobodyMissed, Held, InHand,
              OneCopyEach, AudienceStands, CompletedReachedAll, vars, store, pass, world, history
<1> QED
  BY <1>1, <1>2, RestartIInv, WorldIInv DEF Next

THEOREM Invariance == Spec => []IInv
<1>1. Init => IInv
  BY InitIInv
<1>2. IInv /\ [Next]_vars => IInv'
  BY NextIInv
<1> QED
  BY <1>1, <1>2, PTL DEF Spec

----------------------------------------------------------------------------
\* Every variable keeps its type, and a pass has nothing in hand outside its pool.
THEOREM TypeCorrect == Spec => []TypeOK
<1>1. IInv => TypeOK
  BY DEF IInv
<1> QED
  BY <1>1, Invariance, PTL

\* Nobody is posted an announcement twice (announcement.service.ts:32-33).
THEOREM PostedAtMostOnce == Spec => []OneCopyEach
<1>1. IInv => OneCopyEach
  BY DEF IInv, ClaimsHeld
<1> QED
  BY <1>1, Invariance, PTL

\* Nobody who was not connected when the run began is posted it (announcement-run.entity.ts:7-9).
THEOREM AudienceIsFixed == Spec => []AudienceStands
<1>1. IInv => AudienceStands
  BY DEF IInv, InvitedOnly
<1> QED
  BY <1>1, Invariance, PTL

\* Whatever replicas, restarts and failures do, nobody gets a copy twice and nobody gets one who was
\* not connected when the run began (announcement.service.ts:32-33, announcement-run.entity.ts:7-9).
THEOREM OneCopyToTheInvitedHolds == Spec => []OneCopyToTheInvited
<1>1. TypeOK /\ OneCopyEach /\ AudienceStands => OneCopyToTheInvited
  BY DEF OneCopyToTheInvited
<1> QED
  BY <1>1, TypeCorrect, PostedAtMostOnce, AudienceIsFixed, PTL

\* A run that is complete has claimed a copy for everybody still in its audience
\* (announcement-run.entity.ts:11-12).
THEOREM CompletedMeansReached == Spec => []CompletedReachedAll
<1>1. IInv => CompletedReachedAll
  BY DEF IInv, NobodyMissed
<1> QED
  BY <1>1, Invariance, PTL
============================================================================
