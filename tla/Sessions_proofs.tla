--------------------------- MODULE Sessions_proofs ---------------------------
(***************************************************************************)
(* How long an access token may outlive its session, and who may be signed out    *)
(* by a 401, for any tabs, requests and times to live.  A token may be issued only   *)
(* while its row is there, a session that is over never has a row again, the        *)
(* copies a tab keeps grow old with the rows, and a retry is taken before it ages.   *)
(* And what an account stands on: whose a row is, and what a deletion has been       *)
(* through, whatever logins, deletions and writes are under way.                      *)
(***************************************************************************)
EXTENDS Sessions, Accounts, TLAPS

WorldType == [ticks : Nat, asks : Nat, logouts : Nat, pages : Nat, logins : SUBSET Sessions,
              faults : SUBSET {"network", "clock", "refuses"}]

RequestType == [at : {"idle", "waiting", "sent", "refused", "again"}, token : Tokens, retried : BOOLEAN]

\* What is not under way carries no token, and what was sent to be renewed carries one.
AtRestBlank ==
    /\ \A t \in Tabs : renewal[t].at = "none" => renewal[t].token = Blank
    /\ \A t \in Tabs : renewal[t].at = "sent" => renewal[t].token.session # None
    /\ \A t \in Tabs, q \in Requests : req[t][q].at = "idle" => req[t][q].token = Blank

\* A session that is over has no row, and its age is counted from there.
OverHasNoRow ==
    \A s \in Sessions : (row[s] > 0 => s \notin over) /\ (dead[s] # 0 => s \in over)

\* A session nobody has logged in to yet has left no trace.
NotYetIssued ==
    \A s \in world.logins : /\ s \notin over /\ s \notin revoking /\ row[s] = 0
                            /\ \A k \in copies : k.session # s

\* Whoever holds a token holds it of a session that is there, or is over.
NoneIsMadeUp == \A k \in copies : k.session = None \/ row[k.session] > 0 \/ k.session \in over

IInv ==
    /\ TypeOK /\ world \in WorldType
    /\ AtRestBlank /\ OverHasNoRow /\ NotYetIssued /\ NoneIsMadeUp
    /\ OutlivesByATtl
----------------------------------------------------------------------------
LEMMA CopyIs ==
    ASSUME NEW k
    PROVE  k \in copies <=> \/ \E t \in Tabs : k = tab[t]
                            \/ k = storage
                            \/ \E t \in Tabs : k = renewal[t].token
                            \/ \E t \in Tabs, q \in Requests : k = req[t][q].token
  BY DEF copies

LEMMA CopyTyped == TypeOK => \A k \in copies : k \in Tokens
<1> SUFFICES ASSUME TypeOK, NEW k \in copies PROVE k \in Tokens
  OBVIOUS
<1>1. CASE \E t \in Tabs : k = tab[t]
  BY <1>1 DEF TypeOK
<1>2. CASE k = storage
  BY <1>2 DEF TypeOK
<1>3. CASE \E t \in Tabs : k = renewal[t].token
  BY <1>3 DEF TypeOK
<1>4. CASE \E t \in Tabs, q \in Requests : k = req[t][q].token
  BY <1>4 DEF TypeOK
<1> QED
  BY <1>1, <1>2, <1>3, <1>4, CopyIs

LEMMA BlankTyped ==
    /\ Blank \in Tokens /\ Blank.session = None /\ Blank.left = 0 /\ None \notin Sessions
    /\ \A s \in Sessions : Fresh(s) \in Tokens /\ Fresh(s).session = s /\ Fresh(s) # Blank
  BY TtlAssumption, SessionsAssumption DEF Blank, Fresh, Tokens, None

LEMMA InitIInv == Init => IInv
<1> SUFFICES ASSUME Init PROVE IInv
  OBVIOUS
<1>1. /\ \A t \in Tabs : tab[t] = Blank /\ renewal[t] = NoRenewal
      /\ \A t \in Tabs, q \in Requests : req[t][q] = Resting
      /\ storage = Blank
  BY DEF Init
<1>2. NoRenewal.token = Blank /\ NoRenewal.at = "none" /\ Resting.token = Blank
  BY DEF NoRenewal, Resting
<1>3. \A k \in copies : k = Blank
  BY <1>1, <1>2, CopyIs
<1>4. TypeOK
  BY BlankTyped, TtlAssumption DEF Init, TypeOK, NoRenewal, Resting
<1>5. world \in WorldType
  BY WorldsAssumption DEF Init, WorldType
<1>6. AtRestBlank
  BY <1>1, <1>2 DEF AtRestBlank
<1>7. OverHasNoRow
  BY DEF Init, OverHasNoRow
<1>8. NotYetIssued
  BY <1>3, <1>5, BlankTyped DEF Init, NotYetIssued, WorldType
<1>9. OutlivesByATtl
  BY <1>3, BlankTyped DEF OutlivesByATtl
<1>10. NoneIsMadeUp
  BY <1>3, BlankTyped DEF NoneIsMadeUp
<1> QED
  BY <1>4, <1>5, <1>6, <1>7, <1>8, <1>9, <1>10 DEF IInv

\* A step that copies no token that was not there, and touches no row.
LEMMA KeepsIInv ==
    ASSUME IInv, TypeOK', AtRestBlank', world' \in WorldType, world'.logins \subseteq world.logins,
           UNCHANGED <<row, dead, over>>,
           \A k \in copies' : k \in copies \/ k = Blank,
           \A s \in revoking' : s \in revoking \/ \E k \in copies : k.session = s
    PROVE  IInv'
<1> USE DEF IInv
<1>1. OverHasNoRow'
  BY DEF OverHasNoRow
<1>2. NotYetIssued'
  <2>1. \A s \in world'.logins : s \in Sessions
    BY DEF WorldType
  <2> QED
    BY <2>1, BlankTyped DEF NotYetIssued
<1>3. OutlivesByATtl'
  BY BlankTyped DEF OutlivesByATtl
<1>4. NoneIsMadeUp'
  BY BlankTyped DEF NoneIsMadeUp
<1> QED
  BY <1>1, <1>2, <1>3, <1>4

LEMMA WorldSpent ==
    ASSUME world \in WorldType,
           \/ world' = world
           \/ world.ticks > 0 /\ world' = [world EXCEPT !.ticks = @ - 1]
           \/ world.asks > 0 /\ world' = [world EXCEPT !.asks = @ - 1]
           \/ world.logouts > 0 /\ world' = [world EXCEPT !.logouts = @ - 1]
           \/ world.pages > 0 /\ world' = [world EXCEPT !.pages = @ - 1]
    PROVE  world' \in WorldType /\ world'.logins = world.logins
  BY DEF WorldType

\* Where a tab is signed out, or left as it is: what it held goes to the server to be revoked.
LEMMA SignsOut ==
    ASSUME TypeOK, NEW t \in Tabs, NEW how \in {"user", "forced"}, logout(t, how) \/ staysSignedIn
    PROVE  /\ tab' \in [Tabs -> Tokens] /\ storage' \in Tokens
           /\ revoking' \subseteq Sessions /\ ended' \in [Tabs -> {"no", "user", "forced"}]
           /\ \A o \in Tabs : tab'[o] = tab[o] \/ tab'[o] = Blank
           /\ storage' = storage \/ storage' = Blank
           /\ \A s \in revoking' : s \in revoking \/ s = tab[t].session
<1>1. CASE staysSignedIn
  BY <1>1 DEF staysSignedIn, TypeOK
<1>2. CASE logout(t, how)
  <2>1. tab[t].session \in Sessions \cup {None}
    BY DEF TypeOK, Tokens
  <2>2. /\ tab' = [tab EXCEPT ![t] = Blank] /\ storage' = Blank
        /\ revoking' = IF tab[t].session = None THEN revoking ELSE revoking \cup {tab[t].session}
        /\ ended' \in [Tabs -> {"no", "user", "forced"}]
    BY <1>2 DEF logout, clearSession, TypeOK
  <2> QED
    BY <2>1, <2>2, BlankTyped DEF TypeOK
<1> QED
  BY <1>1, <1>2

\* What a tab's renewal may become when one is asked for.
LEMMA Renews ==
    ASSUME TypeOK, AtRestBlank, NEW t \in Tabs, renewal' \in {renewal, refreshSession(t)},
           renewal[t].at # "none" \/ tab[t].session # None
    PROVE  /\ renewal' \in [Tabs -> [at : {"none", "sent", "answered"}, token : Tokens]]
           /\ \A o \in Tabs : renewal'[o] = renewal[o] \/ (renewal'[o].token = tab[t] /\ renewal'[o].at = "sent"
                                                           /\ tab[t].session # None)
<1>1. CASE renewal' = renewal
  BY <1>1 DEF TypeOK
<1>2. CASE renewal' # renewal
  <2>1. /\ renewal' = [renewal EXCEPT ![t] = [at |-> "sent", token |-> tab[t]]]
        /\ renewal[t].at = "none"
    BY <1>2 DEF refreshSession
  <2>2. tab[t] \in Tokens /\ tab[t].session # None
    BY <2>1 DEF TypeOK
  <2> QED
    BY <2>1, <2>2 DEF TypeOK
<1> QED
  BY <1>1, <1>2

----------------------------------------------------------------------------
\* The server.

LEMMA RefreshIInv == ASSUME IInv, NEW t \in Tabs, refresh(t) PROVE IInv'
<1> USE DEF IInv
<1> DEFINE s == renewal[t].token.session
<1>1. s \in Sessions /\ renewal[t].at = "sent" /\ renewal[t] \in [at : {"none", "sent", "answered"}, token : Tokens]
  BY DEF refresh, AtRestBlank, TypeOK, Tokens
<1> DEFINE new == IF row[s] > 0 THEN Fresh(s) ELSE Blank
<1>2. /\ row' = IF row[s] > 0 THEN [row EXCEPT ![s] = RefreshTtl] ELSE row
      /\ renewal' = [renewal EXCEPT ![t] = [at |-> "answered", token |-> new]]
      /\ UNCHANGED <<world, dead, over, tab, storage, req, revoking, ended>>
  BY DEF refresh, redeem, answers
<1>3. new \in Tokens /\ (new = Blank \/ (row[s] > 0 /\ new = Fresh(s)))
  BY <1>1, BlankTyped
<1> HIDE DEF new
<1>4. /\ renewal' \in [Tabs -> [at : {"none", "sent", "answered"}, token : Tokens]]
      /\ \A o \in Tabs : renewal'[o] = renewal[o] \/ (renewal'[o].at = "answered" /\ renewal'[o].token = new)
  BY <1>2, <1>3 DEF TypeOK
<1>5. /\ row' \in [Sessions -> 0 .. RefreshTtl]
      /\ \A o \in Sessions : row'[o] = row[o] \/ (row[o] > 0 /\ o = s /\ row'[o] > 0)
  <2>1. CASE row[s] > 0
    <3>1. RefreshTtl \in 0 .. RefreshTtl /\ RefreshTtl > 0
      BY TtlAssumption
    <3> QED
      BY <1>1, <1>2, <2>1, <3>1 DEF TypeOK
  <2>2. CASE ~(row[s] > 0)
    BY <1>2, <2>2 DEF TypeOK
  <2> QED
    BY <2>1, <2>2
<1>6. TypeOK'
  BY <1>2, <1>4, <1>5 DEF TypeOK
<1>7. AtRestBlank'
  BY <1>2, <1>4 DEF AtRestBlank
<1>8. \A k \in copies' : k \in copies \/ k = new
  <2>1. SUFFICES ASSUME NEW k \in copies', k # new PROVE k \in copies
    OBVIOUS
  <2>2. \/ \E o \in Tabs : k = tab[o]
        \/ k = storage
        \/ \E o \in Tabs : k = renewal'[o].token
        \/ \E o \in Tabs, q \in Requests : k = req[o][q].token
    BY <1>2, <2>1 DEF copies
  <2> QED
    BY <1>4, <2>1, <2>2 DEF copies
<1>9. OverHasNoRow'
  BY <1>1, <1>2, <1>5 DEF OverHasNoRow
<1>10. \A o \in world.logins : o \in Sessions /\ o # s
  <2>1. renewal[t].token \in copies
    BY DEF copies
  <2> QED
    BY <2>1 DEF NotYetIssued, WorldType
<1>11. NotYetIssued'
  BY <1>2, <1>3, <1>5, <1>8, <1>10, BlankTyped, <1>1 DEF NotYetIssued
<1>12. OutlivesByATtl'
  <2>1. new = Blank \/ s \notin over
    BY <1>1, <1>3 DEF OverHasNoRow
  <2>2. new.session \in over => FALSE
    BY <1>1, <1>3, <2>1, BlankTyped DEF TypeOK
  <2> QED
    BY <1>2, <1>8, <2>2 DEF OutlivesByATtl
<1>13. NoneIsMadeUp'
  <2>1. SUFFICES ASSUME NEW k \in copies'
                 PROVE  k.session = None \/ row'[k.session] > 0 \/ k.session \in over
    BY <1>2 DEF NoneIsMadeUp
  <2>2. CASE k \in copies
    <3>1. k.session = None \/ k.session \in Sessions
      BY <2>2, CopyTyped DEF Tokens
    <3> QED
      BY <1>5, <2>2, <3>1 DEF NoneIsMadeUp
  <2>3. CASE k = Blank
    BY <2>3, BlankTyped
  <2>4. CASE row[s] > 0 /\ k = Fresh(s)
    BY <1>1, <1>5, <2>4, BlankTyped
  <2> QED
    BY <1>3, <1>8, <2>2, <2>3, <2>4
<1> QED
  BY <1>2, <1>6, <1>7, <1>9, <1>11, <1>12, <1>13

LEMMA RevokeIInv == ASSUME IInv, revoke PROVE IInv'
<1> USE DEF IInv
<1>1. PICK s \in revoking : /\ revoking' = revoking \ {s}
                            /\ row' = [row EXCEPT ![s] = 0] /\ over' = over \cup {s}
                            /\ UNCHANGED <<world, dead, tab, storage, renewal, req, ended>>
  BY DEF revoke
<1>2. s \in Sessions /\ s \notin world.logins
  BY DEF TypeOK, NotYetIssued
<1>3. row' \in [Sessions -> 0 .. RefreshTtl] /\ \A o \in Sessions : row'[o] = IF o = s THEN 0 ELSE row[o]
  BY <1>1, TtlAssumption DEF TypeOK
<1>4. TypeOK' /\ AtRestBlank'
  BY <1>1, <1>2, <1>3 DEF TypeOK, AtRestBlank
<1>5. copies' = copies
  BY <1>1 DEF copies
<1>6. OverHasNoRow'
  BY <1>1, <1>2, <1>3 DEF OverHasNoRow
<1>7. NotYetIssued'
  <2>1. \A o \in world.logins : o \in Sessions
    BY DEF WorldType
  <2> QED
    BY <1>1, <1>2, <1>3, <1>5, <2>1 DEF NotYetIssued
<1>8. OutlivesByATtl'
  <2>1. SUFFICES ASSUME NEW k \in copies, k.session \in over \cup {s}, k.left > 0
                 PROVE  k.left + dead[k.session] <= AccessTtl
    BY <1>1, <1>5 DEF OutlivesByATtl
  <2>2. CASE k.session \in over
    BY <2>1, <2>2 DEF OutlivesByATtl
  <2>3. CASE k.session \notin over
    <3>1. dead[s] = 0 /\ k.session = s
      BY <1>2, <2>1, <2>3 DEF OverHasNoRow
    <3>2. k.left \in 0 .. AccessTtl
      BY CopyTyped DEF Tokens
    <3> QED
      BY <3>1, <3>2, TtlAssumption
  <2> QED
    BY <2>2, <2>3
<1>9. NoneIsMadeUp'
  <2>1. \A k \in copies : k.session = None \/ k.session \in Sessions
    BY CopyTyped DEF Tokens
  <2> QED
    BY <1>1, <1>3, <1>5, <2>1 DEF NoneIsMadeUp
<1> QED
  BY <1>1, <1>4, <1>6, <1>7, <1>8, <1>9

LEMMA SignOutLostIInv == ASSUME IInv, signOutLost PROVE IInv'
<1> USE DEF IInv
<1>1. /\ revoking' \subseteq revoking
      /\ UNCHANGED <<world, row, dead, over, tab, storage, renewal, req, ended>>
  BY DEF signOutLost
<1>2. TypeOK' /\ AtRestBlank' /\ copies' = copies
  BY <1>1 DEF TypeOK, AtRestBlank, copies
<1> QED
  BY <1>1, <1>2, KeepsIInv

----------------------------------------------------------------------------
\* Time.

LEMMA Aged ==
    ASSUME NEW k \in Tokens
    PROVE  /\ aged(k) \in Tokens /\ aged(k).session = k.session
           /\ aged(k).left > 0 => aged(k).left = k.left - 1 /\ k.left > 0
<1>1. k.left \in 0 .. AccessTtl /\ (IF k.left > 0 THEN k.left - 1 ELSE 0) \in 0 .. AccessTtl
  BY TtlAssumption DEF Tokens
<1> QED
  BY <1>1 DEF aged, Tokens

LEMMA TickIInv == ASSUME IInv, Tick PROVE IInv'
<1> USE DEF IInv
<1>1. /\ world' \in WorldType /\ world'.logins = world.logins
      /\ UNCHANGED <<renewal, req, revoking, ended>>
  BY WorldSpent DEF Tick
<1>2. /\ \A t \in Tabs : tab'[t] = aged(tab[t]) /\ tab[t] \in Tokens
      /\ storage' = aged(storage) /\ storage \in Tokens
      /\ tab' \in [Tabs -> Tokens] /\ storage' \in Tokens
  BY Aged DEF Tick, TypeOK
<1>3. \A t \in Tabs : renewal[t].token = Blank /\ \A q \in Requests : req[t][q].token = Blank
  BY DEF Tick, AtRestBlank
<1>4. \A s \in Sessions : row[s] \in 0 .. RefreshTtl /\ dead[s] \in Nat
  BY DEF TypeOK
<1>5. /\ \A s \in Sessions : row'[s] = IF row[s] > 0 THEN row[s] - 1 ELSE 0
      /\ row' \in [Sessions -> 0 .. RefreshTtl]
  BY <1>4, TtlAssumption DEF Tick
<1>6. /\ \A s \in Sessions : dead'[s] = IF s \in over /\ dead[s] < AccessTtl THEN dead[s] + 1 ELSE dead[s]
      /\ dead' \in [Sessions -> Nat]
  BY <1>4 DEF Tick
<1>7. over' = over \cup {s \in Sessions : row[s] = 1} /\ over' \subseteq Sessions /\ over \subseteq Sessions
  BY DEF Tick, TypeOK
<1>8. TypeOK'
  BY <1>1, <1>2, <1>5, <1>6, <1>7 DEF TypeOK
<1>9. AtRestBlank'
  BY <1>1 DEF AtRestBlank
<1>10. \A k \in copies' : k = Blank \/ \E o \in copies : o \in Tokens /\ k = aged(o)
  <2>1. SUFFICES ASSUME NEW k \in copies' PROVE k = Blank \/ \E o \in copies : o \in Tokens /\ k = aged(o)
    OBVIOUS
  <2>2. \/ \E t \in Tabs : k = tab'[t]
        \/ k = storage'
        \/ \E t \in Tabs : k = renewal[t].token
        \/ \E t \in Tabs, q \in Requests : k = req[t][q].token
    BY <1>1 DEF copies
  <2>3. storage \in copies /\ \A t \in Tabs : tab[t] \in copies
    BY DEF copies
  <2> QED
    BY <1>2, <1>3, <2>2, <2>3
<1>11. OverHasNoRow'
  BY <1>4, <1>5, <1>6, <1>7 DEF OverHasNoRow
<1>12. NotYetIssued'
  <2>1. \A s \in world.logins : s \in Sessions
    BY DEF WorldType
  <2>2. \A k \in copies' : k.session = None \/ \E o \in copies : k.session = o.session
    BY <1>10, Aged, BlankTyped
  <2> QED
    BY <1>1, <1>5, <1>7, <2>1, <2>2, BlankTyped DEF NotYetIssued
<1>13. OutlivesByATtl'
  <2>1. SUFFICES ASSUME NEW k \in copies', k.session \in over', k.left > 0
                 PROVE  k.left + dead'[k.session] <= AccessTtl
    BY DEF OutlivesByATtl
  <2>2. PICK o \in copies : o \in Tokens /\ k = aged(o)
    BY <1>10, <2>1, BlankTyped
  <2>3. /\ k.session = o.session /\ k.left = o.left - 1 /\ o.left > 0
        /\ o.left \in 0 .. AccessTtl /\ k.session \in Sessions
    BY <1>7, <2>1, <2>2, Aged DEF Tokens
  <2>4. CASE k.session \in over
    <3>1. o.left + dead[k.session] <= AccessTtl
      BY <2>3, <2>4 DEF OutlivesByATtl
    <3> QED
      BY <1>4, <1>6, <2>3, <3>1, TtlAssumption
  <2>5. CASE k.session \notin over
    <3>1. dead'[k.session] = 0
      BY <1>6, <2>3, <2>5 DEF OverHasNoRow
    <3> QED
      BY <2>3, <3>1, TtlAssumption
  <2> QED
    BY <2>4, <2>5
<1>14. NoneIsMadeUp'
  <2>1. SUFFICES ASSUME NEW o \in copies, o.session \in Sessions
                 PROVE  row'[o.session] > 0 \/ o.session \in over'
    <3>1. \A k \in copies' : k.session = None \/ \E o \in copies : o \in Tokens /\ k.session = o.session
      BY <1>10, Aged, BlankTyped
    <3> QED
      BY <3>1 DEF NoneIsMadeUp, Tokens
  <2>2. CASE o.session \in over
    BY <1>7, <2>2
  <2>3. CASE row[o.session] > 0
    BY <1>4, <1>5, <1>7, <2>1, <2>3
  <2> QED
    BY <2>1, <2>2, <2>3, BlankTyped DEF NoneIsMadeUp
<1> QED
  BY <1>1, <1>8, <1>9, <1>11, <1>12, <1>13, <1>14

----------------------------------------------------------------------------
\* A tab.

\* Whatever a tab does with what it already holds.
LEMMA TabIInv ==
    ASSUME IInv, NEW t \in Tabs, world' \in WorldType, world'.logins \subseteq world.logins,
           UNCHANGED <<row, dead, over>>,
           tab' \in [Tabs -> Tokens], storage' \in Tokens, revoking' \subseteq Sessions,
           ended' \in [Tabs -> {"no", "user", "forced"}],
           renewal' \in [Tabs -> [at : {"none", "sent", "answered"}, token : Tokens]],
           req' \in [Tabs -> [Requests -> [at : {"idle", "waiting", "sent", "refused", "again"},
                                           token : Tokens, retried : BOOLEAN]]],
           \A o \in Tabs : tab'[o] \in copies \cup {Blank},
           storage' \in copies \cup {Blank},
           \A o \in Tabs : /\ renewal'[o].token \in copies \cup {Blank}
                           /\ renewal'[o].at = "none" => renewal'[o].token = Blank
                           /\ renewal'[o].at = "sent" => renewal'[o].token.session # None,
           \A o \in Tabs, q \in Requests :
                /\ req'[o][q].token \in copies \cup {Blank}
                /\ req'[o][q].at = "idle" => req'[o][q].token = Blank,
           \A s \in revoking' : s \in revoking \/ s = tab[t].session
    PROVE  IInv'
<1> USE DEF IInv
<1>1. TypeOK'
  BY DEF TypeOK
<1>2. AtRestBlank'
  BY DEF AtRestBlank
<1>3. \A k \in copies' : k \in copies \/ k = Blank
  <2>1. SUFFICES ASSUME NEW k \in copies' PROVE k \in copies \/ k = Blank
    OBVIOUS
  <2>2. \/ \E o \in Tabs : k = tab'[o]
        \/ k = storage'
        \/ \E o \in Tabs : k = renewal'[o].token
        \/ \E o \in Tabs, q \in Requests : k = req'[o][q].token
    BY DEF copies
  <2> QED
    BY <2>2
<1>4. \A s \in revoking' : s \in revoking \/ \E k \in copies : k.session = s
  <2>1. tab[t] \in copies
    BY DEF copies
  <2> QED
    BY <2>1
<1> QED
  BY <1>1, <1>2, <1>3, <1>4, KeepsIInv

\* What is held is a copy.
LEMMA Held ==
    ASSUME AtRestBlank
    PROVE  /\ \A t \in Tabs : tab[t] \in copies
           /\ storage \in copies
           /\ \A t \in Tabs : /\ renewal[t].token \in copies
                              /\ renewal[t].at = "none" => renewal[t].token = Blank
                              /\ renewal[t].at = "sent" => renewal[t].token.session # None
           /\ \A t \in Tabs, q \in Requests :
                 /\ req[t][q].token \in copies
                 /\ req[t][q].at = "idle" => req[t][q].token = Blank
  BY DEF copies, AtRestBlank

\* One request moves to what it may be.
LEMMA OneMoves ==
    ASSUME TypeOK, AtRestBlank, NEW t \in Tabs, NEW q \in Requests, NEW r \in RequestType,
           req' = [req EXCEPT ![t][q] = r], r.token \in copies \cup {Blank},
           r.at = "idle" => r.token = Blank
    PROVE  /\ req' \in [Tabs -> [Requests -> RequestType]]
           /\ \A o \in Tabs, p \in Requests : /\ req'[o][p].token \in copies \cup {Blank}
                                              /\ req'[o][p].at = "idle" => req'[o][p].token = Blank
<1>1. req \in [Tabs -> [Requests -> RequestType]]
  BY DEF TypeOK, RequestType
<1>2. req' \in [Tabs -> [Requests -> RequestType]]
  BY <1>1
<1>3. \A o \in Tabs, p \in Requests : req'[o][p] = r \/ req'[o][p] = req[o][p]
  BY <1>1
<1> QED
  BY <1>2, <1>3, Held

LEMMA RenewIfNeededIInv == ASSUME IInv, NEW t \in Tabs, renewIfNeeded(t) PROVE IInv'
<1> USE DEF IInv
<1>1. tab[t].session # None
  BY DEF renewIfNeeded, stale
<1>2. /\ UNCHANGED <<world, row, dead, over, req, tab, storage, revoking, ended>>
      /\ renewal' = refreshSession(t)
  BY DEF renewIfNeeded, staysSignedIn
<1>3. /\ renewal' \in [Tabs -> [at : {"none", "sent", "answered"}, token : Tokens]]
      /\ \A o \in Tabs : renewal'[o] = renewal[o] \/ (renewal'[o].token = tab[t] /\ renewal'[o].at = "sent"
                                                      /\ tab[t].session # None)
  <2>1. TypeOK /\ AtRestBlank
    OBVIOUS
  <2> HIDE DEF IInv
  <2> QED
    BY <1>1, <1>2, <2>1, Renews
<1>4. /\ tab \in [Tabs -> Tokens] /\ storage \in Tokens /\ revoking \subseteq Sessions
      /\ ended \in [Tabs -> {"no", "user", "forced"}]
      /\ req \in [Tabs -> [Requests -> [at : {"idle", "waiting", "sent", "refused", "again"},
                                        token : Tokens, retried : BOOLEAN]]]
  BY DEF TypeOK
<1>5. AtRestBlank /\ world' \in WorldType /\ world'.logins \subseteq world.logins
  BY <1>2
<1>6. \A o \in Tabs : /\ renewal'[o].token \in copies \cup {Blank}
                      /\ renewal'[o].at = "none" => renewal'[o].token = Blank
                      /\ renewal'[o].at = "sent" => renewal'[o].token.session # None
  BY <1>3, <1>5, Held
<1> HIDE DEF IInv
<1>7. /\ tab' \in [Tabs -> Tokens] /\ storage' \in Tokens /\ revoking' \subseteq Sessions
      /\ ended' \in [Tabs -> {"no", "user", "forced"}]
      /\ req' \in [Tabs -> [Requests -> [at : {"idle", "waiting", "sent", "refused", "again"},
                                         token : Tokens, retried : BOOLEAN]]]
  BY <1>2, <1>4
<1>8. /\ \A o \in Tabs : tab'[o] \in copies \cup {Blank}
      /\ storage' \in copies \cup {Blank}
      /\ \A o \in Tabs, q \in Requests : /\ req'[o][q].token \in copies \cup {Blank}
                                         /\ req'[o][q].at = "idle" => req'[o][q].token = Blank
      /\ \A s \in revoking' : s \in revoking \/ s = tab[t].session
  BY <1>2, <1>5, Held
<1> QED
  BY <1>2, <1>3, <1>5, <1>6, <1>7, <1>8, TabIInv

LEMMA AskIInv == ASSUME IInv, NEW t \in Tabs, NEW q \in Requests, ask(t, q) PROVE IInv'
<1> USE DEF IInv
<1>1. PICK renews \in stale(t) :
         /\ req' = [req EXCEPT ![t][q] = [Resting EXCEPT !.at = IF renews THEN "waiting" ELSE "sent",
                                                        !.token = tab[t]]]
         /\ renewal' = IF renews THEN refreshSession(t) ELSE renewal
  BY DEF ask
<1> DEFINE r == [Resting EXCEPT !.at = IF renews THEN "waiting" ELSE "sent", !.token = tab[t]]
<1>2. tab[t] \in Tokens
  BY DEF TypeOK
<1>3. r \in RequestType /\ r.at # "idle" /\ r.token = tab[t]
  BY <1>2 DEF Resting, RequestType
<1>4. /\ req' \in [Tabs -> [Requests -> RequestType]]
      /\ \A o \in Tabs, p \in Requests : /\ req'[o][p].token \in copies \cup {Blank}
                                         /\ req'[o][p].at = "idle" => req'[o][p].token = Blank
  BY <1>1, <1>3, OneMoves, Held
<1>5. /\ renewal' \in [Tabs -> [at : {"none", "sent", "answered"}, token : Tokens]]
      /\ \A o \in Tabs : renewal'[o] = renewal[o] \/ (renewal'[o].token = tab[t] /\ renewal'[o].at = "sent"
                                                      /\ tab[t].session # None)
  <2>1. tab[t].session # None /\ renewal' \in {renewal, refreshSession(t)}
    BY <1>1 DEF ask
  <2> QED
    BY <2>1, Renews
<1>6. /\ UNCHANGED <<row, dead, over, tab, storage, revoking, ended>>
      /\ world' \in WorldType /\ world'.logins = world.logins
  BY WorldSpent DEF ask, staysSignedIn
<1>7. /\ tab \in [Tabs -> Tokens] /\ storage \in Tokens /\ revoking \subseteq Sessions
      /\ ended \in [Tabs -> {"no", "user", "forced"}]
  BY DEF TypeOK
<1> QED
  BY <1>4, <1>5, <1>6, <1>7, Held, TabIInv DEF RequestType

LEMMA AnsweredIInv == ASSUME IInv, NEW t \in Tabs, NEW q \in Requests, answered(t, q) PROVE IInv'
<1> USE DEF IInv
<1> DEFINE r == IF accepts(req[t][q].token) THEN Resting ELSE [req[t][q] EXCEPT !.at = "refused"]
<1>1. req[t][q] \in RequestType /\ req' = [req EXCEPT ![t][q] = r]
  BY DEF answered, TypeOK, RequestType
<1>2. /\ r \in RequestType /\ r.token \in {Blank, req[t][q].token} /\ (r.at = "idle" => r.token = Blank)
  BY <1>1, BlankTyped DEF Resting, RequestType
<1> HIDE DEF r
<1>3. /\ req' \in [Tabs -> [Requests -> RequestType]]
      /\ \A o \in Tabs, p \in Requests : /\ req'[o][p].token \in copies \cup {Blank}
                                         /\ req'[o][p].at = "idle" => req'[o][p].token = Blank
  BY <1>1, <1>2, OneMoves, Held
<1>4. UNCHANGED <<world, row, dead, over, renewal, tab, storage, revoking, ended>>
  BY DEF answered, staysSignedIn
<1>5. /\ tab \in [Tabs -> Tokens] /\ storage \in Tokens /\ revoking \subseteq Sessions
      /\ ended \in [Tabs -> {"no", "user", "forced"}]
      /\ renewal \in [Tabs -> [at : {"none", "sent", "answered"}, token : Tokens]]
  BY DEF TypeOK
<1> QED
  BY <1>3, <1>4, <1>5, Held, TabIInv DEF RequestType

LEMMA RefusalIInv ==
    ASSUME IInv, NEW t \in Tabs, NEW q \in Requests, firstRefusal(t, q) \/ secondRefusal(t, q)
    PROVE  IInv'
<1> USE DEF IInv
<1>1. req[t][q] \in RequestType
  BY DEF TypeOK, RequestType
<1>2. PICK r \in RequestType :
         /\ req' = [req EXCEPT ![t][q] = r] /\ r.token \in {Blank, req[t][q].token}
         /\ r.at = "idle" => r.token = Blank
         /\ logout(t, "forced") \/ staysSignedIn
         /\ renewal' \in {renewal, refreshSession(t)}
         /\ renewal' # renewal => tab[t].session # None \/ renewal[t].at # "none"
         /\ UNCHANGED <<world, row, dead, over>>
  <2>1. Resting \in RequestType /\ Resting.token = Blank
    BY BlankTyped DEF Resting, RequestType
  <2>2. /\ [req[t][q] EXCEPT !.at = "again"] \in RequestType
        /\ [req[t][q] EXCEPT !.at = "again"].token = req[t][q].token
        /\ [req[t][q] EXCEPT !.at = "again"].at = "again"
    BY <1>1 DEF RequestType
  <2>3. CASE secondRefusal(t, q)
    BY <2>1, <2>3 DEF secondRefusal
  <2>4. CASE firstRefusal(t, q) /\ tab[t].session = None /\ renewal[t].at = "none"
    BY <2>1, <2>4 DEF firstRefusal
  <2>5. CASE firstRefusal(t, q) /\ ~(tab[t].session = None /\ renewal[t].at = "none")
    BY <2>2, <2>5 DEF firstRefusal
  <2> QED
    BY <2>3, <2>4, <2>5
<1>3. /\ req' \in [Tabs -> [Requests -> RequestType]]
      /\ \A o \in Tabs, p \in Requests : /\ req'[o][p].token \in copies \cup {Blank}
                                         /\ req'[o][p].at = "idle" => req'[o][p].token = Blank
  <2>1. r.token \in copies \cup {Blank}
    BY <1>2, Held
  <2> QED
    BY <1>2, <2>1, OneMoves
<1>4. /\ renewal' \in [Tabs -> [at : {"none", "sent", "answered"}, token : Tokens]]
      /\ \A o \in Tabs : renewal'[o] = renewal[o] \/ (renewal'[o].token = tab[t] /\ renewal'[o].at = "sent"
                                                      /\ tab[t].session # None)
  <2>1. CASE renewal' = renewal
    BY <2>1 DEF TypeOK
  <2>2. CASE renewal' # renewal
    BY <1>2, <2>2, Renews
  <2> QED
    BY <2>1, <2>2
<1>5. /\ tab' \in [Tabs -> Tokens] /\ storage' \in Tokens
      /\ revoking' \subseteq Sessions /\ ended' \in [Tabs -> {"no", "user", "forced"}]
      /\ \A o \in Tabs : tab'[o] = tab[o] \/ tab'[o] = Blank
      /\ storage' = storage \/ storage' = Blank
      /\ \A s \in revoking' : s \in revoking \/ s = tab[t].session
  BY <1>2, SignsOut
<1>6. /\ \A o \in Tabs : tab'[o] \in copies \cup {Blank}
      /\ storage' \in copies \cup {Blank}
  BY <1>5, Held
<1>7. \A o \in Tabs : /\ renewal'[o].token \in copies \cup {Blank}
                      /\ renewal'[o].at = "none" => renewal'[o].token = Blank
                      /\ renewal'[o].at = "sent" => renewal'[o].token.session # None
  BY <1>4, Held
<1>8. /\ world' \in WorldType /\ world'.logins \subseteq world.logins
      /\ UNCHANGED <<row, dead, over>>
  BY <1>2
<1> QED
  BY <1>3, <1>4, <1>5, <1>6, <1>7, <1>8, TabIInv DEF RequestType

\* What a request that waited holds: what the renewal brought, what it had, or nothing.
LEMMA Resumed ==
    ASSUME NEW r \in RequestType, NEW token \in Tokens
    PROVE  /\ resumed(r, token) \in RequestType
           /\ resumed(r, token).token \in {r.token, token, Blank}
           /\ resumed(r, token).at = "idle" /\ (r.at = "idle" => r.token = Blank)
                 => resumed(r, token).token = Blank
<1>1. Resting \in RequestType /\ Resting.token = Blank /\ Resting.at = "idle"
  BY BlankTyped DEF Resting, RequestType
<1>2. CASE r.at = "waiting"
  <2> DEFINE to == IF token = Blank THEN r.token ELSE token
  <2>1. resumed(r, token) = [r EXCEPT !.at = "sent", !.token = to]
    BY <1>2 DEF resumed
  <2>2. to \in Tokens /\ to \in {r.token, token}
    BY DEF RequestType
  <2> HIDE DEF to
  <2> QED
    BY <2>1, <2>2 DEF RequestType
<1>3. CASE r.at = "again"
  BY <1>1, <1>3 DEF resumed, RequestType
<1>4. CASE r.at \notin {"waiting", "again"}
  BY <1>4 DEF resumed
<1> QED
  BY <1>2, <1>3, <1>4

LEMMA Resumes ==
    ASSUME TypeOK, AtRestBlank, NEW t \in Tabs, NEW token \in Tokens, resume(t, token),
           token \in copies \cup {Blank}
    PROVE  /\ req' \in [Tabs -> [Requests -> RequestType]]
           /\ \A o \in Tabs, p \in Requests : /\ req'[o][p].token \in copies \cup {Blank}
                                              /\ req'[o][p].at = "idle" => req'[o][p].token = Blank
           /\ renewal' \in [Tabs -> [at : {"none", "sent", "answered"}, token : Tokens]]
           /\ \A o \in Tabs : renewal'[o] = renewal[o]
                              \/ (renewal'[o].token = Blank /\ renewal'[o].at = "none")
<1>1. req \in [Tabs -> [Requests -> RequestType]]
  BY DEF TypeOK, RequestType
<1>2. /\ \A q \in Requests : req'[t][q] = resumed(req[t][q], token)
      /\ \A o \in Tabs : o # t => req'[o] = req[o]
      /\ req' \in [Tabs -> [Requests -> RequestType]]
  <2>1. \A q \in Requests : resumed(req[t][q], token) \in RequestType
    BY <1>1, Resumed
  <2>2. req' = [req EXCEPT ![t] = [q \in Requests |-> resumed(req[t][q], token)]]
    BY DEF resume
  <2> QED
    BY <1>1, <2>1, <2>2
<1>3. \A o \in Tabs, p \in Requests : /\ req'[o][p].token \in copies \cup {Blank}
                                      /\ req'[o][p].at = "idle" => req'[o][p].token = Blank
  <2>1. SUFFICES ASSUME NEW o \in Tabs, NEW p \in Requests
                 PROVE  /\ req'[o][p].token \in copies \cup {Blank}
                        /\ req'[o][p].at = "idle" => req'[o][p].token = Blank
    OBVIOUS
  <2>2. CASE o # t
    BY <1>2, <2>2, Held
  <2>3. CASE o = t
    <3>1. req'[o][p] = resumed(req[o][p], token) /\ req[o][p] \in RequestType
      BY <1>1, <1>2, <2>3
    <3> QED
      BY <3>1, Resumed, Held
  <2> QED
    BY <2>2, <2>3
<1>4. /\ NoRenewal \in [at : {"none", "sent", "answered"}, token : Tokens]
      /\ NoRenewal.token = Blank /\ NoRenewal.at = "none"
  BY BlankTyped DEF NoRenewal
<1>5. /\ renewal' \in [Tabs -> [at : {"none", "sent", "answered"}, token : Tokens]]
      /\ \A o \in Tabs : renewal'[o] = renewal[o] \/ renewal'[o] = NoRenewal
  BY <1>4 DEF resume, TypeOK
<1> QED
  BY <1>2, <1>3, <1>4, <1>5

LEMMA RenewedIInv == ASSUME IInv, NEW t \in Tabs, renewed(t) PROVE IInv'
<1> USE DEF IInv
<1>1. renewal[t].token \in Tokens /\ Blank \in Tokens
  BY BlankTyped DEF TypeOK
<1>2. CASE setSession(t)
  <2>1. /\ tab' = [tab EXCEPT ![t] = renewal[t].token] /\ storage' = renewal[t].token
        /\ resume(t, renewal[t].token)
        /\ UNCHANGED <<world, row, dead, over, revoking, ended>>
    BY <1>2 DEF setSession
  <2>2. /\ tab' \in [Tabs -> Tokens] /\ \A o \in Tabs : tab'[o] = tab[o] \/ tab'[o] = renewal[t].token
        /\ storage' \in Tokens /\ revoking \subseteq Sessions /\ ended \in [Tabs -> {"no", "user", "forced"}]
    BY <1>1, <2>1 DEF TypeOK
  <2>3. /\ req' \in [Tabs -> [Requests -> RequestType]]
        /\ \A o \in Tabs, p \in Requests : /\ req'[o][p].token \in copies \cup {Blank}
                                           /\ req'[o][p].at = "idle" => req'[o][p].token = Blank
        /\ renewal' \in [Tabs -> [at : {"none", "sent", "answered"}, token : Tokens]]
        /\ \A o \in Tabs : renewal'[o] = renewal[o]
                           \/ (renewal'[o].token = Blank /\ renewal'[o].at = "none")
    BY <1>1, <2>1, Held, Resumes
  <2> QED
    BY <2>1, <2>2, <2>3, Held, TabIInv DEF RequestType
<1>3. CASE renewalFailed(t)
  <2>1. /\ resume(t, Blank)
        /\ logout(t, "forced") \/ staysSignedIn
        /\ UNCHANGED <<world, row, dead, over>>
    BY <1>3 DEF renewalFailed
  <2>2. /\ tab' \in [Tabs -> Tokens] /\ storage' \in Tokens
        /\ revoking' \subseteq Sessions /\ ended' \in [Tabs -> {"no", "user", "forced"}]
        /\ \A o \in Tabs : tab'[o] = tab[o] \/ tab'[o] = Blank
        /\ storage' = storage \/ storage' = Blank
        /\ \A s \in revoking' : s \in revoking \/ s = tab[t].session
    BY <2>1, SignsOut
  <2>3. /\ req' \in [Tabs -> [Requests -> RequestType]]
        /\ \A o \in Tabs, p \in Requests : /\ req'[o][p].token \in copies \cup {Blank}
                                           /\ req'[o][p].at = "idle" => req'[o][p].token = Blank
        /\ renewal' \in [Tabs -> [at : {"none", "sent", "answered"}, token : Tokens]]
        /\ \A o \in Tabs : renewal'[o] = renewal[o]
                           \/ (renewal'[o].token = Blank /\ renewal'[o].at = "none")
    <3>1. Blank \in copies \cup {Blank} /\ resume(t, Blank)
      BY <2>1
    <3> QED
      BY <1>1, <3>1, Resumes
  <2>4. /\ \A o \in Tabs : tab'[o] \in copies \cup {Blank}
        /\ storage' \in copies \cup {Blank}
    BY <2>2, Held
  <2>5. \A o \in Tabs : /\ renewal'[o].token \in copies \cup {Blank}
                        /\ renewal'[o].at = "none" => renewal'[o].token = Blank
                        /\ renewal'[o].at = "sent" => renewal'[o].token.session # None
    BY <2>3, Held
  <2>6. /\ world' \in WorldType /\ world'.logins \subseteq world.logins
        /\ UNCHANGED <<row, dead, over>>
    BY <2>1
  <2> QED
    BY <2>2, <2>3, <2>4, <2>5, <2>6, TabIInv DEF RequestType
<1> QED
  BY <1>2, <1>3 DEF renewed

LEMMA SignOutIInv == ASSUME IInv, NEW t \in Tabs, signOut(t) PROVE IInv'
<1> USE DEF IInv
<1>1. /\ logout(t, "user") /\ UNCHANGED <<row, dead, over, renewal, req>>
      /\ world' \in WorldType /\ world'.logins = world.logins
  BY WorldSpent DEF signOut
<1>2. /\ tab' \in [Tabs -> Tokens] /\ storage' \in Tokens
      /\ revoking' \subseteq Sessions /\ ended' \in [Tabs -> {"no", "user", "forced"}]
      /\ \A o \in Tabs : tab'[o] = tab[o] \/ tab'[o] = Blank
      /\ storage' = storage \/ storage' = Blank
      /\ \A s \in revoking' : s \in revoking \/ s = tab[t].session
  BY <1>1, SignsOut
<1>3. /\ renewal \in [Tabs -> [at : {"none", "sent", "answered"}, token : Tokens]]
      /\ req \in [Tabs -> [Requests -> RequestType]]
  BY DEF TypeOK, RequestType
<1>4. AtRestBlank
  OBVIOUS
<1> HIDE DEF IInv
<1>5. /\ renewal' \in [Tabs -> [at : {"none", "sent", "answered"}, token : Tokens]]
      /\ req' \in [Tabs -> [Requests -> RequestType]]
  BY <1>1, <1>3
<1>6. /\ \A o \in Tabs : tab'[o] \in copies \cup {Blank}
      /\ storage' \in copies \cup {Blank}
  BY <1>2, <1>4, Held
<1>7. \A o \in Tabs : /\ renewal'[o].token \in copies \cup {Blank}
                      /\ renewal'[o].at = "none" => renewal'[o].token = Blank
                      /\ renewal'[o].at = "sent" => renewal'[o].token.session # None
  BY <1>1, <1>4, Held
<1>8. \A o \in Tabs, q \in Requests : /\ req'[o][q].token \in copies \cup {Blank}
                                      /\ req'[o][q].at = "idle" => req'[o][q].token = Blank
  BY <1>1, <1>4, Held
<1> QED
  BY <1>1, <1>2, <1>5, <1>6, <1>7, <1>8, TabIInv DEF RequestType

\* A page load, with what a tab then holds.
LEMMA Loads ==
    ASSUME TypeOK, AtRestBlank, NEW t \in Tabs, NEW k \in Tokens, load(t, k)
    PROVE  /\ tab' \in [Tabs -> Tokens] /\ storage' = k
           /\ \A o \in Tabs : tab'[o] = tab[o] \/ tab'[o] = k
           /\ ended' \in [Tabs -> {"no", "user", "forced"}]
           /\ req' \in [Tabs -> [Requests -> RequestType]]
           /\ \A o \in Tabs, p \in Requests : /\ req'[o][p].token \in copies \cup {Blank}
                                              /\ req'[o][p].at = "idle" => req'[o][p].token = Blank
           /\ renewal' \in [Tabs -> [at : {"none", "sent", "answered"}, token : Tokens]]
           /\ \A o \in Tabs : renewal'[o] = renewal[o]
                              \/ (renewal'[o].token = Blank /\ renewal'[o].at = "none")
           /\ UNCHANGED <<dead, over, revoking>>
<1>1. /\ NoRenewal \in [at : {"none", "sent", "answered"}, token : Tokens]
      /\ NoRenewal.token = Blank /\ NoRenewal.at = "none"
      /\ Resting \in RequestType /\ Resting.token = Blank
  BY BlankTyped DEF NoRenewal, Resting, RequestType
<1>2. /\ tab' \in [Tabs -> Tokens] /\ storage' = k
      /\ \A o \in Tabs : tab'[o] = tab[o] \/ tab'[o] = k
      /\ ended' \in [Tabs -> {"no", "user", "forced"}]
      /\ UNCHANGED <<dead, over, revoking>>
  BY DEF load, TypeOK
<1>3. /\ req' \in [Tabs -> [Requests -> RequestType]]
      /\ \A o \in Tabs, p \in Requests : req'[o][p] = req[o][p] \/ req'[o][p] = Resting
  BY <1>1 DEF load, TypeOK, RequestType
<1>4. /\ renewal' \in [Tabs -> [at : {"none", "sent", "answered"}, token : Tokens]]
      /\ \A o \in Tabs : renewal'[o] = renewal[o] \/ renewal'[o] = NoRenewal
  BY <1>1 DEF load, TypeOK
<1>5. \A o \in Tabs, p \in Requests : /\ req'[o][p].token \in copies \cup {Blank}
                                      /\ req'[o][p].at = "idle" => req'[o][p].token = Blank
  BY <1>1, <1>3, Held
<1> QED
  BY <1>1, <1>2, <1>3, <1>4, <1>5

LEMMA OpenIInv == ASSUME IInv, NEW t \in Tabs, open(t) PROVE IInv'
<1> USE DEF IInv
<1>1. /\ load(t, storage) /\ storage \in Tokens /\ row' = row
      /\ world' \in WorldType /\ world'.logins = world.logins
  BY WorldSpent DEF open, TypeOK
<1>2. revoking \subseteq Sessions
  BY DEF TypeOK
<1> QED
  BY <1>1, <1>2, Loads, Held, TabIInv DEF RequestType

\* A login is the first there is of its session.
LEMMA LoginIInv == ASSUME IInv, NEW t \in Tabs, login(t) PROVE IInv'
<1> USE DEF IInv
<1>1. PICK s \in world.logins : /\ world' = [world EXCEPT !.logins = @ \ {s}]
                                /\ issue(s) /\ load(t, Fresh(s))
  BY DEF login
<1>2. /\ s \in Sessions /\ world.logins \subseteq Sessions
      /\ world' \in WorldType /\ world'.logins = world.logins \ {s}
  BY <1>1 DEF WorldType
<1>3. Fresh(s) \in Tokens /\ Fresh(s).session = s /\ s # None
  BY <1>2, BlankTyped
<1>4. /\ tab' \in [Tabs -> Tokens] /\ storage' = Fresh(s)
      /\ \A o \in Tabs : tab'[o] = tab[o] \/ tab'[o] = Fresh(s)
      /\ ended' \in [Tabs -> {"no", "user", "forced"}]
      /\ req' \in [Tabs -> [Requests -> RequestType]]
      /\ \A o \in Tabs, p \in Requests : /\ req'[o][p].token \in copies \cup {Blank}
                                         /\ req'[o][p].at = "idle" => req'[o][p].token = Blank
      /\ renewal' \in [Tabs -> [at : {"none", "sent", "answered"}, token : Tokens]]
      /\ \A o \in Tabs : renewal'[o] = renewal[o]
                         \/ (renewal'[o].token = Blank /\ renewal'[o].at = "none")
      /\ UNCHANGED <<dead, over, revoking>>
  BY <1>1, <1>3, Loads
<1>5. /\ row' \in [Sessions -> 0 .. RefreshTtl]
      /\ \A o \in Sessions : o # s => row'[o] = row[o]
      /\ row'[s] > 0
  <2>1. RefreshTtl \in 0 .. RefreshTtl /\ RefreshTtl > 0
    BY TtlAssumption
  <2> QED
    BY <1>1, <1>2, <2>1 DEF issue, TypeOK
<1>6. TypeOK'
  BY <1>3, <1>4, <1>5 DEF TypeOK, RequestType
<1>7. AtRestBlank'
  BY <1>4 DEF AtRestBlank
<1>8. \A k \in copies' : k \in copies \/ k = Blank \/ k = Fresh(s)
  <2>1. SUFFICES ASSUME NEW k \in copies' PROVE k \in copies \/ k = Blank \/ k = Fresh(s)
    OBVIOUS
  <2>2. \/ \E o \in Tabs : k = tab'[o]
        \/ k = storage'
        \/ \E o \in Tabs : k = renewal'[o].token
        \/ \E o \in Tabs, q \in Requests : k = req'[o][q].token
    BY DEF copies
  <2>3. \A o \in Tabs : tab'[o] \in copies \cup {Fresh(s)}
    BY <1>4, Held
  <2>4. \A o \in Tabs : renewal'[o].token \in copies \cup {Blank}
    BY <1>4, Held
  <2> QED
    BY <1>4, <2>2, <2>3, <2>4
<1>9. OverHasNoRow'
  BY <1>1, <1>2, <1>4, <1>5 DEF OverHasNoRow, NotYetIssued
<1>10. NotYetIssued'
  <2>1. SUFFICES ASSUME NEW o \in world'.logins
                 PROVE  /\ o \notin over /\ o \notin revoking /\ row'[o] = 0
                        /\ \A k \in copies' : k.session # o
    BY <1>4 DEF NotYetIssued
  <2>2. o \in world.logins /\ o \in Sessions /\ o # s
    BY <1>2, <2>1
  <2> QED
    BY <1>3, <1>5, <1>8, <2>2, BlankTyped DEF NotYetIssued
<1>11. OutlivesByATtl'
  <2>1. s \notin over
    BY <1>1 DEF NotYetIssued
  <2> QED
    BY <1>3, <1>4, <1>8, <2>1, BlankTyped DEF OutlivesByATtl
<1>12. NoneIsMadeUp'
  <2>1. \A k \in copies : k.session = None \/ (k.session \in Sessions /\ k.session # s)
    BY <1>1, CopyTyped DEF Tokens, NotYetIssued
  <2>2. \A k \in copies : k.session = None \/ row'[k.session] > 0 \/ k.session \in over
    BY <1>5, <2>1 DEF NoneIsMadeUp
  <2> QED
    BY <1>3, <1>4, <1>5, <1>8, <2>2, BlankTyped DEF NoneIsMadeUp
<1> QED
  BY <1>2, <1>6, <1>7, <1>9, <1>10, <1>11, <1>12

LEMMA NextIInv == IInv /\ [Next]_vars => IInv'
<1> SUFFICES ASSUME IInv, [Next]_vars PROVE IInv'
  OBVIOUS
<1>1. CASE UNCHANGED vars
  BY <1>1 DEF IInv, TypeOK, AtRestBlank, OverHasNoRow, NotYetIssued, NoneIsMadeUp, OutlivesByATtl,
                copies, vars
<1>2. ASSUME NEW t \in Tabs, request(t) PROVE IInv'
  BY <1>2, AnsweredIInv, RefusalIInv DEF request
<1> QED
  BY <1>1, <1>2, RefreshIInv, RevokeIInv, SignOutLostIInv, TickIInv, RenewIfNeededIInv, AskIInv,
     RenewedIInv, SignOutIInv, OpenIInv, LoginIInv DEF Next

THEOREM Invariance == Spec => []IInv
  BY InitIInv, NextIInv, PTL DEF Spec

----------------------------------------------------------------------------
\* Every variable keeps its type.
THEOREM TypeCorrect == Spec => []TypeOK
<1>1. IInv => TypeOK
  BY DEF IInv
<1> QED
  BY <1>1, Invariance, PTL

\* However many tabs renew a session while it is revoked or lapses, no access token of it is good for
\* longer than one time to live from then on (auth-session.service.ts, revoke).
THEOREM TokensOutliveByATtl == Spec => []OutlivesByATtl
<1>1. IInv => OutlivesByATtl
  BY DEF IInv
<1> QED
  BY <1>1, Invariance, PTL

----------------------------------------------------------------------------
\* Who is signed out by a 401.

\* A renewal under way is of the session the tab holds, if it still holds one.
RenewsItsOwn ==
    \A t \in Tabs : renewal[t].at = "sent" => tab[t].session \in {None, renewal[t].token.session}

\* One the server refused is of a session that is over.
RefusedIsOver ==
    \A t \in Tabs : renewal[t].at = "answered" /\ renewal[t].token = Blank => tab[t].session \in over \cup {None}

AnswerIsFresh ==
    \A t \in Tabs : renewal[t].at = "answered" /\ renewal[t].token # Blank => renewal[t].token.left > 0

\* A request goes out again with a token that is good, and comes back before it ages.
RetryIsTaken ==
    world.faults \subseteq {"clock"} =>
        \A t \in Tabs, q \in Requests :
           req[t][q].retried => req[t][q].at = "sent" /\ req[t][q].token.left > 0

KInv == IInv /\ RenewsItsOwn /\ RefusedIsOver /\ AnswerIsFresh /\ RetryIsTaken

\* What a renewal may become, and a request.
RenewalMoves(o) ==
    \/ renewal'[o] = renewal[o] /\ tab'[o].session \in {None, tab[o].session}
    \/ renewal'[o].at = "none"
    \/ renewal'[o].at = "sent" /\ renewal'[o].token.session = tab'[o].session
    \/ /\ renewal'[o].at = "answered"
       /\ renewal'[o].token = Blank => tab'[o].session \in over \cup {None}
       /\ renewal'[o].token # Blank => renewal'[o].token.left > 0

RequestMoves(o, q) ==
    world.faults \subseteq {"clock"} =>
        \/ req'[o][q] = req[o][q]
        \/ req'[o][q].retried => req'[o][q].at = "sent" /\ req'[o][q].token.left > 0

LEMMA MovesKeepKInv ==
    ASSUME KInv, IInv', over \subseteq over', world'.faults = world.faults,
           \A o \in Tabs : RenewalMoves(o),
           \A o \in Tabs, q \in Requests : RequestMoves(o, q)
    PROVE  KInv'
<1>1. RenewsItsOwn'
  BY DEF KInv, RenewsItsOwn, RenewalMoves
<1>2. RefusedIsOver'
  BY DEF KInv, RefusedIsOver, RenewalMoves
<1>3. AnswerIsFresh'
  BY DEF KInv, AnswerIsFresh, RenewalMoves
<1>4. RetryIsTaken'
  BY DEF KInv, RetryIsTaken, RequestMoves
<1> QED
  BY <1>1, <1>2, <1>3, <1>4 DEF KInv

\* A tab that is signed out, or left as it is, holds the session it held, or none.
LEMMA HoldsOrForgets ==
    ASSUME TypeOK, NEW t \in Tabs, NEW how \in {"user", "forced"}, logout(t, how) \/ staysSignedIn
    PROVE  \A o \in Tabs : tab'[o].session \in {None, tab[o].session}
<1>1. CASE staysSignedIn
  BY <1>1 DEF staysSignedIn
<1>2. CASE logout(t, how)
  BY <1>2, SignsOut, BlankTyped
<1> QED
  BY <1>1, <1>2

LEMMA InitKInv == Init => KInv
<1> SUFFICES ASSUME Init PROVE KInv
  OBVIOUS
<1>1. /\ \A t \in Tabs : renewal[t].at = "none"
      /\ \A t \in Tabs, q \in Requests : ~req[t][q].retried
  BY DEF Init, NoRenewal, Resting
<1> QED
  BY <1>1, InitIInv DEF KInv, RenewsItsOwn, RefusedIsOver, AnswerIsFresh, RetryIsTaken

LEMMA RefreshKInv == ASSUME KInv, NEW t \in Tabs, refresh(t) PROVE KInv'
<1> USE DEF KInv
<1> DEFINE s == renewal[t].token.session
<1>1. s \in Sessions /\ renewal[t].at = "sent"
  BY DEF refresh, IInv, AtRestBlank, TypeOK, Tokens
<1> DEFINE new == IF row[s] > 0 THEN Fresh(s) ELSE Blank
<1>2. /\ renewal' = [renewal EXCEPT ![t] = [at |-> "answered", token |-> new]]
      /\ UNCHANGED <<world, over, tab, req>>
  BY DEF refresh, redeem, answers
<1>3. new # Blank => new.left > 0
  BY TtlAssumption DEF Fresh
<1>4. new = Blank => s \in over
  <2>1. renewal[t].token \in copies
    BY Held DEF IInv
  <2>2. s = None \/ row[s] > 0 \/ s \in over
    BY <2>1 DEF IInv, NoneIsMadeUp
  <2> QED
    BY <1>1, <2>2, BlankTyped
<1>5. tab[t].session \in {None, s}
  BY <1>1 DEF RenewsItsOwn
<1> HIDE DEF new, s
<1>6. \A o \in Tabs : renewal'[o] = IF o = t THEN [at |-> "answered", token |-> new] ELSE renewal[o]
  BY <1>2 DEF IInv, TypeOK
<1>7. \A o \in Tabs : RenewalMoves(o)
  BY <1>2, <1>3, <1>4, <1>5, <1>6 DEF RenewalMoves
<1>8. \A o \in Tabs, q \in Requests : RequestMoves(o, q)
  BY <1>2 DEF RequestMoves
<1> QED
  BY <1>2, <1>7, <1>8, RefreshIInv, MovesKeepKInv

\* Where no tab moves.
LEMMA AroundKInv == ASSUME KInv, revoke \/ signOutLost \/ Tick PROVE KInv'
<1> USE DEF KInv
<1>1. IInv'
  BY RevokeIInv, SignOutLostIInv, TickIInv
<1>2. /\ over \subseteq over' /\ world'.faults = world.faults /\ UNCHANGED <<renewal, req>>
      /\ \A o \in Tabs : tab'[o].session = tab[o].session
  <2>1. CASE revoke
    BY <2>1 DEF revoke
  <2>2. CASE signOutLost
    BY <2>2 DEF signOutLost
  <2>3. CASE Tick
    <3>1. /\ over \subseteq over' /\ UNCHANGED <<renewal, req>>
          /\ \A o \in Tabs : tab'[o] = aged(tab[o]) /\ tab[o] \in Tokens
      BY <2>3 DEF Tick, IInv, TypeOK
    <3>2. world'.faults = world.faults
      BY <2>3 DEF Tick, IInv, WorldType
    <3> QED
      BY <3>1, <3>2, Aged
  <2> QED
    BY <2>1, <2>2, <2>3
<1>3. \A o \in Tabs : RenewalMoves(o)
  BY <1>2 DEF RenewalMoves
<1>4. \A o \in Tabs, q \in Requests : RequestMoves(o, q)
  BY <1>2 DEF RequestMoves
<1> QED
  BY <1>1, <1>2, <1>3, <1>4, MovesKeepKInv

\* A renewal that is asked for, of what the tab holds.
LEMMA AsksItsOwn ==
    ASSUME TypeOK, NEW t \in Tabs, renewal' \in {renewal, refreshSession(t)},
           \A o \in Tabs : tab'[o].session \in {None, tab[o].session},
           renewal' # renewal => tab' = tab
    PROVE  \A o \in Tabs : RenewalMoves(o)
<1>1. CASE renewal' = renewal
  BY <1>1 DEF RenewalMoves
<1>2. CASE renewal' # renewal
  <2>1. renewal' = [renewal EXCEPT ![t] = [at |-> "sent", token |-> tab[t]]] /\ tab' = tab
    BY <1>2 DEF refreshSession
  <2>2. \A o \in Tabs : renewal'[o] = IF o = t THEN [at |-> "sent", token |-> tab[t]] ELSE renewal[o]
    BY <2>1 DEF TypeOK
  <2> QED
    BY <2>1, <2>2 DEF RenewalMoves
<1> QED
  BY <1>1, <1>2

\* One request that moves.
LEMMA OneRequestMoves ==
    ASSUME TypeOK, NEW t \in Tabs, NEW q \in Requests, NEW r, req' = [req EXCEPT ![t][q] = r],
           world.faults \subseteq {"clock"} => (r.retried => r.at = "sent" /\ r.token.left > 0)
    PROVE  \A o \in Tabs, p \in Requests : RequestMoves(o, p)
<1>1. \A o \in Tabs, p \in Requests : req'[o][p] = IF o = t /\ p = q THEN r ELSE req[o][p]
  BY DEF TypeOK
<1> QED
  BY <1>1 DEF RequestMoves

LEMMA RenewIfNeededKInv == ASSUME KInv, NEW t \in Tabs, renewIfNeeded(t) PROVE KInv'
<1>1. /\ TypeOK /\ renewal' \in {renewal, refreshSession(t)}
      /\ UNCHANGED <<world, over, req, tab>>
  BY DEF renewIfNeeded, staysSignedIn, KInv, IInv
<1>2. \A o \in Tabs : RenewalMoves(o)
  BY <1>1, AsksItsOwn
<1>3. \A o \in Tabs, q \in Requests : RequestMoves(o, q)
  BY <1>1 DEF RequestMoves
<1> QED
  BY <1>1, <1>2, <1>3, RenewIfNeededIInv, MovesKeepKInv DEF KInv

LEMMA AskKInv == ASSUME KInv, NEW t \in Tabs, NEW q \in Requests, ask(t, q) PROVE KInv'
<1>1. PICK renews \in stale(t) :
         /\ req' = [req EXCEPT ![t][q] = [Resting EXCEPT !.at = IF renews THEN "waiting" ELSE "sent",
                                                        !.token = tab[t]]]
         /\ renewal' = IF renews THEN refreshSession(t) ELSE renewal
  BY DEF ask
<1> DEFINE r == [Resting EXCEPT !.at = IF renews THEN "waiting" ELSE "sent", !.token = tab[t]]
<1>2. ~r.retried
  BY DEF Resting
<1>3. /\ TypeOK /\ renewal' \in {renewal, refreshSession(t)} /\ UNCHANGED <<over, tab>>
  BY <1>1 DEF ask, staysSignedIn, KInv, IInv
<1>4. world'.faults = world.faults
  BY DEF ask, KInv, IInv, WorldType
<1>5. \A o \in Tabs : RenewalMoves(o)
  BY <1>3, AsksItsOwn
<1>6. req' = [req EXCEPT ![t][q] = r]
  BY <1>1
<1> HIDE DEF r
<1>7. \A o \in Tabs, p \in Requests : RequestMoves(o, p)
  BY <1>2, <1>3, <1>6, OneRequestMoves
<1> QED
  BY <1>3, <1>4, <1>5, <1>7, AskIInv, MovesKeepKInv DEF KInv

\* The server takes a token that has not expired, so a retry is not refused.
LEMMA AnsweredKInv == ASSUME KInv, NEW t \in Tabs, NEW q \in Requests, answered(t, q) PROVE KInv'
<1> DEFINE r == IF accepts(req[t][q].token) THEN Resting ELSE [req[t][q] EXCEPT !.at = "refused"]
<1>1. /\ TypeOK /\ req' = [req EXCEPT ![t][q] = r] /\ req[t][q] \in RequestType
      /\ UNCHANGED <<world, over, tab, renewal>>
  BY DEF answered, staysSignedIn, KInv, IInv, TypeOK, RequestType
<1>2. world.faults \subseteq {"clock"} => ~r.retried
  <2>1. CASE accepts(req[t][q].token)
    BY <2>1 DEF Resting
  <2>2. CASE ~accepts(req[t][q].token) /\ world.faults \subseteq {"clock"}
    <3>1. ~(req[t][q].token.left > 0)
      BY <2>2 DEF accepts, Fault
    <3>2. ~req[t][q].retried
      BY <2>2, <3>1 DEF KInv, RetryIsTaken
    <3> QED
      BY <1>1, <2>2, <3>2 DEF RequestType
  <2> QED
    BY <2>1, <2>2
<1> HIDE DEF r
<1>3. \A o \in Tabs, p \in Requests : RequestMoves(o, p)
  BY <1>1, <1>2, OneRequestMoves
<1>4. \A o \in Tabs : RenewalMoves(o)
  BY <1>1 DEF RenewalMoves
<1> QED
  BY <1>1, <1>3, <1>4, AnsweredIInv, MovesKeepKInv DEF KInv

LEMMA RefusalKInv ==
    ASSUME KInv, NEW t \in Tabs, NEW q \in Requests, firstRefusal(t, q) \/ secondRefusal(t, q)
    PROVE  KInv'
<1>1. TypeOK /\ UNCHANGED <<world, over>>
  BY DEF firstRefusal, secondRefusal, KInv, IInv
<1>2. /\ renewal' \in {renewal, refreshSession(t)}
      /\ renewal' # renewal => staysSignedIn
      /\ logout(t, "forced") \/ staysSignedIn
  BY DEF firstRefusal, secondRefusal
<1>3. \A o \in Tabs : tab'[o].session \in {None, tab[o].session}
  BY <1>1, <1>2, HoldsOrForgets
<1>4. \A o \in Tabs : RenewalMoves(o)
  BY <1>1, <1>2, <1>3, AsksItsOwn DEF staysSignedIn
<1>5. PICK r : req' = [req EXCEPT ![t][q] = r] /\ ~r.retried
  <2>1. CASE secondRefusal(t, q) \/ req' = [req EXCEPT ![t][q] = Resting]
    <3>1. req' = [req EXCEPT ![t][q] = Resting]
      BY <2>1 DEF secondRefusal
    <3>2. ~Resting.retried
      BY DEF Resting
    <3> QED
      BY <3>1, <3>2
  <2>2. CASE firstRefusal(t, q) /\ req' # [req EXCEPT ![t][q] = Resting]
    <3>1. ~req[t][q].retried /\ req' = [req EXCEPT ![t][q].at = "again"] /\ req[t][q] \in RequestType
      BY <1>1, <2>2 DEF firstRefusal, TypeOK, RequestType
    <3>2. ~[req[t][q] EXCEPT !.at = "again"].retried
      BY <3>1 DEF RequestType
    <3> QED
      BY <3>1, <3>2
  <2> QED
    BY <2>1, <2>2
<1>6. \A o \in Tabs, p \in Requests : RequestMoves(o, p)
  BY <1>1, <1>5, OneRequestMoves
<1>7. IInv'
  BY RefusalIInv DEF KInv
<1> QED
  BY <1>1, <1>4, <1>6, <1>7, MovesKeepKInv

\* A renewal that ends takes its requests with it; those that were refused go out again with what it brought.
LEMMA ResumeMoves ==
    ASSUME TypeOK, NEW t \in Tabs, NEW token \in Tokens, resume(t, token),
           token # Blank => token.left > 0,
           \A o \in Tabs : o # t => tab'[o].session \in {None, tab[o].session},
           RetryIsTaken
    PROVE  /\ \A o \in Tabs : RenewalMoves(o)
           /\ \A o \in Tabs, q \in Requests : RequestMoves(o, q)
<1>1. \A o \in Tabs : RenewalMoves(o)
  <2>1. \A o \in Tabs : renewal'[o] = IF o = t THEN NoRenewal ELSE renewal[o]
    BY DEF resume, TypeOK
  <2> QED
    BY <2>1 DEF RenewalMoves, NoRenewal
<1>2. \A o \in Tabs, q \in Requests :
         /\ req[o][q] \in RequestType
         /\ req'[o][q] = IF o = t THEN resumed(req[o][q], token) ELSE req[o][q]
  BY DEF resume, TypeOK, RequestType
<1>3. ASSUME NEW q \in Requests, world.faults \subseteq {"clock"}
      PROVE  \/ resumed(req[t][q], token) = req[t][q]
             \/ resumed(req[t][q], token).retried =>
                   resumed(req[t][q], token).at = "sent" /\ resumed(req[t][q], token).token.left > 0
  <2>1. CASE req[t][q].at = "waiting"
    <3>1. ~req[t][q].retried
      BY <1>3, <2>1 DEF RetryIsTaken
    <3> DEFINE to == IF token = Blank THEN req[t][q].token ELSE token
    <3>2. resumed(req[t][q], token) = [req[t][q] EXCEPT !.at = "sent", !.token = to]
      BY <2>1 DEF resumed
    <3> HIDE DEF to
    <3>3. ~[req[t][q] EXCEPT !.at = "sent", !.token = to].retried
      BY <1>2, <3>1 DEF RequestType
    <3> QED
      BY <3>2, <3>3
  <2>2. CASE req[t][q].at = "again"
    BY <2>2 DEF resumed, Resting
  <2>3. CASE req[t][q].at \notin {"waiting", "again"}
    BY <2>3 DEF resumed
  <2> QED
    BY <2>1, <2>2, <2>3
<1>4. \A o \in Tabs, q \in Requests : RequestMoves(o, q)
  BY <1>2, <1>3 DEF RequestMoves
<1> QED
  BY <1>1, <1>4

LEMMA RenewedKInv == ASSUME KInv, NEW t \in Tabs, renewed(t) PROVE KInv'
<1>1. /\ TypeOK /\ RetryIsTaken /\ IInv' /\ renewal[t].token \in Tokens /\ Blank \in Tokens
  BY RenewedIInv, BlankTyped DEF KInv, IInv, TypeOK
<1>2. CASE setSession(t)
  <2>1. /\ resume(t, renewal[t].token) /\ tab' = [tab EXCEPT ![t] = renewal[t].token]
        /\ renewal[t].at = "answered" /\ renewal[t].token # Blank
        /\ UNCHANGED <<world, over>>
    BY <1>2 DEF setSession
  <2>2. /\ renewal[t].token.left > 0
        /\ \A o \in Tabs : o # t => tab'[o] = tab[o]
    BY <1>1, <2>1 DEF KInv, AnswerIsFresh, TypeOK
  <2>3. /\ \A o \in Tabs : RenewalMoves(o)
        /\ \A o \in Tabs, q \in Requests : RequestMoves(o, q)
    BY <1>1, <2>1, <2>2, ResumeMoves
  <2> QED
    BY <1>1, <2>1, <2>3, MovesKeepKInv
<1>3. CASE renewalFailed(t)
  <2>1. /\ resume(t, Blank) /\ UNCHANGED <<world, over>>
        /\ logout(t, "forced") \/ staysSignedIn
    BY <1>3 DEF renewalFailed
  <2>2. \A o \in Tabs : tab'[o].session \in {None, tab[o].session}
    BY <1>1, <2>1, HoldsOrForgets
  <2>3. /\ \A o \in Tabs : RenewalMoves(o)
        /\ \A o \in Tabs, q \in Requests : RequestMoves(o, q)
    BY <1>1, <2>1, <2>2, ResumeMoves
  <2> QED
    BY <1>1, <2>1, <2>3, MovesKeepKInv
<1> QED
  BY <1>2, <1>3 DEF renewed

LEMMA SignOutKInv == ASSUME KInv, NEW t \in Tabs, signOut(t) PROVE KInv'
<1>1. /\ TypeOK /\ IInv' /\ logout(t, "user") /\ UNCHANGED <<over, renewal, req>>
  BY SignOutIInv DEF signOut, KInv, IInv
<1>2. world'.faults = world.faults
  BY DEF signOut, KInv, IInv, WorldType
<1>3. \A o \in Tabs : tab'[o].session \in {None, tab[o].session}
  BY <1>1, HoldsOrForgets
<1>4. \A o \in Tabs : RenewalMoves(o)
  BY <1>1, <1>3 DEF RenewalMoves
<1>5. \A o \in Tabs, q \in Requests : RequestMoves(o, q)
  BY <1>1 DEF RequestMoves
<1> QED
  BY <1>1, <1>2, <1>4, <1>5, MovesKeepKInv

LEMMA LoadKInv == ASSUME KInv, NEW t \in Tabs, open(t) \/ login(t) PROVE KInv'
<1>1. TypeOK /\ IInv'
  BY OpenIInv, LoginIInv DEF KInv, IInv
<1>2. PICK k : load(t, k)
  BY DEF open, login
<1>3. world'.faults = world.faults
  BY DEF open, login, KInv, IInv, WorldType
<1>4. /\ \A o \in Tabs : renewal'[o] = IF o = t THEN NoRenewal ELSE renewal[o]
      /\ \A o \in Tabs, q \in Requests : req'[o][q] = IF o = t THEN Resting ELSE req[o][q]
      /\ \A o \in Tabs : o # t => tab'[o] = tab[o]
      /\ over' = over
  BY <1>1, <1>2 DEF load, TypeOK
<1>5. \A o \in Tabs : RenewalMoves(o)
  BY <1>4 DEF RenewalMoves, NoRenewal
<1>6. \A o \in Tabs, q \in Requests : RequestMoves(o, q)
  BY <1>4 DEF RequestMoves, Resting
<1> QED
  BY <1>1, <1>3, <1>4, <1>5, <1>6, MovesKeepKInv

LEMMA NextKInv == KInv /\ [Next]_vars => KInv'
<1> SUFFICES ASSUME KInv, [Next]_vars PROVE KInv'
  OBVIOUS
<1>1. CASE UNCHANGED vars
  <2>1. IInv'
    BY <1>1, NextIInv DEF KInv
  <2> QED
    BY <1>1, <2>1 DEF KInv, RenewsItsOwn, RefusedIsOver, AnswerIsFresh, RetryIsTaken, vars
<1>2. ASSUME NEW t \in Tabs, request(t) PROVE KInv'
  BY <1>2, AnsweredKInv, RefusalKInv DEF request
<1> QED
  BY <1>1, <1>2, RefreshKInv, AroundKInv, RenewIfNeededKInv, AskKInv, RenewedKInv, SignOutKInv,
     LoadKInv DEF Next

\* A 401 that signs a tab out finds its session over.
LEMMA ForcedOnlyWhenOver ==
    ASSUME KInv, [Next]_vars, NEW t \in Tabs, ended[t] # "forced", ended'[t] = "forced",
           world.faults \subseteq {"clock"}
    PROVE  tab[t].session \in over
<1>1. ended \in [Tabs -> {"no", "user", "forced"}]
  BY DEF KInv, IInv, TypeOK
<1>2. ASSUME NEW o \in Tabs, NEW how \in {"user", "forced"}, logout(o, how)
      PROVE  o = t /\ tab[t].session # None /\ how = "forced"
  BY <1>1, <1>2 DEF logout
<1>3. ASSUME NEW o \in Tabs, NEW q \in Requests, firstRefusal(o, q) PROVE FALSE
  <2>1. logout(o, "forced") /\ tab[o].session = None
    BY <1>3 DEF firstRefusal, staysSignedIn
  <2> QED
    BY <1>2, <2>1
<1>4. ASSUME NEW o \in Tabs, NEW q \in Requests, secondRefusal(o, q) PROVE FALSE
  BY <1>4 DEF secondRefusal, KInv, RetryIsTaken
<1>5. ASSUME NEW o \in Tabs, renewalFailed(o) PROVE tab[t].session \in over
  <2>1. /\ renewal[o].at = "answered" /\ renewal[o].token = Blank
        /\ logout(o, "forced")
    BY <1>5 DEF renewalFailed, Fault, staysSignedIn
  <2>2. o = t /\ tab[t].session # None
    BY <1>2, <2>1
  <2> QED
    BY <2>1, <2>2 DEF KInv, RefusedIsOver
<1>6. ASSUME NEW o \in Tabs, NEW k, load(o, k) PROVE FALSE
  BY <1>1, <1>6 DEF load
<1>7. ASSUME NEW o \in Tabs, signOut(o) PROVE FALSE
  BY <1>2, <1>7 DEF signOut
<1>8. ended' # ended
  OBVIOUS
<1> QED
  <2>1. PICK o \in Tabs : request(o) \/ renewed(o) \/ signOut(o) \/ open(o) \/ login(o)
    BY <1>8 DEF Next, vars, revoke, signOutLost, Tick, refresh, ask, renewIfNeeded, staysSignedIn
  <2>2. CASE request(o)
    BY <1>3, <1>4, <1>8, <2>2 DEF request, answered, staysSignedIn
  <2>3. CASE renewed(o)
    BY <1>5, <1>8, <2>3 DEF renewed, setSession
  <2> QED
    BY <1>6, <1>7, <2>1, <2>2, <2>3 DEF open, login

\* Nobody is signed out of a tab by a 401 while the session it holds could still be renewed: with a
\* network and a server that answer, whatever the other tabs do and whatever the clock says
\* (session.ts, above the response interceptor; refresh-token.service.ts, above redeem).
THEOREM NobodyIsSignedOutEarly == Spec => KeptSignedIn
<1>1. KInv /\ [Next]_vars =>
         [\A t \in Tabs :
            ended[t] # "forced" /\ ended'[t] = "forced" /\ world.faults \subseteq {"clock"} =>
               tab[t].session \in over]_vars
  BY ForcedOnlyWhenOver
<1> QED
  BY <1>1, InitKInv, NextKInv, PTL DEF Spec, KeptSignedIn

----------------------------------------------------------------------------
\* The account behind the session (Accounts), which shares no variable with it.

AccountWorldType == [logins : Nat, renames : Nat, uses : Nat, writes : Nat, deletions : Nat,
                     restarts : Nat]
RowType == [who : People \cup {Nobody}, handle : Handles \cup {NoHandle}, token : Nat]
LoginType == [at : {"idle", "profile", "read", "released", "claimed"}, who : People \cup {Nobody},
              handle : Handles \cup {NoHandle}, token : Nat, id : Ids \cup {0}]
UseType == [at : {"idle", "asked", "refused"}, id : Ids \cup {0}, who : People \cup {Nobody}, token : Nat]
WriteType == [id : Ids \cup {0}, what : Collected]

AccountsTypeOK ==
    /\ accountWorld \in AccountWorldType
    /\ handle \in [People -> Handles]
    /\ granted \in [People -> [last : Nat, withdrawn : Nat]]
    /\ user \in [Ids -> RowType]
    /\ keyed \in [Ids -> SUBSET Collected]
    /\ signing \in [Logins -> LoginType]
    /\ use \in [Readers -> UseType]
    /\ writing \in [Writers -> WriteType]
    /\ deletion \in [Ids -> -1..8]
    /\ outrun \subseteq Logins \cup Readers
    /\ named \in [People -> Handles \cup {NoHandle}]
    /\ late \in [Ids -> SUBSET Collected]

\* What is under way knows whose it is.
UnderWay ==
    /\ \A l \in Logins : signing[l].at # "idle" => signing[l].who \in People /\ signing[l].handle \in Handles
    /\ \A l \in Logins : signing[l].at = "claimed" => signing[l].id # 0
    /\ \A r \in Readers : use[r].at # "idle" => use[r].id \in Ids /\ use[r].who \in People

\* A row is one person's from its creation to its deletion, and a person has one.
RowsAreSomebodys ==
    /\ \A i \in Ids : ~exists(i) => user[i].token = 0
    /\ \A i, j \in Ids : exists(i) /\ user[i].who = user[j].who => i = j
    /\ \A l \in Logins : signing[l].at \in {"read", "released"} /\ signing[l].id # 0 =>
           user[signing[l].id].who = signing[l].who \/ deletion[signing[l].id] = -1

\* Of a collection that a deletion has been through, all that is left came after it.
PassedIsEmptied ==
    \A i \in Ids, n \in 1..7 :
        (n < deletion[i] \/ deletion[i] = -1) /\ Collections[n] \in keyed[i] => Collections[n] \in late[i]

GoneForGood == \A i \in Ids : deletion[i] = -1 => ~exists(i)

\* Until it is outrun, what a login read of the rows is still so when it comes to write, and the handle
\* it took is still free.
Undisturbed ==
    /\ \A l \in Logins \ outrun : signing[l].at \in {"read", "released"} =>
           \A i \in Ids : user[i].who = signing[l].who => i = signing[l].id
    /\ \A l \in Logins \ outrun : signing[l].at = "released" =>
           \A i \in Ids : user[i].handle = signing[l].handle => i = signing[l].id

\* Until it is outrun, a login brings a token newer than the one on its person's row, and whoever carries
\* a token carries the one on the row.
Newest ==
    /\ \A i \in Ids : exists(i) => user[i].token <= granted[user[i].who].last
    /\ \A l \in Logins : signing[l].at # "idle" => signing[l].token <= granted[signing[l].who].last
    /\ \A l \in Logins \ outrun : signing[l].at \in {"profile", "read", "released"} =>
           \A i \in Ids : user[i].who = signing[l].who => user[i].token < signing[l].token
    /\ \A r \in Readers \ outrun : use[r].at # "idle" /\ exists(use[r].id) =>
           user[use[r].id].who = use[r].who /\ user[use[r].id].token \in {0, use[r].token}

NamedIsTheirs ==
    \A p \in People : named[p] # NoHandle => \E i \in Ids : user[i].who = p /\ user[i].handle = named[p]

\* A refusal was of a token that was withdrawn.
RefusedWhenOutrun ==
    \A r \in Readers : use[r].at = "refused" => use[r].token <= granted[use[r].who].withdrawn

AccountsInv ==
    /\ AccountsTypeOK /\ UnderWay /\ RowsAreSomebodys /\ PassedIsEmptied /\ GoneForGood
    /\ Undisturbed /\ Newest /\ NamedIsTheirs /\ RefusedWhenOutrun

----------------------------------------------------------------------------
LEMMA CollectionsAre ==
    /\ Len(Collections) = 7 /\ DOMAIN Collections = 1..7
    /\ "sessions" \in Collected
    /\ \A n \in 1..7 : Collections[n] \in Collected
    /\ \A what \in Collected : \E n \in 1..7 : Collections[n] = what
<1>1. Len(Collections) = 7 /\ DOMAIN Collections = 1..7 /\ Collections[1] = "sessions"
  BY DEF Collections
<1> HIDE DEF Collections
<1> QED
  BY <1>1 DEF Collected

LEMMA SpentLeaves ==
    ASSUME accountWorld \in AccountWorldType,
           NEW what \in {"logins", "renames", "uses", "writes", "deletions", "restarts"}, spent(what)
    PROVE  accountWorld' \in AccountWorldType
  BY DEF spent, AccountWorldType

LEMMA RecordsStayTyped ==
    /\ \A g \in [last : Nat, withdrawn : Nat], n \in Nat :
           [g EXCEPT !.last = n] \in [last : Nat, withdrawn : Nat]
    /\ \A s \in LoginType, id \in Ids \cup {0} :
           /\ [s EXCEPT !.at = "read", !.id = id] \in LoginType
           /\ [s EXCEPT !.at = "claimed", !.id = id] \in LoginType
           /\ [s EXCEPT !.at = "released"] \in LoginType
    /\ \A u \in RowType : [u EXCEPT !.handle = NoHandle] \in RowType /\ [u EXCEPT !.token = 0] \in RowType
    /\ \A u \in UseType : [u EXCEPT !.at = "refused"] \in UseType
<1>1. \A g \in [last : Nat, withdrawn : Nat], n \in Nat :
          [g EXCEPT !.last = n] \in [last : Nat, withdrawn : Nat]
  OBVIOUS
<1>2. \A s \in LoginType, id \in Ids \cup {0} :
          /\ [s EXCEPT !.at = "read", !.id = id] \in LoginType
          /\ [s EXCEPT !.at = "claimed", !.id = id] \in LoginType
          /\ [s EXCEPT !.at = "released"] \in LoginType
  BY DEF LoginType
<1>3. \A u \in RowType : [u EXCEPT !.handle = NoHandle] \in RowType /\ [u EXCEPT !.token = 0] \in RowType
  BY DEF RowType
<1>4. \A u \in UseType : [u EXCEPT !.at = "refused"] \in UseType
  BY DEF UseType
<1> QED
  BY <1>1, <1>2, <1>3, <1>4

LEMMA RowOfIs ==
    ASSUME NEW p PROVE
    \/ rowOf(p) = 0 /\ \A i \in Ids : user[i].who # p
    \/ rowOf(p) \in Ids /\ user[rowOf(p)].who = p
<1> DEFINE theirs == {i \in Ids : user[i].who = p}
<1>1. CASE theirs = {}
  <2>1. rowOf(p) = 0
    BY <1>1 DEF rowOf
  <2> QED
    BY <1>1, <2>1
<1>2. CASE theirs # {}
  <2>1. rowOf(p) = CHOOSE i \in theirs : TRUE
    BY <1>2 DEF rowOf
  <2>2. rowOf(p) \in theirs
    BY <1>2, <2>1
  <2> QED
    BY <2>2
<1> QED
  BY <1>1, <1>2
----------------------------------------------------------------------------
LEMMA AccountsInitially == AccountsInit => AccountsInv
<1> SUFFICES ASSUME AccountsInit PROVE AccountsInv
  OBVIOUS
<1>1. accountWorld \in AccountWorldType
  BY AccountWorldsAssumption DEF AccountsInit, AccountWorldType
<1>2. AccountsTypeOK
  BY <1>1, CollectionsAre DEF AccountsInit, AccountsTypeOK, RowType, LoginType, UseType, WriteType, Absent, NoLogin,
         NoUse, NoWrite
<1>3. UnderWay
  BY DEF AccountsInit, UnderWay, NoLogin, NoUse
<1>4. RowsAreSomebodys
  BY DEF AccountsInit, RowsAreSomebodys, exists, Absent, NoLogin
<1>5. PassedIsEmptied /\ GoneForGood
  BY DEF AccountsInit, PassedIsEmptied, GoneForGood
<1>6. Undisturbed /\ NamedIsTheirs /\ RefusedWhenOutrun
  BY DEF AccountsInit, Undisturbed, NamedIsTheirs, RefusedWhenOutrun, NoLogin, NoUse
<1>7. Newest
  BY DEF AccountsInit, Newest, exists, Absent, NoLogin, NoUse
<1> QED
  BY <1>2, <1>3, <1>4, <1>5, <1>6, <1>7 DEF AccountsInv

\* Every action keeps the variables in their types.
LEMMA AccountsTyped ==
    AccountsInv /\ [AccountsNext]_accountVars => AccountsTypeOK'
<1> SUFFICES ASSUME AccountsInv, [AccountsNext]_accountVars
             PROVE  AccountsTypeOK'
  OBVIOUS
<1> USE CollectionsAre DEF AccountsInv, AccountsTypeOK
<1>1. ASSUME NEW p \in People, rename(p)
      PROVE AccountsTypeOK'
  BY <1>1, SpentLeaves DEF rename
<1>2. ASSUME NEW p \in People, withdraw(p)
      PROVE AccountsTypeOK'
  BY <1>2, SpentLeaves DEF withdraw
<1>3. ASSUME NEW l \in Logins, NEW p \in People, exchange(l, p)
      PROVE AccountsTypeOK'
  <2>1. accountWorld' \in AccountWorldType
    BY <1>3, SpentLeaves DEF exchange
  <2>2. granted' \in [People -> [last : Nat, withdrawn : Nat]]
    <3>1. granted[p] \in [last : Nat, withdrawn : Nat] /\ granted[p].last + 1 \in Nat
      OBVIOUS
    <3>2. PICK g \in [last : Nat, withdrawn : Nat] : g = [granted[p] EXCEPT !.last = granted[p].last + 1]
      BY <3>1, RecordsStayTyped
    <3>3. granted' = [granted EXCEPT ![p] = g]
      BY <1>3, <3>2 DEF exchange
    <3> QED
      BY <3>2, <3>3
  <2>3. [at |-> "profile", who |-> p, handle |-> handle[p], token |-> granted[p].last + 1, id |-> 0] \in LoginType
    BY DEF LoginType
  <2>4. signing' \in [Logins -> LoginType]
    BY <1>3, <2>3 DEF exchange
  <2> QED
    BY <1>3, <2>1, <2>2, <2>4 DEF exchange
<1>4. ASSUME NEW l \in Logins, readByGithubId(l)
      PROVE AccountsTypeOK'
  <2>1. rowOf(signing[l].who) \in Ids \cup {0}
    BY RowOfIs
  <2>2. signing' \in [Logins -> LoginType]
    <3>1. signing[l] \in LoginType
      OBVIOUS
    <3> QED
      BY <1>4, <2>1, <3>1, RecordsStayTyped DEF readByGithubId
  <2> QED
    BY <1>4, <2>2 DEF readByGithubId
<1>5. ASSUME NEW l \in Logins, releaseGithubLogin(l)
      PROVE AccountsTypeOK'
  <2>1. user' \in [Ids -> RowType]
    <3>1. \A i \in Ids : user[i] \in RowType
      OBVIOUS
    <3> QED
      BY <1>5, <3>1, RecordsStayTyped DEF releaseGithubLogin
  <2>2. signing' \in [Logins -> LoginType]
    <3>1. signing[l] \in LoginType
      OBVIOUS
    <3> QED
      BY <1>5, <3>1, RecordsStayTyped DEF releaseGithubLogin
  <2>3. named' \in [People -> Handles \cup {NoHandle}]
    BY <1>5 DEF releaseGithubLogin
  <2> QED
    BY <1>5, <2>1, <2>2, <2>3 DEF releaseGithubLogin
<1>6. ASSUME NEW l \in Logins, throws(l) \/ issueSession(l)
      PROVE AccountsTypeOK'
  <2>1. NoLogin \in LoginType
    BY DEF NoLogin, LoginType
  <2>2. signing' \in [Logins -> LoginType]
    BY <1>6, <2>1 DEF throws, issueSession
  <2>3. CASE throws(l)
    BY <2>2, <2>3 DEF throws
  <2>4. CASE issueSession(l)
    BY <2>2, <2>4 DEF issueSession, put, belated
  <2> QED
    BY <1>6, <2>3, <2>4
<1>7. ASSUME NEW l \in Logins, NEW i \in Ids, NEW who \in People \cup {Nobody}, claims(l, i, who)
      PROVE AccountsTypeOK'
  <2>1. signing' \in [Logins -> LoginType]
    <3>1. signing[l] \in LoginType
      OBVIOUS
    <3> QED
      BY <1>7, <3>1, RecordsStayTyped DEF claims
  <2>2. [who |-> who, handle |-> signing[l].handle, token |-> signing[l].token] \in RowType
    BY DEF LoginType, RowType
  <2>3. user' \in [Ids -> RowType]
    BY <1>7, <2>2 DEF claims
  <2>4. named' \in [People -> Handles \cup {NoHandle}]
    BY <1>7 DEF claims, LoginType
  <2>5. outrun' \subseteq Logins \cup Readers
    BY <1>7 DEF claims, overtaken
  <2> QED
    BY <1>7, <2>1, <2>3, <2>4, <2>5 DEF claims
<1>8. ASSUME NEW l \in Logins, update(l)
      PROVE AccountsTypeOK'
  <2>1. signing[l].id \in Ids
    BY <1>8 DEF update, LoginType
  <2>2. user[signing[l].id].who \in People \cup {Nobody}
    BY <2>1 DEF RowType
  <2> QED
    BY <1>7, <1>8, <2>1, <2>2 DEF update
<1>9. ASSUME NEW l \in Logins, create(l)
      PROVE AccountsTypeOK'
  <2>1. signing[l].who \in People \cup {Nobody}
    BY DEF LoginType
  <2> QED
    BY <1>7, <1>9, <2>1 DEF create
<1>10. ASSUME NEW r \in Readers, NEW i \in Ids, readsToken(r, i)
       PROVE AccountsTypeOK'
  <2>1. accountWorld' \in AccountWorldType
    BY <1>10, SpentLeaves DEF readsToken
  <2>2. [at |-> "asked", id |-> i, who |-> user[i].who, token |-> user[i].token] \in UseType
    BY DEF UseType, RowType
  <2> QED
    BY <1>10, <2>1, <2>2 DEF readsToken
<1>11. ASSUME NEW r \in Readers, askGithub(r)
       PROVE AccountsTypeOK'
  <2>1. NoUse \in UseType
    BY DEF UseType, NoUse
  <2>2. use[r] \in UseType
    OBVIOUS
  <2> QED
    BY <1>11, <2>1, <2>2, RecordsStayTyped DEF askGithub
<1>12. ASSUME NEW r \in Readers, clearGithubAccessToken(r)
       PROVE AccountsTypeOK'
  <2>1. NoUse \in UseType
    BY DEF UseType, NoUse
  <2>2. user' \in [Ids -> RowType]
    <3>1. \A i \in Ids : user[i] \in RowType
      OBVIOUS
    <3> QED
      BY <1>12, <3>1, RecordsStayTyped DEF clearGithubAccessToken
  <2> QED
    BY <1>12, <2>1, <2>2 DEF clearGithubAccessToken
<1>13. ASSUME NEW w \in Writers, NEW i \in Ids, readsUser(w, i)
       PROVE AccountsTypeOK'
  BY <1>13, SpentLeaves DEF readsUser, WriteType
<1>14. ASSUME NEW w \in Writers, writesKeyed(w)
       PROVE AccountsTypeOK'
  <2>1. NoWrite \in WriteType /\ writing[w].what \in Collected
    BY DEF WriteType, NoWrite
  <2> QED
    BY <1>14, <2>1 DEF writesKeyed, put, belated
<1>15. ASSUME NEW i \in Ids, deleteAccount(i)
       PROVE AccountsTypeOK'
  BY <1>15, SpentLeaves DEF deleteAccount
<1>16. ASSUME NEW i \in Ids, deleteNext(i)
       PROVE AccountsTypeOK'
  BY <1>16 DEF deleteNext, deleteForUser
<1>17. ASSUME NEW i \in Ids, deleteRow(i)
       PROVE AccountsTypeOK'
  <2>1. Absent \in RowType
    BY DEF Absent, RowType
  <2>2. user' \in [Ids -> RowType] /\ named' \in [People -> Handles \cup {NoHandle}]
    BY <1>17, <2>1 DEF deleteRow
  <2>3. deletion' \in [Ids -> -1..8]
    BY <1>17 DEF deleteRow
  <2> QED
    BY <1>17, <2>2, <2>3 DEF deleteRow
<1>18. CASE RestartAccounts
  <2>1. NoLogin \in LoginType /\ NoUse \in UseType /\ NoWrite \in WriteType
    BY DEF NoLogin, LoginType, NoUse, UseType, NoWrite, WriteType
  <2> QED
    BY <1>18, <2>1, SpentLeaves DEF RestartAccounts
<1>19. CASE UNCHANGED accountVars
  BY <1>19 DEF accountVars
<1> QED
  BY <1>1, <1>2, <1>3, <1>4, <1>5, <1>6, <1>8, <1>9, <1>10, <1>11, <1>12, <1>13, <1>14, <1>15, <1>16, <1>17,
     <1>18, <1>19
     DEF AccountsNext, Login, Use, Write, Delete, GitHubAccounts

----------------------------------------------------------------------------
\* A claim is made of a row that is the login's own or nobody's, under a name and a handle no other row
\* has.
LEMMA ClaimIsFree ==
    ASSUME AccountsInv, NEW l \in Logins, update(l) \/ create(l)
    PROVE  /\ signing[l].at = "released" /\ signing[l].who \in People /\ signing[l].handle \in Handles
           /\ \E i \in Ids : /\ claims(l, i, signing[l].who)
                             /\ deletion[i] # -1
                             /\ user[i].who = signing[l].who \/ ~exists(i)
                             /\ \A j \in Ids \ {i} : /\ user[j].who # signing[l].who
                                                     /\ user[j].handle # signing[l].handle
<1> USE DEF AccountsInv
<1>1. signing[l].at = "released" /\ signing[l].who \in People /\ signing[l].handle \in Handles
  BY DEF update, create, UnderWay
<1>2. ASSUME update(l)
      PROVE  \E i \in Ids : /\ claims(l, i, signing[l].who)
                            /\ deletion[i] # -1
                            /\ user[i].who = signing[l].who \/ ~exists(i)
                            /\ \A j \in Ids \ {i} : /\ user[j].who # signing[l].who
                                                    /\ user[j].handle # signing[l].handle
  <2>1. signing[l].id \in Ids /\ exists(signing[l].id)
    BY <1>2 DEF update, AccountsTypeOK, LoginType
  <2>2. deletion[signing[l].id] # -1
    BY <2>1 DEF GoneForGood
  <2>3. user[signing[l].id].who = signing[l].who
    BY <1>1, <1>2, <2>1, <2>2 DEF update, RowsAreSomebodys
  <2> QED
    BY <1>2, <2>1, <2>2, <2>3 DEF update, refusesRow
<1>3. ASSUME create(l)
      PROVE  \E i \in Ids : /\ claims(l, i, signing[l].who)
                            /\ deletion[i] # -1
                            /\ user[i].who = signing[l].who \/ ~exists(i)
                            /\ \A j \in Ids \ {i} : /\ user[j].who # signing[l].who
                                                    /\ user[j].handle # signing[l].handle
  <2>1. \A j \in Ids : user[j].who # signing[l].who /\ user[j].handle # signing[l].handle
    BY <1>3, IdsAssumption DEF create, refusesRow
  <2> QED
    BY <1>3, <2>1 DEF create
<1> QED
  BY <1>1, <1>2, <1>3

\* What a claim makes of the rows, of the names given, and of the login.
LEMMA ClaimWrites ==
    ASSUME AccountsTypeOK, NEW l \in Logins, NEW i \in Ids, NEW who \in People, claims(l, i, who)
    PROVE  /\ user'[i].who = who /\ user'[i].handle = signing[l].handle
           /\ user'[i].token = signing[l].token
           /\ \A j \in Ids \ {i} : user'[j] = user[j]
           /\ named'[who] = signing[l].handle
           /\ \A p \in People \ {who} : named'[p] = named[p]
           /\ signing'[l].at = "claimed" /\ signing'[l].id = i
           /\ signing'[l].who = signing[l].who /\ signing'[l].handle = signing[l].handle
           /\ \A o \in Logins \ {l} : signing'[o] = signing[o]
           /\ outrun \subseteq outrun'
           /\ \A o \in Logins \ {l} : o \notin outrun' =>
                  signing[o].who # signing[l].who /\ signing[o].handle # signing[l].handle
           /\ \A r \in Readers : r \notin outrun' => use[r].id # i
<1>1. \A j \in Ids \ {i} : user'[j] = user[j]
  BY DEF AccountsTypeOK, claims
<1>2. user'[i] = [who |-> who, handle |-> signing[l].handle, token |-> signing[l].token]
  BY DEF AccountsTypeOK, claims
<1>3. named'[who] = signing[l].handle /\ \A p \in People \ {who} : named'[p] = named[p]
  BY DEF AccountsTypeOK, claims
<1>4. signing'[l] = [signing[l] EXCEPT !.at = "claimed", !.id = i]
  BY DEF AccountsTypeOK, claims
<1>5. \A o \in Logins \ {l} : signing'[o] = signing[o]
  BY DEF AccountsTypeOK, claims
<1>6. signing[l] \in LoginType
  BY DEF AccountsTypeOK
<1>7. /\ outrun \subseteq outrun'
      /\ \A o \in Logins \ {l} : o \notin outrun' =>
             signing[o].who # signing[l].who /\ signing[o].handle # signing[l].handle
      /\ \A r \in Readers : r \notin outrun' => use[r].id # i
  BY DEF claims, overtaken
<1> QED
  BY <1>1, <1>2, <1>3, <1>4, <1>5, <1>6, <1>7 DEF LoginType

\* What reading the row and taking the handle make of the login.
LEMMA ReadWrites ==
    ASSUME AccountsTypeOK, NEW l \in Logins, readByGithubId(l)
    PROVE  /\ signing[l].at = "profile" /\ signing'[l].at = "read" /\ signing'[l].id = rowOf(signing[l].who)
           /\ signing'[l].who = signing[l].who /\ signing'[l].handle = signing[l].handle
           /\ \A o \in Logins \ {l} : signing'[o] = signing[o]
<1>1. signing'[l] = [signing[l] EXCEPT !.at = "read", !.id = rowOf(signing[l].who)]
  BY DEF AccountsTypeOK, readByGithubId
<1>2. \A o \in Logins \ {l} : signing'[o] = signing[o]
  BY DEF AccountsTypeOK, readByGithubId
<1>3. signing[l] \in LoginType
  BY DEF AccountsTypeOK
<1>4. signing[l].at = "profile"
  BY DEF readByGithubId
<1> QED
  BY <1>1, <1>2, <1>3, <1>4 DEF LoginType

LEMMA ReleaseWrites ==
    ASSUME AccountsTypeOK, NEW l \in Logins, releaseGithubLogin(l)
    PROVE  /\ signing[l].at = "read" /\ signing'[l].at = "released" /\ signing'[l].id = signing[l].id
           /\ signing'[l].who = signing[l].who /\ signing'[l].handle = signing[l].handle
           /\ \A o \in Logins \ {l} : signing'[o] = signing[o]
           /\ \A i \in Ids : /\ user'[i].who = user[i].who /\ user'[i].token = user[i].token
                             /\ IF i # signing[l].id /\ user[i].handle = signing[l].handle
                                THEN user'[i].handle = NoHandle
                                ELSE user'[i].handle = user[i].handle
           /\ \A p \in People : named'[p] = IF /\ named[p] = signing[l].handle
                                               /\ p # signing[l].who \/ l \in outrun
                                            THEN NoHandle ELSE named[p]
<1>1. signing'[l] = [signing[l] EXCEPT !.at = "released"]
  BY DEF AccountsTypeOK, releaseGithubLogin
<1>2. \A o \in Logins \ {l} : signing'[o] = signing[o]
  BY DEF AccountsTypeOK, releaseGithubLogin
<1>3. signing[l] \in LoginType
  BY DEF AccountsTypeOK
<1>4. /\ signing'[l].at = "released" /\ signing'[l].id = signing[l].id
      /\ signing'[l].who = signing[l].who /\ signing'[l].handle = signing[l].handle
  BY <1>1, <1>3 DEF LoginType
<1>5. ASSUME NEW i \in Ids
      PROVE  /\ user'[i].who = user[i].who /\ user'[i].token = user[i].token
             /\ IF i # signing[l].id /\ user[i].handle = signing[l].handle
                THEN user'[i].handle = NoHandle
                ELSE user'[i].handle = user[i].handle
  <2>1. user[i] \in RowType
    BY DEF AccountsTypeOK
  <2>2. user'[i] = IF i # signing[l].id /\ user[i].handle = signing[l].handle
                   THEN [user[i] EXCEPT !.handle = NoHandle] ELSE user[i]
    BY DEF releaseGithubLogin, releases
  <2> QED
    BY <2>1, <2>2 DEF RowType
<1>6. \A p \in People : named'[p] = IF /\ named[p] = signing[l].handle
                                       /\ p # signing[l].who \/ l \in outrun
                                    THEN NoHandle ELSE named[p]
  BY DEF releaseGithubLogin, AccountsTypeOK
<1> QED
  BY <1>2, <1>4, <1>5, <1>6 DEF releaseGithubLogin

LEMMA ExchangeWrites ==
    ASSUME AccountsTypeOK, NEW l \in Logins, NEW p \in People, exchange(l, p)
    PROVE  /\ signing[l].at = "idle" /\ signing'[l].at = "profile"
           /\ signing'[l].who = p /\ signing'[l].handle = handle[p] /\ handle[p] \in Handles
           /\ \A o \in Logins \ {l} : signing'[o] = signing[o]
  BY DEF AccountsTypeOK, exchange

LEMMA LeavingWrites ==
    ASSUME AccountsTypeOK, NEW l \in Logins, throws(l) \/ issueSession(l)
    PROVE  signing'[l] = NoLogin /\ \A o \in Logins \ {l} : signing'[o] = signing[o]
  BY DEF AccountsTypeOK, throws, issueSession

LEMMA ClearWrites ==
    ASSUME AccountsTypeOK, NEW r \in Readers, clearGithubAccessToken(r)
    PROVE  \A i \in Ids : /\ user'[i].who = user[i].who /\ user'[i].handle = user[i].handle
                          /\ user'[i].token \in {user[i].token, 0}
<1> SUFFICES ASSUME NEW i \in Ids
             PROVE  /\ user'[i].who = user[i].who /\ user'[i].handle = user[i].handle
                    /\ user'[i].token \in {user[i].token, 0}
  OBVIOUS
<1>1. user[i] \in RowType
  BY DEF AccountsTypeOK
<1>2. user'[i] = user[i] \/ user'[i] = [user[i] EXCEPT !.token = 0]
  BY DEF AccountsTypeOK, clearGithubAccessToken
<1> QED
  BY <1>1, <1>2 DEF RowType

\* Deleting a row leaves the others.
LEMMA DeletionWrites ==
    ASSUME AccountsTypeOK, NEW i \in Ids, deleteRow(i)
    PROVE  /\ user'[i] = Absent /\ \A j \in Ids \ {i} : user'[j] = user[j]
           /\ deletion'[i] = -1 /\ \A j \in Ids \ {i} : deletion'[j] = deletion[j]
           /\ \A p \in People : named'[p] = IF p = user[i].who THEN NoHandle ELSE named[p]
           /\ signing' = signing /\ use' = use /\ keyed' = keyed /\ late' = late
  BY DEF AccountsTypeOK, deleteRow

----------------------------------------------------------------------------
LEMMA UnderWayStays == AccountsInv /\ [AccountsNext]_accountVars => UnderWay'
<1> SUFFICES ASSUME AccountsInv, [AccountsNext]_accountVars PROVE UnderWay'
  OBVIOUS
<1>1. AccountsTypeOK
  BY DEF AccountsInv
<1>2. UnderWay
  BY DEF AccountsInv
<1>3. ASSUME NEW l \in Logins, NEW p \in People, exchange(l, p) PROVE UnderWay'
  <2>1. use' = use
    BY <1>3 DEF exchange
  <2> QED
    BY <1>1, <1>2, <1>3, <2>1, ExchangeWrites DEF UnderWay
<1>4. ASSUME NEW l \in Logins, readByGithubId(l) PROVE UnderWay'
  <2>1. use' = use
    BY <1>4 DEF readByGithubId
  <2> QED
    BY <1>1, <1>2, <1>4, <2>1, ReadWrites DEF UnderWay
<1>5. ASSUME NEW l \in Logins, releaseGithubLogin(l) PROVE UnderWay'
  <2>1. use' = use
    BY <1>5 DEF releaseGithubLogin
  <2> QED
    BY <1>1, <1>2, <1>5, <2>1, ReleaseWrites DEF UnderWay
<1>6. ASSUME NEW l \in Logins, throws(l) \/ issueSession(l) PROVE UnderWay'
  <2>1. use' = use
    BY <1>6 DEF throws, issueSession
  <2> QED
    BY <1>1, <1>2, <1>6, <2>1, LeavingWrites DEF UnderWay, NoLogin
<1>7. ASSUME NEW l \in Logins, update(l) \/ create(l) PROVE UnderWay'
  <2>1. PICK i \in Ids : claims(l, i, signing[l].who)
    BY <1>7, ClaimIsFree
  <2>2. signing[l].who \in People /\ signing[l].handle \in Handles
    BY <1>7, ClaimIsFree
  <2>3. i # 0
    BY IdsAssumption
  <2>4. use' = use
    BY <2>1 DEF claims
  <2>5. /\ signing'[l].at = "claimed" /\ signing'[l].id = i
        /\ signing'[l].who = signing[l].who /\ signing'[l].handle = signing[l].handle
        /\ \A o \in Logins \ {l} : signing'[o] = signing[o]
    BY <1>1, <2>1, <2>2, ClaimWrites
  <2> QED
    BY <1>2, <2>2, <2>3, <2>4, <2>5 DEF UnderWay
<1>8. ASSUME NEW r \in Readers, NEW i \in Ids, readsToken(r, i) PROVE UnderWay'
  <2>1. user[i].who \in People
    BY <1>8 DEF readsToken, AccountsInv, AccountsTypeOK, RowType, RowsAreSomebodys, exists
  <2>2. /\ use'[r].id = i /\ use'[r].who = user[i].who /\ signing' = signing
        /\ \A o \in Readers \ {r} : use'[o] = use[o]
    BY <1>1, <1>8 DEF AccountsTypeOK, readsToken
  <2> QED
    BY <1>2, <2>1, <2>2 DEF UnderWay
<1>9. ASSUME NEW r \in Readers, askGithub(r) \/ clearGithubAccessToken(r) PROVE UnderWay'
  <2>1. /\ use[r].at # "idle" /\ signing' = signing /\ \A o \in Readers \ {r} : use'[o] = use[o]
    BY <1>1, <1>9 DEF AccountsTypeOK, askGithub, clearGithubAccessToken
  <2>2. use'[r] = NoUse \/ use'[r] = [use[r] EXCEPT !.at = "refused"]
    BY <1>1, <1>9 DEF AccountsTypeOK, askGithub, clearGithubAccessToken
  <2>3. use[r] \in UseType
    BY <1>1 DEF AccountsTypeOK
  <2>4. use'[r].at # "idle" => use'[r].id = use[r].id /\ use'[r].who = use[r].who
    BY <2>2, <2>3 DEF UseType, NoUse
  <2> QED
    BY <1>2, <2>1, <2>4 DEF UnderWay
<1>10. CASE RestartAccounts
  BY <1>10 DEF RestartAccounts, UnderWay, NoLogin, NoUse
<1>11. CASE UNCHANGED <<signing, use>>
  BY <1>2, <1>11 DEF UnderWay
<1> QED
  BY <1>3, <1>4, <1>5, <1>6, <1>7, <1>8, <1>9, <1>10, <1>11
     DEF AccountsNext, Login, Use, Write, Delete, GitHubAccounts, accountVars, rename, withdraw,
         readsUser, writesKeyed, deleteAccount, deleteNext, deleteRow

\* A row is created for one person, and stays theirs.
LEMMA RowsStaySomebodys == AccountsInv /\ [AccountsNext]_accountVars => RowsAreSomebodys'
<1> SUFFICES ASSUME AccountsInv, [AccountsNext]_accountVars PROVE RowsAreSomebodys'
  OBVIOUS
<1>1. AccountsTypeOK /\ UnderWay
  BY DEF AccountsInv
<1>2. RowsAreSomebodys
  BY DEF AccountsInv
<1>3. ASSUME NEW l \in Logins, NEW p \in People, exchange(l, p) PROVE RowsAreSomebodys'
  <2>1. user' = user /\ deletion' = deletion
    BY <1>3 DEF exchange
  <2> QED
    BY <1>1, <1>2, <1>3, <2>1, ExchangeWrites DEF RowsAreSomebodys, exists
<1>4. ASSUME NEW l \in Logins, readByGithubId(l) PROVE RowsAreSomebodys'
  <2>1. user' = user /\ deletion' = deletion
    BY <1>4 DEF readByGithubId
  <2>2. rowOf(signing[l].who) = 0 \/ user[rowOf(signing[l].who)].who = signing[l].who
    BY RowOfIs
  <2> QED
    BY <1>1, <1>2, <1>4, <2>1, <2>2, ReadWrites DEF RowsAreSomebodys, exists
<1>5. ASSUME NEW l \in Logins, releaseGithubLogin(l) PROVE RowsAreSomebodys'
  <2>1. deletion' = deletion
    BY <1>5 DEF releaseGithubLogin
  <2>2. \A o \in Logins : signing'[o].id = signing[o].id /\ signing'[o].who = signing[o].who
    BY <1>1, <1>5, ReleaseWrites
  <2>3. \A o \in Logins : signing'[o].at \in {"read", "released"} => signing[o].at \in {"read", "released"}
    BY <1>1, <1>5, ReleaseWrites
  <2>4. \A i \in Ids : user'[i].who = user[i].who /\ user'[i].token = user[i].token
    BY <1>1, <1>5, ReleaseWrites
  <2>5. \A o \in Logins : signing[o].id \in Ids \cup {0}
    BY <1>1 DEF AccountsTypeOK, LoginType
  <2> QED
    BY <1>2, <2>1, <2>2, <2>3, <2>4, <2>5 DEF RowsAreSomebodys, exists
<1>6. ASSUME NEW l \in Logins, throws(l) \/ issueSession(l) PROVE RowsAreSomebodys'
  <2>1. user' = user /\ deletion' = deletion
    BY <1>6 DEF throws, issueSession
  <2> QED
    BY <1>1, <1>2, <1>6, <2>1, LeavingWrites DEF RowsAreSomebodys, exists, NoLogin
<1>7. ASSUME NEW l \in Logins, update(l) \/ create(l) PROVE RowsAreSomebodys'
  <2>1. PICK i \in Ids : /\ claims(l, i, signing[l].who)
                         /\ deletion[i] # -1
                         /\ user[i].who = signing[l].who \/ ~exists(i)
                         /\ \A j \in Ids \ {i} : user[j].who # signing[l].who
    BY <1>7, ClaimIsFree
  <2>2. signing[l].who \in People
    BY <1>7, ClaimIsFree
  <2>3. deletion' = deletion
    BY <2>1 DEF claims
  <2>4. /\ user'[i].who = signing[l].who
        /\ \A j \in Ids \ {i} : user'[j] = user[j]
        /\ signing'[l].at = "claimed"
        /\ \A o \in Logins \ {l} : signing'[o] = signing[o]
    BY <1>1, <2>1, <2>2, ClaimWrites
  <2>5. \A j \in Ids : ~(user'[j].who # Nobody) => user'[j].token = 0
    BY <1>2, <2>2, <2>4, NobodyAssumption DEF RowsAreSomebodys, exists
  <2>6. \A j, k \in Ids : user'[j].who # Nobody /\ user'[j].who = user'[k].who => j = k
    BY <1>2, <2>1, <2>4 DEF RowsAreSomebodys, exists
  <2>7. ASSUME NEW o \in Logins, signing'[o].at \in {"read", "released"}, signing'[o].id # 0
        PROVE  user'[signing'[o].id].who = signing'[o].who \/ deletion'[signing'[o].id] = -1
    <3>1. o # l /\ signing'[o] = signing[o]
      BY <2>4, <2>7
    <3>2. user[signing[o].id].who = signing[o].who \/ deletion[signing[o].id] = -1
      BY <1>2, <2>7, <3>1 DEF RowsAreSomebodys
    <3>3. signing[o].id \in Ids /\ signing[o].who \in People
      BY <1>1, <2>7, <3>1 DEF AccountsTypeOK, LoginType, UnderWay
    <3> QED
      BY <2>1, <2>3, <2>4, <3>1, <3>2, <3>3, NobodyAssumption DEF exists
  <2> QED
    BY <2>5, <2>6, <2>7 DEF RowsAreSomebodys, exists
<1>8. ASSUME NEW r \in Readers, clearGithubAccessToken(r) PROVE RowsAreSomebodys'
  <2>1. deletion' = deletion /\ signing' = signing
    BY <1>8 DEF clearGithubAccessToken
  <2>2. \A o \in Logins : signing[o].id \in Ids \cup {0}
    BY <1>1 DEF AccountsTypeOK, LoginType
  <2>3. \A i \in Ids : user'[i].who = user[i].who /\ user'[i].token \in {user[i].token, 0}
    BY <1>1, <1>8, ClearWrites
  <2> QED
    BY <1>2, <2>1, <2>2, <2>3 DEF RowsAreSomebodys, exists
<1>9. ASSUME NEW i \in Ids, deleteRow(i) PROVE RowsAreSomebodys'
  <2>1. \A o \in Logins : signing[o].id \in Ids \cup {0}
    BY <1>1 DEF AccountsTypeOK, LoginType
  <2>2. /\ user'[i] = Absent /\ \A j \in Ids \ {i} : user'[j] = user[j]
        /\ deletion'[i] = -1 /\ \A j \in Ids \ {i} : deletion'[j] = deletion[j]
        /\ signing' = signing
    BY <1>1, <1>9, DeletionWrites
  <2> QED
    BY <1>2, <2>1, <2>2 DEF RowsAreSomebodys, exists, Absent
<1>10. ASSUME NEW i \in Ids, deleteAccount(i) \/ deleteNext(i) PROVE RowsAreSomebodys'
  <2>1. \A j \in Ids : deletion[j] = -1 => deletion'[j] = -1
    <3>1. CASE deleteAccount(i)
      BY <1>1, <3>1 DEF deleteAccount, AccountsTypeOK
    <3>2. CASE deleteNext(i)
      <4>1. deletion[i] # -1
        BY <3>2, CollectionsAre DEF deleteNext
      <4>2. \A j \in Ids \ {i} : deletion'[j] = deletion[j]
        BY <1>1, <3>2 DEF deleteNext, AccountsTypeOK
      <4> QED
        BY <4>1, <4>2
    <3> QED
      BY <1>10, <3>1, <3>2
  <2>2. user' = user /\ signing' = signing
    BY <1>10 DEF deleteAccount, deleteNext
  <2>3. \A o \in Logins : signing[o].id \in Ids \cup {0}
    BY <1>1 DEF AccountsTypeOK, LoginType
  <2> QED
    BY <1>2, <2>1, <2>2, <2>3 DEF RowsAreSomebodys, exists
<1>11. CASE RestartAccounts
  BY <1>2, <1>11 DEF RestartAccounts, RowsAreSomebodys, exists, NoLogin
<1>12. CASE UNCHANGED <<user, signing, deletion>>
  BY <1>2, <1>12 DEF RowsAreSomebodys, exists
<1> QED
  BY <1>3, <1>4, <1>5, <1>6, <1>7, <1>8, <1>9, <1>10, <1>11, <1>12
     DEF AccountsNext, Login, Use, Write, Delete, GitHubAccounts, accountVars, rename, withdraw,
         readsUser, writesKeyed, readsToken, askGithub

\* What a deletion has been through is empty but for what came after it.
LEMMA PassedStaysEmptied == AccountsInv /\ [AccountsNext]_accountVars => PassedIsEmptied'
<1> SUFFICES ASSUME AccountsInv, [AccountsNext]_accountVars,
                    NEW i \in Ids, NEW n \in 1..7,
                    n < deletion'[i] \/ deletion'[i] = -1,
                    Collections[n] \in keyed'[i]
             PROVE  Collections[n] \in late'[i]
  BY DEF PassedIsEmptied
<1>1. AccountsTypeOK
  BY DEF AccountsInv
<1>2. (n < deletion[i] \/ deletion[i] = -1) /\ Collections[n] \in keyed[i] => Collections[n] \in late[i]
  BY DEF AccountsInv, PassedIsEmptied
<1>3. deletion[i] \in -1..8
  BY <1>1 DEF AccountsTypeOK
<1>4. ASSUME NEW j \in Ids, NEW what, put(j, what), deletion' = deletion
      PROVE  Collections[n] \in late'[i]
  <2>1. /\ keyed'[i] = IF i = j THEN keyed[i] \cup {what} ELSE keyed[i]
        /\ late'[i] = IF i = j THEN late[i] \cup belated(i, what) ELSE late[i]
    BY <1>1, <1>4 DEF AccountsTypeOK, put
  <2>2. CASE Collections[n] \in keyed[i]
    BY <1>2, <1>4, <2>1, <2>2
  <2>3. CASE Collections[n] \notin keyed[i]
    <3>1. i = j /\ Collections[n] = what
      BY <2>1, <2>3
    <3>2. belated(i, what) = {what}
      BY <1>4, <3>1, CollectionsAre DEF belated
    <3> QED
      BY <2>1, <3>1, <3>2
  <2> QED
    BY <2>2, <2>3
<1>5. ASSUME NEW l \in Logins, issueSession(l) PROVE Collections[n] \in late'[i]
  <2>1. signing[l].id \in Ids
    BY <1>1, <1>5 DEF issueSession, AccountsInv, AccountsTypeOK, LoginType, UnderWay
  <2> QED
    BY <1>4, <1>5, <2>1 DEF issueSession
<1>6. ASSUME NEW w \in Writers, writesKeyed(w) PROVE Collections[n] \in late'[i]
  <2>1. writing[w].id \in Ids
    BY <1>1, <1>6 DEF writesKeyed, AccountsTypeOK, WriteType
  <2> QED
    BY <1>4, <1>6, <2>1 DEF writesKeyed
<1>7. ASSUME NEW j \in Ids, deleteAccount(j) PROVE Collections[n] \in late'[i]
  <2>1. keyed' = keyed /\ late' = late
    BY <1>7 DEF deleteAccount
  <2>2. deletion'[i] = deletion[i] \/ deletion'[i] = 1
    BY <1>1, <1>7 DEF deleteAccount, AccountsTypeOK
  <2> QED
    BY <1>2, <2>1, <2>2
<1>8. ASSUME NEW j \in Ids, deleteNext(j) PROVE Collections[n] \in late'[i]
  <2>1. CASE i # j
    BY <1>1, <1>2, <1>8, <2>1 DEF deleteNext, deleteForUser, AccountsTypeOK
  <2>2. CASE i = j
    <3>1. deletion[i] \in 1..7
      BY <1>8, <2>2, CollectionsAre DEF deleteNext
    <3>2. deletion'[i] = deletion[i] + 1
      BY <1>1, <1>8, <2>2 DEF deleteNext, AccountsTypeOK
    <3>3. /\ keyed'[i] = keyed[i] \ {Collections[deletion[i]]}
          /\ late'[i] = late[i] \ {Collections[deletion[i]]}
      BY <1>1, <1>8, <2>2 DEF deleteNext, deleteForUser, AccountsTypeOK
    <3>4. Collections[n] \in keyed[i] /\ Collections[n] # Collections[deletion[i]]
      BY <3>3
    <3>5. n < deletion[i]
      BY <3>1, <3>2, <3>4
    <3> QED
      BY <1>2, <3>3, <3>4, <3>5
  <2> QED
    BY <2>1, <2>2
<1>9. ASSUME NEW j \in Ids, deleteRow(j) PROVE Collections[n] \in late'[i]
  <2>1. keyed' = keyed /\ late' = late /\ (i # j => deletion'[i] = deletion[i])
    BY <1>1, <1>9, DeletionWrites
  <2>2. i = j => deletion[i] = 8
    BY <1>9, CollectionsAre DEF deleteRow
  <2> QED
    BY <1>2, <2>1, <2>2
<1>10. CASE RestartAccounts
  <2>1. keyed' = keyed /\ late' = late /\ deletion'[i] = IF deletion[i] = -1 THEN -1 ELSE 0
    BY <1>10 DEF RestartAccounts
  <2> QED
    BY <1>2, <2>1
<1>11. CASE UNCHANGED <<keyed, late, deletion>>
  BY <1>2, <1>11
<1> QED
  BY <1>5, <1>6, <1>7, <1>8, <1>9, <1>10, <1>11
     DEF AccountsNext, Login, Use, Write, Delete, GitHubAccounts, accountVars, rename, withdraw, exchange,
         readByGithubId, releaseGithubLogin, throws, update, create, claims, readsToken, askGithub,
         clearGithubAccessToken, readsUser

\* A row that was deleted does not come back.
LEMMA GoneStaysGone == AccountsInv /\ [AccountsNext]_accountVars => GoneForGood'
<1> SUFFICES ASSUME AccountsInv, [AccountsNext]_accountVars,
                    NEW i \in Ids, deletion'[i] = -1
             PROVE  user'[i].who = Nobody
  BY DEF GoneForGood, exists
<1>1. AccountsTypeOK
  BY DEF AccountsInv
<1>2. deletion[i] = -1 => user[i].who = Nobody
  BY DEF AccountsInv, GoneForGood, exists
<1>3. ASSUME NEW l \in Logins, releaseGithubLogin(l) PROVE user'[i].who = Nobody
  <2>1. deletion' = deletion
    BY <1>3 DEF releaseGithubLogin
  <2> QED
    BY <1>1, <1>2, <1>3, <2>1, ReleaseWrites
<1>4. ASSUME NEW l \in Logins, update(l) \/ create(l) PROVE user'[i].who = Nobody
  <2>1. PICK j \in Ids : claims(l, j, signing[l].who) /\ deletion[j] # -1
    BY <1>4, ClaimIsFree
  <2>2. signing[l].who \in People
    BY <1>4, ClaimIsFree
  <2>3. deletion' = deletion
    BY <2>1 DEF claims
  <2>4. \A k \in Ids \ {j} : user'[k] = user[k]
    BY <1>1, <2>1, <2>2, ClaimWrites
  <2> QED
    BY <1>2, <2>1, <2>3, <2>4
<1>5. ASSUME NEW r \in Readers, clearGithubAccessToken(r) PROVE user'[i].who = Nobody
  <2>1. deletion' = deletion
    BY <1>5 DEF clearGithubAccessToken
  <2> QED
    BY <1>1, <1>2, <1>5, <2>1, ClearWrites
<1>6. ASSUME NEW j \in Ids, deleteAccount(j) \/ deleteNext(j) PROVE user'[i].who = Nobody
  <2>1. user' = user
    BY <1>6 DEF deleteAccount, deleteNext
  <2>2. deletion[i] = -1
    <3>1. CASE i # j
      BY <1>1, <1>6, <3>1 DEF deleteAccount, deleteNext, AccountsTypeOK
    <3>2. CASE i = j /\ deleteAccount(j)
      BY <1>1, <3>2 DEF deleteAccount, AccountsTypeOK
    <3>3. CASE i = j /\ deleteNext(j)
      <4>1. deletion[i] \in 1..7
        BY <3>3, CollectionsAre DEF deleteNext
      <4>2. deletion'[i] = deletion[i] + 1
        BY <1>1, <3>3 DEF deleteNext, AccountsTypeOK
      <4> QED
        BY <4>1, <4>2
    <3> QED
      BY <1>6, <3>1, <3>2, <3>3
  <2> QED
    BY <1>2, <2>1, <2>2
<1>7. ASSUME NEW j \in Ids, deleteRow(j) PROVE user'[i].who = Nobody
  BY <1>1, <1>2, <1>7, DeletionWrites DEF Absent
<1>8. CASE RestartAccounts
  <2>1. user' = user /\ deletion'[i] = IF deletion[i] = -1 THEN -1 ELSE 0
    BY <1>8 DEF RestartAccounts
  <2> QED
    BY <1>2, <2>1
<1>9. CASE UNCHANGED <<user, deletion>>
  BY <1>2, <1>9
<1> QED
  BY <1>3, <1>4, <1>5, <1>6, <1>7, <1>8, <1>9
     DEF AccountsNext, Login, Use, Write, Delete, GitHubAccounts, accountVars, rename, withdraw, exchange,
         readByGithubId, throws, issueSession, readsToken, askGithub, readsUser, writesKeyed

\* What GitHub refused stays refused: a token is withdrawn for good.
LEMMA RefusalsStand == AccountsInv /\ [AccountsNext]_accountVars => RefusedWhenOutrun'
<1> SUFFICES ASSUME AccountsInv, [AccountsNext]_accountVars,
                    NEW r \in Readers, use'[r].at = "refused"
             PROVE  use'[r].token <= granted'[use'[r].who].withdrawn
  BY DEF RefusedWhenOutrun
<1>1. AccountsTypeOK /\ UnderWay
  BY DEF AccountsInv
<1>2. use[r].at = "refused" => use[r].token <= granted[use[r].who].withdrawn
  BY DEF AccountsInv, RefusedWhenOutrun
<1>3. use[r].at = "refused" => use[r].who \in People
  BY <1>1 DEF UnderWay
<1>4. use[r] \in UseType /\ use[r].token \in Nat
  BY <1>1 DEF AccountsTypeOK, UseType
<1>5. ASSUME NEW p \in People, withdraw(p) PROVE use'[r].token <= granted'[use'[r].who].withdrawn
  <2>1. use' = use
    BY <1>5 DEF withdraw
  <2>2. \A q \in People : /\ granted[q].withdrawn \in Nat /\ granted'[q].withdrawn \in Nat
                          /\ granted[q].withdrawn <= granted'[q].withdrawn
    BY <1>1, <1>5 DEF withdraw, AccountsTypeOK
  <2> QED
    BY <1>2, <1>3, <1>4, <2>1, <2>2
<1>6. ASSUME NEW l \in Logins, NEW p \in People, exchange(l, p)
      PROVE  use'[r].token <= granted'[use'[r].who].withdrawn
  <2>1. use' = use
    BY <1>6 DEF exchange
  <2>2. \A q \in People : granted'[q].withdrawn = granted[q].withdrawn
    BY <1>1, <1>6 DEF exchange, AccountsTypeOK
  <2> QED
    BY <1>2, <1>3, <2>1, <2>2
<1>7. ASSUME NEW o \in Readers, NEW i \in Ids, readsToken(o, i)
      PROVE  use'[r].token <= granted'[use'[r].who].withdrawn
  <2>1. granted' = granted /\ use'[r] = use[r]
    BY <1>1, <1>7 DEF readsToken, AccountsTypeOK
  <2> QED
    BY <1>2, <2>1
<1>8. ASSUME NEW o \in Readers, askGithub(o) PROVE use'[r].token <= granted'[use'[r].who].withdrawn
  <2>1. granted' = granted
    BY <1>8 DEF askGithub
  <2>2. CASE r # o
    <3>1. use'[r] = use[r]
      BY <1>1, <1>8, <2>2 DEF askGithub, AccountsTypeOK
    <3> QED
      BY <1>2, <2>1, <3>1
  <2>3. CASE r = o
    <3>1. unauthorized(r) /\ use'[r] = [use[r] EXCEPT !.at = "refused"]
      BY <1>1, <1>8, <2>3 DEF askGithub, AccountsTypeOK, NoUse
    <3>2. use'[r].token = use[r].token /\ use'[r].who = use[r].who
      BY <1>4, <3>1 DEF UseType
    <3> QED
      BY <2>1, <3>1, <3>2 DEF unauthorized
  <2> QED
    BY <2>2, <2>3
<1>9. ASSUME NEW o \in Readers, clearGithubAccessToken(o)
      PROVE  use'[r].token <= granted'[use'[r].who].withdrawn
  <2>1. granted' = granted /\ use'[r] = use[r]
    BY <1>1, <1>9 DEF clearGithubAccessToken, AccountsTypeOK, NoUse
  <2> QED
    BY <1>2, <2>1
<1>10. CASE RestartAccounts
  BY <1>10 DEF RestartAccounts, NoUse
<1>11. CASE UNCHANGED <<granted, use>>
  BY <1>2, <1>11
<1> QED
  BY <1>5, <1>6, <1>7, <1>8, <1>9, <1>10, <1>11
     DEF AccountsNext, Login, Use, Write, Delete, GitHubAccounts, accountVars, rename,
         readByGithubId, releaseGithubLogin, throws, update, create, claims, issueSession,
         readsUser, writesKeyed, deleteAccount, deleteNext, deleteRow

\* A login that is not outrun is not disturbed in what it has read and taken.
LEMMA StaysUndisturbed == AccountsInv /\ [AccountsNext]_accountVars => Undisturbed'
<1> SUFFICES ASSUME AccountsInv, [AccountsNext]_accountVars PROVE Undisturbed'
  OBVIOUS
<1>1. AccountsTypeOK /\ UnderWay
  BY DEF AccountsInv
<1>2. Undisturbed
  BY DEF AccountsInv
<1>3. ASSUME NEW l \in Logins, NEW p \in People, exchange(l, p) PROVE Undisturbed'
  <2>1. user' = user
    BY <1>3 DEF exchange
  <2>2. \A o \in Logins \ {l} : o \in outrun' <=> o \in outrun
    BY <1>3 DEF exchange
  <2>3. /\ signing'[l].at = "profile" /\ signing'[l].who = p /\ signing'[l].handle = handle[p]
        /\ \A o \in Logins \ {l} : signing'[o] = signing[o]
    BY <1>1, <1>3, ExchangeWrites
  <2> QED
    BY <1>2, <2>1, <2>2, <2>3 DEF Undisturbed
<1>4. ASSUME NEW l \in Logins, readByGithubId(l) PROVE Undisturbed'
  <2>1. user' = user /\ outrun' = outrun
    BY <1>4 DEF readByGithubId
  <2>2. /\ signing[l].at = "profile" /\ signing'[l].at = "read" /\ signing'[l].id = rowOf(signing[l].who)
        /\ signing'[l].who = signing[l].who /\ signing'[l].handle = signing[l].handle
        /\ \A o \in Logins \ {l} : signing'[o] = signing[o]
    BY <1>1, <1>4, ReadWrites
  <2>3. signing[l].who \in People
    BY <1>1, <2>2 DEF UnderWay
  <2>4. \A i \in Ids : user[i].who = signing[l].who => i = rowOf(signing[l].who)
    <3>1. \A i, j \in Ids : user[i].who # Nobody /\ user[i].who = user[j].who => i = j
      BY DEF AccountsInv, RowsAreSomebodys, exists
    <3> QED
      BY <2>3, <3>1, RowOfIs, NobodyAssumption
  <2> QED
    BY <1>2, <2>1, <2>2, <2>4 DEF Undisturbed
<1>5. ASSUME NEW l \in Logins, releaseGithubLogin(l) PROVE Undisturbed'
  <2>1. /\ signing[l].at = "read" /\ signing'[l].at = "released"
        /\ \A o \in Logins : /\ signing'[o].id = signing[o].id /\ signing'[o].who = signing[o].who
                             /\ signing'[o].handle = signing[o].handle
                             /\ o # l => signing'[o].at = signing[o].at
        /\ \A i \in Ids : /\ user'[i].who = user[i].who
                          /\ IF i # signing[l].id /\ user[i].handle = signing[l].handle
                             THEN user'[i].handle = NoHandle
                             ELSE user'[i].handle = user[i].handle
    BY <1>1, <1>5, ReleaseWrites
  <2>2. \A o \in Logins : signing'[o].at = "released" => signing[o].handle \in Handles
    BY <1>1, <2>1 DEF UnderWay
  <2>5. outrun' = outrun
    BY <1>5 DEF releaseGithubLogin
  <2>3. ASSUME NEW o \in Logins \ outrun, signing'[o].at = "released", NEW i \in Ids,
               user'[i].handle = signing'[o].handle
        PROVE  i = signing'[o].id
    <3>1. user'[i].handle # NoHandle
      BY <2>1, <2>2, <2>3, NobodyAssumption
    <3>2. CASE o = l
      BY <2>1, <2>3, <3>1, <3>2
    <3>3. CASE o # l
      BY <1>2, <2>1, <2>3, <3>1, <3>3 DEF Undisturbed
    <3> QED
      BY <3>2, <3>3
  <2>4. ASSUME NEW o \in Logins \ outrun, signing'[o].at \in {"read", "released"}, NEW i \in Ids,
               user'[i].who = signing'[o].who
        PROVE  i = signing'[o].id
    BY <1>2, <2>1, <2>4 DEF Undisturbed
  <2> QED
    BY <2>3, <2>4, <2>5 DEF Undisturbed
<1>6. ASSUME NEW l \in Logins, throws(l) \/ issueSession(l) PROVE Undisturbed'
  <2>1. user' = user /\ outrun' = outrun
    BY <1>6 DEF throws, issueSession
  <2>2. signing'[l] = NoLogin /\ \A o \in Logins \ {l} : signing'[o] = signing[o]
    BY <1>1, <1>6, LeavingWrites
  <2> QED
    BY <1>2, <2>1, <2>2 DEF Undisturbed, NoLogin
<1>7. ASSUME NEW l \in Logins, update(l) \/ create(l) PROVE Undisturbed'
  <2>1. PICK i \in Ids : claims(l, i, signing[l].who)
    BY <1>7, ClaimIsFree
  <2>2. signing[l].at = "released" /\ signing[l].who \in People
    BY <1>7, ClaimIsFree
  <2>3. /\ user'[i].who = signing[l].who /\ user'[i].handle = signing[l].handle
        /\ \A j \in Ids \ {i} : user'[j] = user[j]
        /\ signing'[l].at = "claimed"
        /\ signing'[l].who = signing[l].who /\ signing'[l].handle = signing[l].handle
        /\ \A o \in Logins \ {l} : signing'[o] = signing[o]
    BY <1>1, <2>1, <2>2, ClaimWrites
  <2>4. /\ outrun \subseteq outrun'
        /\ \A o \in Logins \ {l} : o \notin outrun' =>
               signing[o].who # signing[l].who /\ signing[o].handle # signing[l].handle
    BY <1>1, <2>1, <2>2, ClaimWrites
  <2> QED
    BY <1>2, <2>2, <2>3, <2>4 DEF Undisturbed
<1>8. ASSUME NEW r \in Readers, clearGithubAccessToken(r) PROVE Undisturbed'
  <2>1. signing' = signing /\ outrun' = outrun
    BY <1>8 DEF clearGithubAccessToken
  <2>2. \A i \in Ids : user'[i].who = user[i].who /\ user'[i].handle = user[i].handle
    BY <1>1, <1>8, ClearWrites
  <2> QED
    BY <1>2, <2>1, <2>2 DEF Undisturbed
<1>9. ASSUME NEW i \in Ids, deleteRow(i) PROVE Undisturbed'
  <2>1. user'[i] = Absent /\ (\A j \in Ids \ {i} : user'[j] = user[j]) /\ signing' = signing
    BY <1>1, <1>9, DeletionWrites
  <2>3. outrun' = outrun
    BY <1>9 DEF deleteRow
  <2>2. \A o \in Logins : signing[o].at # "idle" => signing[o].who # Nobody /\ signing[o].handle # NoHandle
    BY <1>1, NobodyAssumption DEF UnderWay
  <2> QED
    BY <1>2, <2>1, <2>2, <2>3 DEF Undisturbed, Absent
<1>10. CASE RestartAccounts
  BY <1>10 DEF RestartAccounts, Undisturbed, NoLogin
<1>12. ASSUME NEW r \in Readers, NEW i \in Ids, readsToken(r, i) PROVE Undisturbed'
  <2>1. user' = user /\ signing' = signing /\ outrun' = outrun \ {r} /\ r \notin Logins
    BY <1>12, SlotsAssumption DEF readsToken
  <2> QED
    BY <1>2, <2>1 DEF Undisturbed
<1>11. CASE UNCHANGED <<user, signing, outrun>>
  BY <1>2, <1>11 DEF Undisturbed
<1> QED
  BY <1>3, <1>4, <1>5, <1>6, <1>7, <1>8, <1>9, <1>10, <1>11, <1>12
     DEF AccountsNext, Login, Use, Write, Delete, GitHubAccounts, accountVars, rename, withdraw,
         readsUser, writesKeyed, deleteAccount, deleteNext, askGithub

\* A newer token than any on the rows comes with every exchange, and is newest until its login is outrun.
LEMMA StaysNewest == AccountsInv /\ [AccountsNext]_accountVars => Newest'
<1> SUFFICES ASSUME AccountsInv, [AccountsNext]_accountVars PROVE Newest'
  OBVIOUS
<1>1. AccountsTypeOK /\ UnderWay /\ RowsAreSomebodys
  BY DEF AccountsInv
<1>2. Newest
  BY DEF AccountsInv
<1>3. \A i \in Ids : user[i].token \in Nat /\ user[i].who \in People \cup {Nobody}
  BY <1>1 DEF AccountsTypeOK, RowType
<1>4. \A l \in Logins : signing[l].token \in Nat
  BY <1>1 DEF AccountsTypeOK, LoginType
<1>5. \A q \in People : granted[q].last \in Nat
  BY <1>1 DEF AccountsTypeOK
<1>6. ASSUME NEW p \in People, withdraw(p) PROVE Newest'
  <2>1. user' = user /\ signing' = signing /\ use' = use /\ outrun' = outrun
    BY <1>6 DEF withdraw
  <2>2. \A q \in People : granted'[q].last = granted[q].last
    BY <1>1, <1>6 DEF withdraw, AccountsTypeOK
  <2> QED
    BY <1>1, <1>2, <1>3, <2>1, <2>2 DEF Newest, exists, UnderWay
<1>7. ASSUME NEW l \in Logins, NEW p \in People, exchange(l, p) PROVE Newest'
  <2>1. /\ user' = user /\ use' = use
        /\ outrun' = outrun \ {l} /\ l \notin Readers
    BY <1>7, SlotsAssumption DEF exchange
  <2>2. /\ signing'[l].at = "profile" /\ signing'[l].who = p /\ signing'[l].token = granted[p].last + 1
        /\ \A o \in Logins \ {l} : signing'[o] = signing[o]
    BY <1>1, <1>7 DEF AccountsTypeOK, exchange
  <2>3. granted'[p].last = granted[p].last + 1 /\ \A q \in People \ {p} : granted'[q] = granted[q]
    <3>1. granted[p] \in [last : Nat, withdrawn : Nat]
      BY <1>1 DEF AccountsTypeOK
    <3> QED
      BY <1>1, <1>7, <3>1 DEF AccountsTypeOK, exchange
  <2>4. \A q \in People : granted'[q].last \in Nat /\ granted[q].last <= granted'[q].last
    BY <1>5, <2>3
  <2>5. \A i \in Ids : exists(i) => user[i].token <= granted'[user[i].who].last
    BY <1>2, <1>3, <1>5, <2>4 DEF Newest, exists
  <2>6. ASSUME NEW o \in Logins, signing'[o].at # "idle" PROVE signing'[o].token <= granted'[signing'[o].who].last
    <3>1. CASE o = l
      BY <1>5, <2>2, <2>3, <3>1
    <3>2. CASE o # l
      <4>1. signing[o].token <= granted[signing[o].who].last /\ signing[o].who \in People
        BY <1>1, <1>2, <2>2, <2>6, <3>2 DEF Newest, UnderWay
      <4> QED
        BY <1>4, <1>5, <2>2, <2>4, <3>2, <4>1
    <3> QED
      BY <3>1, <3>2
  <2>7. ASSUME NEW o \in Logins \ outrun', signing'[o].at \in {"profile", "read", "released"},
               NEW i \in Ids, user[i].who = signing'[o].who
        PROVE  user[i].token < signing'[o].token
    <3>1. CASE o = l
      <4>1. user[i].who = p /\ exists(i)
        BY <2>2, <2>7, <3>1, NobodyAssumption DEF exists
      <4>2. user[i].token <= granted[p].last
        BY <1>2, <4>1 DEF Newest
      <4> QED
        BY <1>3, <1>5, <2>2, <3>1, <4>2
    <3>2. CASE o # l
      BY <1>2, <2>1, <2>2, <2>7, <3>2 DEF Newest
    <3> QED
      BY <3>1, <3>2
  <2> QED
    BY <1>2, <2>1, <2>5, <2>6, <2>7 DEF Newest, exists
<1>8. ASSUME NEW l \in Logins, readByGithubId(l) PROVE Newest'
  <2>1. user' = user /\ use' = use /\ outrun' = outrun /\ granted' = granted
    BY <1>8 DEF readByGithubId
  <2>2. /\ signing[l].at = "profile" /\ signing'[l].who = signing[l].who
        /\ \A o \in Logins \ {l} : signing'[o] = signing[o]
    BY <1>1, <1>8, ReadWrites
  <2>3. signing'[l].token = signing[l].token
    BY <1>1, <1>8 DEF AccountsTypeOK, LoginType, readByGithubId
  <2> QED
    BY <1>2, <2>1, <2>2, <2>3 DEF Newest, exists
<1>9. ASSUME NEW l \in Logins, releaseGithubLogin(l) PROVE Newest'
  <2>1. use' = use /\ outrun' = outrun /\ granted' = granted
    BY <1>9 DEF releaseGithubLogin
  <2>2. /\ signing[l].at = "read" /\ signing'[l].who = signing[l].who
        /\ \A o \in Logins \ {l} : signing'[o] = signing[o]
        /\ \A i \in Ids : user'[i].who = user[i].who /\ user'[i].token = user[i].token
    BY <1>1, <1>9, ReleaseWrites
  <2>3. signing'[l].token = signing[l].token
    BY <1>1, <1>9 DEF AccountsTypeOK, LoginType, releaseGithubLogin
  <2>4. \A q \in Readers : use[q].id \in Ids \/ use[q].at = "idle"
    BY <1>1 DEF UnderWay
  <2> QED
    BY <1>2, <2>1, <2>2, <2>3, <2>4 DEF Newest, exists
<1>10. ASSUME NEW l \in Logins, throws(l) \/ issueSession(l) PROVE Newest'
  <2>1. user' = user /\ use' = use /\ outrun' = outrun /\ granted' = granted
    BY <1>10 DEF throws, issueSession
  <2>2. signing'[l].at = "idle" /\ \A o \in Logins \ {l} : signing'[o] = signing[o]
    BY <1>1, <1>10, LeavingWrites DEF NoLogin
  <2> QED
    BY <1>2, <2>1, <2>2 DEF Newest, exists
<1>11. ASSUME NEW l \in Logins, update(l) \/ create(l) PROVE Newest'
  <2>1. PICK i \in Ids : claims(l, i, signing[l].who)
    BY <1>11, ClaimIsFree
  <2>2. signing[l].at = "released" /\ signing[l].who \in People
    BY <1>11, ClaimIsFree
  <2>3. /\ user'[i].who = signing[l].who /\ user'[i].token = signing[l].token
        /\ \A j \in Ids \ {i} : user'[j] = user[j]
        /\ signing'[l].at = "claimed" /\ signing'[l].who = signing[l].who
        /\ \A o \in Logins \ {l} : signing'[o] = signing[o]
        /\ outrun \subseteq outrun'
        /\ \A o \in Logins \ {l} : o \notin outrun' => signing[o].who # signing[l].who
        /\ \A q \in Readers : q \notin outrun' => use[q].id # i
    BY <1>1, <2>1, <2>2, ClaimWrites
  <2>4. use' = use /\ granted' = granted
    BY <2>1 DEF claims
  <2>5. signing'[l].token = signing[l].token
    BY <1>1, <2>1 DEF AccountsTypeOK, LoginType, claims
  <2>6. signing[l].token <= granted[signing[l].who].last
    BY <1>2, <2>2 DEF Newest
  <2>7. \A q \in Readers : use[q].id \in Ids \/ use[q].at = "idle"
    BY <1>1 DEF UnderWay
  <2>8. \A j \in Ids : user'[j].who # Nobody => user'[j].token <= granted'[user'[j].who].last
    BY <1>2, <2>3, <2>4, <2>6 DEF Newest, exists
  <2>9. \A o \in Logins : signing'[o].at # "idle" => signing'[o].token <= granted'[signing'[o].who].last
    BY <1>2, <2>2, <2>3, <2>4, <2>5, <2>6 DEF Newest
  <2>10. \A o \in Logins \ outrun' : signing'[o].at \in {"profile", "read", "released"} =>
            \A j \in Ids : user'[j].who = signing'[o].who => user'[j].token < signing'[o].token
    BY <1>2, <2>3 DEF Newest
  <2>11. \A q \in Readers \ outrun' : use'[q].at # "idle" /\ user'[use'[q].id].who # Nobody =>
            user'[use'[q].id].who = use'[q].who /\ user'[use'[q].id].token \in {0, use'[q].token}
    BY <1>2, <2>3, <2>4, <2>7 DEF Newest, exists
  <2> QED
    BY <2>8, <2>9, <2>10, <2>11 DEF Newest, exists
<1>12. ASSUME NEW r \in Readers, NEW i \in Ids, readsToken(r, i) PROVE Newest'
  <2>1. /\ user' = user /\ signing' = signing /\ granted' = granted
        /\ outrun' = outrun \ {r} /\ r \notin Logins
    BY <1>12, SlotsAssumption DEF readsToken
  <2>2. /\ use'[r].id = i /\ use'[r].who = user[i].who /\ use'[r].token = user[i].token
        /\ \A q \in Readers \ {r} : use'[q] = use[q]
    BY <1>1, <1>12 DEF AccountsTypeOK, readsToken
  <2> QED
    BY <1>2, <2>1, <2>2 DEF Newest, exists
<1>13. ASSUME NEW r \in Readers, askGithub(r) PROVE Newest'
  <2>1. user' = user /\ signing' = signing /\ granted' = granted /\ outrun' = outrun
    BY <1>13 DEF askGithub
  <2>2. use[r].at = "asked" /\ (\A q \in Readers \ {r} : use'[q] = use[q])
    BY <1>1, <1>13 DEF AccountsTypeOK, askGithub
  <2>3. use'[r].at # "idle" => use'[r].id = use[r].id /\ use'[r].who = use[r].who /\ use'[r].token = use[r].token
    BY <1>1, <1>13 DEF AccountsTypeOK, UseType, askGithub, NoUse
  <2> QED
    BY <1>2, <2>1, <2>2, <2>3 DEF Newest, exists
<1>14. ASSUME NEW r \in Readers, clearGithubAccessToken(r) PROVE Newest'
  <2>1. signing' = signing /\ granted' = granted /\ outrun' = outrun
    BY <1>14 DEF clearGithubAccessToken
  <2>2. use'[r].at = "idle" /\ (\A q \in Readers \ {r} : use'[q] = use[q])
    BY <1>1, <1>14 DEF AccountsTypeOK, clearGithubAccessToken, NoUse
  <2>3. \A i \in Ids : user'[i].who = user[i].who /\ user'[i].token \in {user[i].token, 0}
    BY <1>1, <1>14, ClearWrites
  <2>4. \A q \in Readers : use[q].id \in Ids \/ use[q].at = "idle"
    BY <1>1 DEF UnderWay
  <2>5. \A i \in Ids : user'[i].token <= user[i].token /\ user'[i].token \in Nat
    BY <1>3, <2>3
  <2>6. \A i \in Ids : user'[i].who # Nobody => user'[i].token <= granted'[user'[i].who].last
    BY <1>2, <1>3, <1>5, <2>1, <2>3, <2>5 DEF Newest, exists
  <2>7. \A o \in Logins : signing'[o].at # "idle" => signing'[o].token <= granted'[signing'[o].who].last
    BY <1>2, <2>1 DEF Newest
  <2>8. \A o \in Logins \ outrun' : signing'[o].at \in {"profile", "read", "released"} =>
            \A j \in Ids : user'[j].who = signing'[o].who => user'[j].token < signing'[o].token
    BY <1>2, <1>3, <1>4, <2>1, <2>3, <2>5 DEF Newest
  <2>9. \A q \in Readers \ outrun' : use'[q].at # "idle" /\ user'[use'[q].id].who # Nobody =>
            user'[use'[q].id].who = use'[q].who /\ user'[use'[q].id].token \in {0, use'[q].token}
    BY <1>2, <2>1, <2>2, <2>3, <2>4 DEF Newest, exists
  <2> QED
    BY <2>6, <2>7, <2>8, <2>9 DEF Newest, exists
<1>15. ASSUME NEW i \in Ids, deleteRow(i) PROVE Newest'
  <2>1. user'[i] = Absent /\ (\A j \in Ids \ {i} : user'[j] = user[j]) /\ signing' = signing /\ use' = use
    BY <1>1, <1>15, DeletionWrites
  <2>2. granted' = granted /\ outrun' = outrun
    BY <1>15 DEF deleteRow
  <2>3. \A o \in Logins : signing[o].at # "idle" => signing[o].who # Nobody
    BY <1>1, NobodyAssumption DEF UnderWay
  <2>4. \A q \in Readers : use[q].id \in Ids \/ use[q].at = "idle"
    BY <1>1 DEF UnderWay
  <2> QED
    BY <1>2, <2>1, <2>2, <2>3, <2>4 DEF Newest, exists, Absent
<1>16. CASE RestartAccounts
  <2>1. /\ user' = user /\ granted' = granted
        /\ \A l \in Logins : signing'[l].at = "idle"
        /\ \A r \in Readers : use'[r].at = "idle"
    BY <1>16 DEF RestartAccounts, NoLogin, NoUse
  <2> QED
    BY <1>2, <2>1 DEF Newest, exists
<1>17. CASE UNCHANGED <<user, signing, use, granted, outrun>>
  BY <1>2, <1>17 DEF Newest, exists
<1> QED
  BY <1>6, <1>7, <1>8, <1>9, <1>10, <1>11, <1>12, <1>13, <1>14, <1>15, <1>16, <1>17
     DEF AccountsNext, Login, Use, Write, Delete, GitHubAccounts, accountVars, rename,
         readsUser, writesKeyed, deleteAccount, deleteNext

\* A handle that was given stays, till another login proves it, one that was outrun takes it, or the row
\* goes.
LEMMA NamedStaysTheirs == AccountsInv /\ [AccountsNext]_accountVars => NamedIsTheirs'
<1> SUFFICES ASSUME AccountsInv, [AccountsNext]_accountVars,
                    NEW p \in People, named'[p] # NoHandle
             PROVE  \E i \in Ids : user'[i].who = p /\ user'[i].handle = named'[p]
  BY DEF NamedIsTheirs
<1>1. AccountsTypeOK /\ UnderWay
  BY DEF AccountsInv
<1>2. named[p] # NoHandle => \E i \in Ids : user[i].who = p /\ user[i].handle = named[p]
  BY DEF AccountsInv, NamedIsTheirs
<1>3. ASSUME NEW l \in Logins, releaseGithubLogin(l)
      PROVE  \E i \in Ids : user'[i].who = p /\ user'[i].handle = named'[p]
  <2>1. /\ signing[l].at = "read"
        /\ \A i \in Ids : /\ user'[i].who = user[i].who
                          /\ IF i # signing[l].id /\ user[i].handle = signing[l].handle
                             THEN user'[i].handle = NoHandle
                             ELSE user'[i].handle = user[i].handle
        /\ named'[p] = IF named[p] = signing[l].handle /\ (p # signing[l].who \/ l \in outrun)
                       THEN NoHandle ELSE named[p]
    BY <1>1, <1>3, ReleaseWrites
  <2>2. named'[p] = named[p] /\ (named[p] = signing[l].handle => p = signing[l].who /\ l \notin outrun)
    BY <2>1
  <2>3. PICK i \in Ids : user[i].who = p /\ user[i].handle = named[p]
    BY <1>2, <2>2
  <2>4. user[i].handle = signing[l].handle => i = signing[l].id
    BY <2>1, <2>2, <2>3 DEF AccountsInv, Undisturbed
  <2> QED
    BY <2>1, <2>2, <2>3, <2>4
<1>4. ASSUME NEW l \in Logins, update(l) \/ create(l)
      PROVE  \E i \in Ids : user'[i].who = p /\ user'[i].handle = named'[p]
  <2>1. PICK i \in Ids : claims(l, i, signing[l].who) /\ (user[i].who = signing[l].who \/ ~exists(i))
    BY <1>4, ClaimIsFree
  <2>2. signing[l].who \in People
    BY <1>4, ClaimIsFree
  <2>3. /\ user'[i].who = signing[l].who /\ user'[i].handle = signing[l].handle
        /\ \A j \in Ids \ {i} : user'[j] = user[j]
        /\ named'[signing[l].who] = signing[l].handle
        /\ \A q \in People \ {signing[l].who} : named'[q] = named[q]
    BY <1>1, <2>1, <2>2, ClaimWrites
  <2>4. CASE p = signing[l].who
    BY <2>3, <2>4
  <2>5. CASE p # signing[l].who
    <3>1. PICK j \in Ids : user[j].who = p /\ user[j].handle = named[p]
      BY <1>2, <2>3, <2>5
    <3>2. j # i
      BY <2>1, <2>5, <3>1, NobodyAssumption DEF exists
    <3> QED
      BY <2>3, <2>5, <3>1, <3>2
  <2> QED
    BY <2>4, <2>5
<1>5. ASSUME NEW r \in Readers, clearGithubAccessToken(r)
      PROVE  \E i \in Ids : user'[i].who = p /\ user'[i].handle = named'[p]
  <2>1. named' = named
    BY <1>5 DEF clearGithubAccessToken
  <2> QED
    BY <1>1, <1>2, <1>5, <2>1, ClearWrites
<1>6. ASSUME NEW i \in Ids, deleteRow(i)
      PROVE  \E j \in Ids : user'[j].who = p /\ user'[j].handle = named'[p]
  <2>1. /\ \A j \in Ids \ {i} : user'[j] = user[j]
        /\ named'[p] = IF p = user[i].who THEN NoHandle ELSE named[p]
    BY <1>1, <1>6, DeletionWrites
  <2>2. named'[p] = named[p] /\ p # user[i].who
    BY <2>1
  <2>3. PICK j \in Ids : user[j].who = p /\ user[j].handle = named[p]
    BY <1>2, <2>2
  <2> QED
    BY <2>1, <2>2, <2>3
<1>7. CASE UNCHANGED <<user, named>>
  BY <1>2, <1>7
<1> QED
  BY <1>3, <1>4, <1>5, <1>6, <1>7
     DEF AccountsNext, Login, Use, Write, Delete, GitHubAccounts, accountVars, rename, withdraw, exchange,
         readByGithubId, throws, issueSession, readsUser, writesKeyed, deleteAccount, deleteNext,
         readsToken, askGithub, RestartAccounts
----------------------------------------------------------------------------
\* Where accounts stand is inductive: whose the rows are, what a deletion has been through, what the
\* logins under way rely on.
THEOREM AccountsInvariance == AccountsSpec => []AccountsInv
<1>1. AccountsInit => AccountsInv
  BY AccountsInitially
<1>2. AccountsInv /\ [AccountsNext]_accountVars => AccountsInv'
  <2> SUFFICES ASSUME AccountsInv, [AccountsNext]_accountVars PROVE AccountsInv'
    OBVIOUS
  <2>1. AccountsTypeOK'
    BY AccountsTyped
  <2>3. UnderWay' /\ RowsAreSomebodys' /\ PassedIsEmptied' /\ GoneForGood' /\ RefusedWhenOutrun'
    BY UnderWayStays, RowsStaySomebodys, PassedStaysEmptied, GoneStaysGone, RefusalsStand
  <2>4. Undisturbed' /\ Newest' /\ NamedIsTheirs'
    BY StaysUndisturbed, StaysNewest, NamedStaysTheirs
  <2> QED
    BY <2>1, <2>3, <2>4 DEF AccountsInv
<1> QED
  BY <1>1, <1>2, PTL DEF AccountsSpec

\* The handle mentions find somebody by is theirs while their account is there, whatever logins stop half
\* way; and when it is gone nothing is left of it but what was under way (releaseGithubLogin, deleteAccount).
THEOREM KeepsAndLeavesHolds == AccountsSpec => []KeepsAndLeaves
<1>1. AccountsInv => KeepsAndLeaves
  <2> SUFFICES ASSUME AccountsInv PROVE KeepsAndLeaves
    OBVIOUS
  <2>1. KeepsTheHandle
    BY DEF AccountsInv, KeepsTheHandle, NamedIsTheirs
  <2>2. ASSUME NEW i \in Ids, deletion[i] = -1 PROVE ~exists(i) /\ keyed[i] \subseteq late[i]
    <3>1. ~exists(i)
      BY <2>2 DEF AccountsInv, GoneForGood
    <3>2. ASSUME NEW what \in keyed[i] PROVE what \in late[i]
      <4>1. what \in Collected
        BY DEF AccountsInv, AccountsTypeOK
      <4>2. PICK n \in 1..7 : Collections[n] = what
        BY <4>1, CollectionsAre
      <4> QED
        BY <2>2, <4>2 DEF AccountsInv, PassedIsEmptied
    <3> QED
      BY <3>1, <3>2
  <2> QED
    BY <2>1, <2>2 DEF KeepsAndLeaves, NothingStranded
<1> QED
  BY <1>1, AccountsInvariance, PTL

\* A token GitHub accepts is taken off a row that stays only by a newer one, or by who was outrun.
LEMMA TokenStands ==
    ASSUME AccountsInv, [AccountsNext]_accountVars, NEW i \in Ids, exists(i), user'[i].who # Nobody,
           user[i].token > granted[user[i].who].withdrawn, user'[i].token # user[i].token
    PROVE  \/ user'[i].token > user[i].token
           \/ \E l \in Logins \cap outrun : update(l) /\ signing[l].id = i
           \/ \E r \in Readers \cap outrun : clearGithubAccessToken(r) /\ use[r].id = i
<1> DEFINE Stands ==
        \/ user'[i].token > user[i].token
        \/ \E l \in Logins \cap outrun : update(l) /\ signing[l].id = i
        \/ \E r \in Readers \cap outrun : clearGithubAccessToken(r) /\ use[r].id = i
<1>1. AccountsTypeOK /\ UnderWay /\ Newest
  BY DEF AccountsInv
<1>2. user[i].token \in Nat /\ user[i].who \in People
  BY <1>1 DEF AccountsTypeOK, RowType, exists
<1>3. ASSUME NEW l \in Logins, releaseGithubLogin(l) PROVE Stands
  BY <1>1, <1>3, ReleaseWrites
<1>4. ASSUME NEW l \in Logins, update(l) PROVE Stands
  <2>1. /\ signing[l].at = "released" /\ claims(l, signing[l].id, user[signing[l].id].who)
        /\ exists(signing[l].id) /\ signing[l].id # 0
    BY <1>4 DEF update
  <2>2. signing[l].id \in Ids
    BY <1>1, <2>1 DEF AccountsTypeOK, LoginType
  <2>3. user[signing[l].id].who \in People
    BY <1>1, <2>1, <2>2 DEF AccountsTypeOK, RowType, exists
  <2>4. /\ user'[signing[l].id].token = signing[l].token
        /\ \A j \in Ids \ {signing[l].id} : user'[j] = user[j]
    BY <1>1, <2>1, <2>2, <2>3, ClaimWrites
  <2>5. i = signing[l].id
    BY <2>4
  <2>6. CASE l \in outrun
    BY <1>4, <2>5, <2>6
  <2>7. CASE l \notin outrun
    <3>1. user[i].who = signing[l].who
      BY <2>1, <2>5 DEF AccountsInv, RowsAreSomebodys, GoneForGood
    <3>2. user[i].token < signing[l].token
      BY <1>1, <2>1, <2>7, <3>1 DEF Newest
    <3>3. signing[l].token \in Nat
      BY <1>1 DEF AccountsTypeOK, LoginType
    <3> QED
      BY <1>2, <2>4, <2>5, <3>2, <3>3
  <2> QED
    BY <2>6, <2>7
<1>5. ASSUME NEW l \in Logins, create(l) PROVE Stands
  <2>1. PICK j \in Ids : claims(l, j, signing[l].who) /\ ~exists(j)
    BY <1>5 DEF create
  <2>2. signing[l].who \in People
    BY <1>1, <1>5 DEF create, UnderWay
  <2>3. \A k \in Ids \ {j} : user'[k] = user[k]
    BY <1>1, <2>1, <2>2, ClaimWrites
  <2> QED
    BY <2>1, <2>3
<1>6. ASSUME NEW r \in Readers, clearGithubAccessToken(r) PROVE Stands
  <2>1. use[r].at = "refused" /\ \A j \in Ids \ {use[r].id} : user'[j] = user[j]
    BY <1>1, <1>6 DEF AccountsTypeOK, clearGithubAccessToken
  <2>2. use[r].id = i
    BY <2>1
  <2>3. CASE r \in outrun
    BY <1>6, <2>2, <2>3
  <2>4. CASE r \notin outrun
    <3>1. user[i].who = use[r].who /\ user[i].token \in {0, use[r].token}
      BY <1>1, <2>1, <2>2, <2>4 DEF Newest
    <3>2. use[r].token <= granted[use[r].who].withdrawn
      BY <2>1 DEF AccountsInv, RefusedWhenOutrun
    <3>3. granted[user[i].who].withdrawn \in Nat /\ use[r].token \in Nat
      BY <1>1, <1>2 DEF AccountsTypeOK, UseType
    <3> QED
      BY <1>2, <3>1, <3>2, <3>3
  <2> QED
    BY <2>3, <2>4
<1>7. ASSUME NEW j \in Ids, deleteRow(j) PROVE Stands
  BY <1>1, <1>7, DeletionWrites DEF Absent
<1>8. CASE UNCHANGED user
  BY <1>8
<1> QED
  BY <1>3, <1>4, <1>5, <1>6, <1>7, <1>8
     DEF AccountsNext, Login, Use, Write, Delete, GitHubAccounts, accountVars, rename, withdraw, exchange,
         readByGithubId, throws, issueSession, readsToken, askGithub, readsUser, writesKeyed, deleteAccount,
         deleteNext, RestartAccounts

\* However logins and refusals overlap: only a login that was outrun, or whose row was deleted, is
\* stopped, and a token GitHub accepts gives way to a newer one or to who was outrun (update, create,
\* clearGithubAccessToken).
THEOREM LoginsStandHolds == AccountsSpec => LoginsStand
<1>1. AccountsInv => \A l \in Logins : throws(l) => l \in outrun \/ (signing[l].id # 0 /\ deletion[signing[l].id] = -1)
  <2> SUFFICES ASSUME AccountsInv, NEW l \in Logins, throws(l), l \notin outrun
               PROVE  signing[l].id # 0 /\ deletion[signing[l].id] = -1
    OBVIOUS
  <2>1. signing[l].at = "released" /\ signing[l].who \in People
    BY DEF throws, AccountsInv, UnderWay
  <2>2. \A i \in Ids : user[i].who = signing[l].who \/ user[i].handle = signing[l].handle => i = signing[l].id
    BY <2>1 DEF AccountsInv, Undisturbed
  <2>3. ~refusesRow(l, signing[l].id)
    BY <2>2 DEF refusesRow
  <2>4. signing[l].id # 0 /\ ~exists(signing[l].id)
    BY <2>3 DEF throws
  <2>5. user[signing[l].id].who = signing[l].who \/ deletion[signing[l].id] = -1
    BY <2>1, <2>4 DEF AccountsInv, RowsAreSomebodys
  <2> QED
    BY <2>1, <2>4, <2>5, NobodyAssumption DEF exists
<1>2. AccountsSpec => StopsOnlyIfOutrun
  <2>1. StopsOnlyIfOutrun <=>
            [][\A l \in Logins : throws(l) =>
                  l \in outrun \/ (signing[l].id # 0 /\ deletion[signing[l].id] = -1)]_accountVars
    BY DEF StopsOnlyIfOutrun
  <2> QED
    BY <1>1, <2>1, AccountsInvariance, PTL
<1>3. AccountsSpec => TokensStand
  <2>1. AccountsInv /\ [AccountsNext]_accountVars =>
            \A i \in Ids :
                /\ exists(i) /\ user'[i].who # Nobody
                /\ user[i].token > granted[user[i].who].withdrawn /\ user'[i].token # user[i].token
                => \/ user'[i].token > user[i].token
                   \/ \E l \in Logins \cap outrun : update(l) /\ signing[l].id = i
                   \/ \E r \in Readers \cap outrun : clearGithubAccessToken(r) /\ use[r].id = i
    BY TokenStands
  <2>2. TokensStand <=>
            [][\A i \in Ids :
                /\ exists(i) /\ user'[i].who # Nobody
                /\ user[i].token > granted[user[i].who].withdrawn /\ user'[i].token # user[i].token
                => \/ user'[i].token > user[i].token
                   \/ \E l \in Logins \cap outrun : update(l) /\ signing[l].id = i
                   \/ \E r \in Readers \cap outrun : clearGithubAccessToken(r) /\ use[r].id = i]_accountVars
    BY DEF TokensStand
  <2> QED
    BY <2>1, <2>2, AccountsInvariance, PTL DEF AccountsSpec
<1> QED
  BY <1>2, <1>3, PTL DEF LoginsStand
=============================================================================
