-------------------------- MODULE Dashboard_proofs --------------------------
(***************************************************************************)
(* What the pages of the dashboard promise that keep state of their own, proved for any    *)
(* constants.                                                                             *)
(*                                                                                        *)
(* Connections: who may act on an installation and what is left of one that has gone, for  *)
(* any users, slots and worlds.  A request that was let create a subscription holds what    *)
(* GitHub listed; a deletion is on its way, half done, or carried through.                  *)
(*                                                                                        *)
(* Pokes: what is saved and shown of the settings, and what is counted and suggested of    *)
(* who pokes, for any logins, kinds, hours and bounds.                                      *)
(*                                                                                        *)
(* The inbox: where each of its rows is, for anything GitHub may say, a row may hold and    *)
(* somebody may press.  A snapshot is sorted by the filters it is filed under.              *)
(*                                                                                        *)
(* The three side by side: what each promises alone, it promises there.                     *)
(***************************************************************************)
EXTENDS Dashboard, FiniteSetTheorems, WellFoundedInduction, TLAPS

Stages == {"idle", "read", "list", "rows", "fill", "answer", "create", "role", "delete", "unmirror",
           "clear", "ok", "no"}
Requests == [op : Asks \cup {"none"}, at : Stages, click : Nat, after : Asks \cup {"none"},
             live : Seen, row : Seen, opt : Opts]

CallsTyped ==
    /\ ConnectionsTypeOK
    /\ connectionWorld \in [account : Accounts, slots : SUBSET Slots, asks : SUBSET Asks,
                           turns : Nat, edits : Nat,
                           faults : SUBSET {"github", "break", "lost", "revoked"}]
    /\ call \in [Users -> [Slots -> Requests]]
    /\ events \subseteq Seen \cup {Deleted}

\* GitHub listed the installation to whoever is about to subscribe or to be asked whether they may
\* remove it, and to nobody before it was there.
ListedFirst ==
    /\ sees \subseteq everSaw
    /\ \A u \in Users, s \in Slots : call[u][s].live # Absent => u \in everSaw
    /\ \A u \in Users, s \in Slots :
          \/ call[u][s].op = "on" /\ call[u][s].at = "create"
          \/ call[u][s].op = "remove" /\ call[u][s].at \in {"role", "delete"}
          => call[u][s].live # Absent
    /\ phase = "absent" => \A u \in Users : subs[u] = "none" /\ \A s \in Slots : call[u][s].live = Absent

\* A removal past its check is the owner's.
OwnersOnly == \A u \in Users, s \in Slots :
    call[u][s].op = "remove" /\ call[u][s].at \in {"delete", "unmirror", "clear"} => u = Owner

\* A deletion has been noted, and what it leaves.
DeletionCarried ==
    /\ Deleted \in events \/ clearing \/ heard => phase = "gone"
    /\ \A u \in Users, s \in Slots : call[u][s].at \in {"unmirror", "clear"} => phase = "gone"
    /\ phase = "gone" /\ ~Befalls("lost") => Deleted \in events \/ clearing \/ heard
    /\ heard => \A u \in Users : subs[u] # "none" => u \in tooLate
    /\ heard \/ clearing \/ (\E u \in Users, s \in Slots : call[u][s].at = "clear")
          => (mirror # Absent => "mirror" \in tooLate)

IInv == CallsTyped /\ ActsOnlyWithStanding /\ ListedFirst /\ OwnersOnly /\ DeletionCarried
----------------------------------------------------------------------------
LEMMA InitIInv == ConnectionsInit => IInv
<1> SUFFICES ASSUME ConnectionsInit PROVE IInv
  OBVIOUS
<1> USE DEF ConnectionsInit, Idle, Asked, BlankRow, Absent
<1>1. CallsTyped
  <2>1. Idle \in Requests
    BY DEF Requests, Stages, Seen, Opts, Asks
  <2> QED
    BY <2>1, ConnectionWorldsAssumption DEF CallsTyped, ConnectionsTypeOK, Seen, Opts, Row, Statuses, Roles
<1>2. ActsOnlyWithStanding /\ ListedFirst /\ OwnersOnly
  BY DEF ActsOnlyWithStanding, ListedFirst, OwnersOnly, At
<1>3. DeletionCarried
  BY DEF DeletionCarried
<1> QED
  BY <1>1, <1>2, <1>3 DEF IInv

\* One request goes on.
LEMMA Moved ==
    ASSUME CallsTyped, NEW u \in Users, NEW s \in Slots, NEW r \in Requests,
           call' = [call EXCEPT ![u][s] = r]
    PROVE  /\ call' \in [Users -> [Slots -> Requests]]
           /\ \A v \in Users, t \in Slots : call'[v][t] = IF v = u /\ t = s THEN r ELSE call[v][t]
  BY DEF CallsTyped

\* A request goes on and nothing that is stored changes.
LEMMA QuietIInv ==
    ASSUME IInv, NEW u \in Users, NEW s \in Slots, NEW r \in Requests,
           call' = [call EXCEPT ![u][s] = r],
           CallsTyped', connectionWorld'.faults = connectionWorld.faults,
           UNCHANGED <<phase, sees, everSaw, events, mirror, subs, clearing, history>>,
           \A v \in Users : page'[v].role = "owner" => v = Owner,
           r.live # Absent => u \in everSaw /\ phase # "absent",
           \/ r.op = "on" /\ r.at = "create"
           \/ r.op = "remove" /\ r.at \in {"role", "delete"}
           => r.live # Absent,
           r.op = "remove" /\ r.at = "delete" => u = Owner,
           r.at \notin {"unmirror", "clear"}
    PROVE  IInv'
<1> USE DEF IInv, history
<1>1. \A v \in Users, t \in Slots : call'[v][t] = IF v = u /\ t = s THEN r ELSE call[v][t]
  BY Moved
<1>2. ActsOnlyWithStanding'
  BY DEF ActsOnlyWithStanding
<1>3. ListedFirst'
  BY <1>1 DEF ListedFirst, At
<1>4. OwnersOnly'
  BY <1>1 DEF OwnersOnly
<1>5. DeletionCarried'
  BY <1>1 DEF DeletionCarried, Befalls
<1> QED
  BY <1>2, <1>3, <1>4, <1>5

\* A turn or an edit is spent.
LEMMA Spent ==
    ASSUME CallsTyped,
           \/ connectionWorld' = connectionWorld
           \/ connectionWorld.turns > 0 /\ connectionWorld' = [connectionWorld EXCEPT !.turns = @ - 1]
           \/ connectionWorld.edits > 0 /\ connectionWorld' = [connectionWorld EXCEPT !.edits = @ - 1]
    PROVE  /\ connectionWorld'.faults = connectionWorld.faults
           /\ connectionWorld' \in [account : Accounts, slots : SUBSET Slots, asks : SUBSET Asks,
                                  turns : Nat, edits : Nat,
                                  faults : SUBSET {"github", "break", "lost", "revoked"}]
  BY DEF CallsTyped

----------------------------------------------------------------------------
\* The page.

LEMMA AsksIInv ==
    ASSUME IInv, NEW u \in Users, NEW s \in Slots,
           loadConnections(u, s) \/ toggle(u, s) \/ uninstall(u, s)
    PROVE  IInv'
<1> USE DEF IInv
<1>1. PICK op \in Asks, click \in Nat, at \in {"read", "delete"} :
         /\ asks(u, s, op) /\ call' = [call EXCEPT ![u][s] = Asked(op, at, click, "none")]
         /\ op = "remove" => at = "read"
         /\ UNCHANGED <<github, mongo, clearing, page, history>>
         /\ latest' \in [Users -> Nat] /\ pretend' \in [Users -> {"none", "available", "subscribed"}]
  <2>1. CASE loadConnections(u, s)
    BY <2>1, "load" \in Asks, 0 \in Nat DEF loadConnections, browser, Asks, CallsTyped, ConnectionsTypeOK
  <2>2. CASE uninstall(u, s)
    BY <2>2, "remove" \in Asks, 0 \in Nat DEF uninstall, browser, Asks, CallsTyped, ConnectionsTypeOK
  <2>3. CASE toggle(u, s)
    <3>1. PICK op \in offers(u) \ {"remove"} :
             /\ asks(u, s, op)
             /\ latest' = [latest EXCEPT ![u] = @ + 1]
             /\ pretend' = [pretend EXCEPT ![u] = Wanted(op)]
             /\ call' = [call EXCEPT ![u][s] = 
                            Asked(op, IF op = "on" THEN "read" ELSE "delete", latest'[u], "none")]
             /\ UNCHANGED <<github, mongo, clearing, page, history>>
      BY <2>3 DEF toggle
    <3>2. op \in Asks /\ op # "remove" /\ Wanted(op) \in {"none", "available", "subscribed"}
      BY <3>1 DEF offers, Asks, Wanted
    <3>3. latest' \in [Users -> Nat] /\ latest'[u] \in Nat
      BY <3>1 DEF CallsTyped, ConnectionsTypeOK
    <3>4. pretend' \in [Users -> {"none", "available", "subscribed"}]
      BY <3>1, <3>2 DEF CallsTyped, ConnectionsTypeOK
    <3> QED
      BY <3>1, <3>2, <3>3, <3>4
  <2> QED
    BY <2>1, <2>2, <2>3
<1> DEFINE r == Asked(op, at, click, "none")
<1>2. /\ r \in Requests /\ r.op = op /\ r.at = at /\ r.live = Absent
  BY DEF Requests, Stages, Asked, Seen, Opts, Asks
<1>3. /\ connectionWorld'.faults = connectionWorld.faults
      /\ connectionWorld' \in [account : Accounts, slots : SUBSET Slots, asks : SUBSET Asks,
                             turns : Nat, edits : Nat,
                             faults : SUBSET {"github", "break", "lost", "revoked"}]
  BY <1>1, Spent DEF asks
<1>4. CallsTyped'
  BY <1>1, <1>2, <1>3, Moved DEF CallsTyped, ConnectionsTypeOK, github, mongo, history
<1> QED
  BY <1>1, <1>2, <1>3, <1>4, QuietIInv DEF github, mongo, ActsOnlyWithStanding

LEMMA FetchesIInv == ASSUME IInv, NEW u \in Users, NEW s \in Slots, fetches(u, s) PROVE IInv'
<1> USE DEF IInv
<1> DEFINE r == Asked("load", "read", call[u][s].click, call[u][s].op)
<1>1. /\ r \in Requests /\ r.op = "load" /\ r.at = "read" /\ r.live = Absent
      /\ call' = [call EXCEPT ![u][s] = r]
      /\ UNCHANGED <<connectionWorld, github, mongo, clearing, browser, history>>
  BY DEF fetches, CallsTyped, Requests, Stages, Asked, Seen, Opts, Asks, reading, serving
<1>2. CallsTyped'
  BY <1>1, Moved DEF CallsTyped, ConnectionsTypeOK, github, mongo, history, browser
<1> QED
  BY <1>1, <1>2, QuietIInv DEF github, mongo, browser, ActsOnlyWithStanding

\* Nobody but the owner reads a row of theirs as the owner's.
LEMMA RoleOf ==
    ASSUME NEW u \in Users, NEW role \in readViewerAccess(u)
    PROVE  role \in Roles /\ (role = "owner" => u = Owner)
<1>1. role \in readViewerRole(u) \/ role = "unknown"
  BY DEF readViewerAccess
<1>2. CASE role \in readViewerRole(u) /\ connectionWorld.account = "Organization"
  <2>1. PICK said \in readRole(u) :
           role = CASE said = "admin" -> "owner" [] said = "member" -> "member" [] OTHER -> "unknown"
    BY <1>2 DEF readViewerRole
  <2>2. said \in {"admin", "member", "null"} /\ (said = "admin" => u = Owner)
    BY DEF readRole
  <2> QED
    BY <2>1, <2>2 DEF Roles
<1>3. CASE role \in readViewerRole(u) /\ connectionWorld.account # "Organization"
  BY <1>3 DEF readViewerRole, ownsPersonalAccount, Roles
<1> QED
  BY <1>1, <1>2, <1>3 DEF Roles

LEMMA SettlesIInv ==
    ASSUME IInv, NEW u \in Users, NEW s \in Slots,
           loaded(u, s) \/ loadFailed(u, s) \/ writeFailed(u, s)
    PROVE  IInv'
<1> USE DEF IInv
<1>1. /\ Idle \in Requests /\ Idle.op = "none" /\ Idle.at = "idle" /\ Idle.live = Absent
  BY DEF Requests, Stages, Idle, Asked, Seen, Opts, Asks
<1>2. PICK newRow \in Row :
         /\ newRow.role = "owner" => u = Owner
         /\ page' = [page EXCEPT ![u] = newRow]
         /\ pretend' \in {pretend, [pretend EXCEPT ![u] = "none"]}
         /\ call' = [call EXCEPT ![u][s] = Idle]
         /\ UNCHANGED <<connectionWorld, github, mongo, clearing, latest, history>>
  <2>1. CASE loaded(u, s)
    <3> DEFINE status == statusOf(call[u][s])
    <3>1. PICK role \in readViewerAccess(u) :
             settles(u, s, IF status = "unlisted" THEN BlankRow ELSE [status |-> status, role |-> role])
      BY <2>1 DEF loaded
    <3> DEFINE newRow == IF status = "unlisted" THEN BlankRow ELSE [status |-> status, role |-> role]
    <3>2. newRow \in Row /\ (newRow.role = "owner" => u = Owner)
      <4>1. status \in Statuses
        BY DEF statusOf, Statuses
      <4> HIDE DEF status
      <4> QED
        BY <4>1, RoleOf DEF Row, Roles, Statuses, BlankRow
    <3>3. settles(u, s, newRow)
      BY <3>1
    <3> HIDE DEF newRow
    <3> QED
      BY <3>2, <3>3 DEF settles
  <2>2. CASE loadFailed(u, s)
    BY <2>2 DEF loadFailed, settles, CallsTyped, ConnectionsTypeOK, ActsOnlyWithStanding
  <2>3. CASE writeFailed(u, s)
    <3>1. page[u] \in Row /\ page' = [page EXCEPT ![u] = page[u]] /\ (page[u].role = "owner" => u = Owner)
      BY <2>3 DEF writeFailed, CallsTyped, ConnectionsTypeOK, ActsOnlyWithStanding
    <3> QED
      BY <2>3, <3>1 DEF writeFailed
  <2> QED
    BY <2>1, <2>2, <2>3
<1>3. CallsTyped'
  <2>1. page' \in [Users -> Row] /\ pretend' \in [Users -> {"none", "available", "subscribed"}]
    BY <1>2 DEF CallsTyped, ConnectionsTypeOK
  <2> QED
    BY <1>1, <1>2, <2>1, Moved DEF CallsTyped, ConnectionsTypeOK, github, mongo, history
<1>4. \A v \in Users : page'[v].role = "owner" => v = Owner
  BY <1>2 DEF CallsTyped, ConnectionsTypeOK, ActsOnlyWithStanding
<1> QED
  BY <1>1, <1>2, <1>3, <1>4, QuietIInv DEF github, mongo

----------------------------------------------------------------------------
\* The server.

\* What a request holds after a step of its own.
LEMMA Went ==
    ASSUME CallsTyped, NEW u \in Users, NEW s \in Slots, NEW at \in Stages, goes(u, s, at)
    PROVE  LET r == [call[u][s] EXCEPT !.at = at]
           IN  /\ r \in Requests /\ r.op = call[u][s].op /\ r.at = at /\ r.live = call[u][s].live
               /\ call' = [call EXCEPT ![u][s] = r]
<1>1. call[u][s] \in Requests
  BY DEF CallsTyped
<1>2. [call[u][s] EXCEPT !.at = at] \in Requests
  BY <1>1 DEF Requests
<1>3. call' = [call EXCEPT ![u][s] = [call[u][s] EXCEPT !.at = at]]
  BY DEF goes
<1> QED
  BY <1>1, <1>2, <1>3 DEF Requests

\* A request that goes on as it was, to a stage where nothing has been decided for it.
LEMMA GoesIInv ==
    ASSUME IInv, NEW u \in Users, NEW s \in Slots, NEW at \in Stages \ {"create", "unmirror", "clear"},
           goes(u, s, at), token' \subseteq Users,
           call[u][s].op = "remove" /\ at = "delete" => u = Owner,
           call[u][s].op = "remove" /\ at \in {"role", "delete"} => call[u][s].live # Absent,
           UNCHANGED <<connectionWorld, github, mirror, subs, clearing, browser, history>>
    PROVE  IInv'
<1> USE DEF IInv
<1> DEFINE r == [call[u][s] EXCEPT !.at = at]
<1>1. /\ r \in Requests /\ r.op = call[u][s].op /\ r.at = at /\ r.live = call[u][s].live
      /\ call' = [call EXCEPT ![u][s] = r]
  BY Went
<1> HIDE DEF r
<1>2. CallsTyped'
  BY <1>1, Moved DEF CallsTyped, ConnectionsTypeOK, github, history, browser
<1>3. r.live # Absent => u \in everSaw /\ phase # "absent"
  BY <1>1 DEF ListedFirst
<1> QED
  BY <1>1, <1>2, <1>3, QuietIInv DEF github, browser, ActsOnlyWithStanding

LEMMA ReadsIInv ==
    ASSUME IInv, NEW u \in Users, NEW s \in Slots,
           readUser(u, s) \/ tokenRejected(u, s) \/ assertUserMayUninstall(u, s) \/ breaksOff(u, s)
    PROVE  IInv'
<1> USE DEF IInv
<1>1. PICK at \in Stages \ {"create", "unmirror", "clear"} :
         /\ goes(u, s, at)
         /\ call[u][s].op = "remove" /\ at = "delete" => u = Owner
         /\ call[u][s].op = "remove" /\ at \in {"role", "delete"} => call[u][s].live # Absent
  <2>1. CASE readUser(u, s)
    <3> DEFINE at == CASE u \in token -> "list"
                       [] u \notin token /\ call[u][s].op = "load" -> "answer"
                       [] OTHER -> "no"
    <3>1. at \in {"list", "answer", "no"} /\ goes(u, s, at)
      BY <2>1 DEF readUser
    <3> HIDE DEF at
    <3> QED
      BY <3>1 DEF Stages
  <2>2. CASE tokenRejected(u, s)
    BY <2>2 DEF tokenRejected, Stages
  <2>3. CASE assertUserMayUninstall(u, s)
    <3>1. PICK may \in mayUninstall(u) : goes(u, s, IF may THEN "delete" ELSE "no")
      BY <2>3 DEF assertUserMayUninstall
    <3>2. may => u = Owner
      BY DEF mayUninstall, readRole, ownsPersonalAccount
    <3>3. call[u][s].live # Absent
      BY <2>3 DEF assertUserMayUninstall, At, ListedFirst
    <3> QED
      BY <3>1, <3>2, <3>3 DEF Stages
  <2>4. CASE breaksOff(u, s)
    BY <2>4 DEF breaksOff, Stages
  <2> QED
    BY <2>1, <2>2, <2>3, <2>4
<1>2. /\ token' \subseteq Users
      /\ UNCHANGED <<connectionWorld, github, mirror, subs, clearing, browser, history>>
  BY DEF readUser, tokenRejected, assertUserMayUninstall, breaksOff, reading, serving, mongo, CallsTyped,
         ConnectionsTypeOK
<1> QED
  BY <1>1, <1>2, GoesIInv

LEMMA ListIInv == ASSUME IInv, NEW u \in Users, NEW s \in Slots, listForUser(u, s) PROVE IInv'
<1> USE DEF IInv
<1>1. PICK live \in {IF phase = "live" /\ u \in sees THEN details ELSE Absent} \cup {Absent} :
         call' = [call EXCEPT ![u][s] = [@ EXCEPT !.live = live,
                     !.at = IF live # Absent \/ call[u][s].op = "load" THEN next(call[u][s].op) ELSE "no"]]
  BY DEF listForUser
<1> DEFINE at == IF live # Absent \/ call[u][s].op = "load" THEN next(call[u][s].op) ELSE "no"
           r  == [call[u][s] EXCEPT !.live = live, !.at = at]
<1>2. /\ live \in Seen
      /\ live # Absent => u \in everSaw /\ phase # "absent"
  BY DEF CallsTyped, ConnectionsTypeOK, Seen, ListedFirst
<1>3. /\ at \in {"rows", "create", "role", "no"}
      /\ at \in {"create", "role"} /\ call[u][s].op # "load" => live # Absent
  BY DEF next
<1> HIDE DEF at
<1>4. r \in Requests /\ r.op = call[u][s].op /\ r.at = at /\ r.live = live
  <2>1. call[u][s] \in Requests /\ at \in Stages
    BY <1>3 DEF CallsTyped, Stages
  <2> QED
    BY <1>2, <2>1 DEF Requests
<1>5. call' = [call EXCEPT ![u][s] = r]
  BY <1>1 DEF at
<1> HIDE DEF r
<1>6. UNCHANGED <<connectionWorld, github, mongo, clearing, browser, history>>
  BY DEF listForUser, reading, serving
<1>7. CallsTyped'
  BY <1>4, <1>5, <1>6, Moved DEF CallsTyped, ConnectionsTypeOK, github, mongo, history, browser
<1> QED
  BY <1>2, <1>3, <1>4, <1>5, <1>6, <1>7, QuietIInv DEF github, mongo, browser, ActsOnlyWithStanding

LEMMA RowsIInv == ASSUME IInv, NEW u \in Users, NEW s \in Slots, readRows(u, s) PROVE IInv'
<1> USE DEF IInv
<1> DEFINE seen == call[u][s].live
           r == [call[u][s] EXCEPT !.opt = subs[u],
                                   !.row = IF seen = Absent THEN Absent ELSE mirror,
                                   !.at = IF seen # Absent /\ mirror = Absent THEN "fill" ELSE "answer"]
<1>1. /\ r \in Requests /\ r.op = "load" /\ r.at \in {"fill", "answer"} /\ r.live = seen
  <2>1. call[u][s] \in Requests /\ call[u][s].op = "load" /\ subs[u] \in Opts /\ mirror \in Seen /\ Absent \in Seen
    BY DEF readRows, At, CallsTyped, ConnectionsTypeOK, Seen
  <2> HIDE DEF IInv
  <2> QED
    BY <2>1 DEF Requests, Stages
<1>2. call' = [call EXCEPT ![u][s] = r]
  BY DEF readRows
<1> HIDE DEF r
<1>3. UNCHANGED <<connectionWorld, github, mongo, clearing, browser, history>>
  BY DEF readRows, reading, serving
<1>4. CallsTyped'
  BY <1>1, <1>2, <1>3, Moved DEF CallsTyped, ConnectionsTypeOK, github, mongo, history, browser
<1>5. seen # Absent => u \in everSaw /\ phase # "absent"
  BY DEF ListedFirst
<1> QED
  BY <1>1, <1>2, <1>3, <1>4, <1>5, QuietIInv DEF github, mongo, browser, ActsOnlyWithStanding

----------------------------------------------------------------------------
\* What the server writes.

\* What holds of the requests after one of them went on, whatever was written.
LEMMA Gone ==
    ASSUME CallsTyped, NEW u \in Users, NEW s \in Slots, NEW at \in Stages, goes(u, s, at)
    PROVE  \E r \in Requests :
              /\ r.op = call[u][s].op /\ r.live = call[u][s].live /\ r.at = at
              /\ call' \in [Users -> [Slots -> Requests]]
              /\ \A v \in Users, t \in Slots :
                    call'[v][t] = IF v = u /\ t = s THEN r ELSE call[v][t]
<1> DEFINE r == [call[u][s] EXCEPT !.at = at]
<1>1. /\ r \in Requests /\ r.op = call[u][s].op /\ r.at = at /\ r.live = call[u][s].live
      /\ call' = [call EXCEPT ![u][s] = r]
  BY Went
<1> HIDE DEF r
<1>2. /\ call' \in [Users -> [Slots -> Requests]]
      /\ \A v \in Users, t \in Slots : call'[v][t] = IF v = u /\ t = s THEN r ELSE call[v][t]
  BY <1>1, Moved
<1> QED
  BY <1>1, <1>2

LEMMA BackfillIInv == ASSUME IInv, NEW u \in Users, NEW s \in Slots, backfillMirror(u, s) PROVE IInv'
<1> USE DEF IInv, backfillMirror, serving, github, browser, writesMirror
<1>1. PICK r \in Requests :
         /\ r.op = call[u][s].op /\ r.live = call[u][s].live /\ r.at = "answer"
         /\ call' \in [Users -> [Slots -> Requests]]
         /\ \A v \in Users, t \in Slots :
               call'[v][t] = IF v = u /\ t = s THEN r ELSE call[v][t]
  BY Gone DEF Stages
<1>2. mirror' = call[u][s].live /\ mirror' \in Seen
  BY DEF CallsTyped, Requests
<1>3. CallsTyped'
  BY <1>1, <1>2 DEF CallsTyped, ConnectionsTypeOK
<1>4. ActsOnlyWithStanding'
  BY <1>1 DEF ActsOnlyWithStanding, CallsTyped, ConnectionsTypeOK
<1>4a. ListedFirst'
  BY <1>1 DEF ListedFirst, At
<1>4b. OwnersOnly'
  BY <1>1 DEF OwnersOnly, At
<1>5. DeletionCarried'
  BY <1>1, <1>2 DEF DeletionCarried, Befalls
<1> QED
  BY <1>3, <1>4, <1>4a, <1>4b, <1>5

LEMMA SubscribeIInv == ASSUME IInv, NEW u \in Users, NEW s \in Slots, subscribe(u, s) PROVE IInv'
<1> USE DEF IInv
<1>1. PICK r \in Requests :
         /\ r.op = call[u][s].op /\ r.live = call[u][s].live /\ r.at = "ok"
         /\ call' \in [Users -> [Slots -> Requests]]
         /\ \A v \in Users, t \in Slots :
               call'[v][t] = IF v = u /\ t = s THEN r ELSE call[v][t]
  BY Gone DEF Stages, subscribe
<1>2. u \in everSaw /\ phase # "absent"
  BY DEF ListedFirst, At, subscribe
<1>3. /\ subs' \in [Users -> Opts]
      /\ \A v \in Users : v # u => subs'[v] = subs[v]
  BY DEF subscribe, createSubscription, CallsTyped, ConnectionsTypeOK, Opts
<1>4. /\ tooLate' = (IF phase = "gone" THEN tooLate \cup {u} ELSE tooLate)
      /\ UNCHANGED <<connectionWorld, phase, details, sees, everSaw, authorized, events, token, mirror,
                     clearing, browser, removers, heard>>
  BY DEF subscribe, serving, github
<1>5. CallsTyped'
  BY <1>1, <1>3, <1>4 DEF CallsTyped, ConnectionsTypeOK, browser
<1>6. ActsOnlyWithStanding'
  BY <1>2, <1>3, <1>4 DEF ActsOnlyWithStanding, browser
<1>7. ListedFirst'
  BY <1>1, <1>2, <1>4 DEF ListedFirst
<1>8. OwnersOnly'
  BY <1>1 DEF OwnersOnly
<1>9. DeletionCarried'
  <2>1. heard => \A v \in Users : subs'[v] # "none" => v \in tooLate'
    BY <1>3, <1>4 DEF DeletionCarried
  <2>2. \A v \in Users, t \in Slots : call'[v][t].at = "ok" \/ call'[v][t].at = call[v][t].at
    BY <1>1
  <2>3. "mirror" \in tooLate => "mirror" \in tooLate'
    BY <1>4
  <2> QED
    BY <1>4, <2>1, <2>2, <2>3 DEF DeletionCarried, Befalls
<1> QED
  BY <1>5, <1>6, <1>7, <1>8, <1>9

\* Opt-ins go and none comes.
LEMMA FewerIInv ==
    ASSUME IInv, CallsTyped', connectionWorld'.faults = connectionWorld.faults,
           UNCHANGED <<phase, sees, everSaw, events, mirror, clearing, page, removers, tooLate, heard>>,
           \A v \in Users : subs'[v] = "none" \/ subs[v] # "none",
           NEW r \in Requests, NEW u \in Users, NEW s \in Slots,
           r.live = call[u][s].live, r.at = "ok",
           \A v \in Users, t \in Slots : call'[v][t] = IF v = u /\ t = s THEN r ELSE call[v][t]
    PROVE  IInv'
<1> USE DEF IInv
<1>1. ActsOnlyWithStanding'
  BY DEF ActsOnlyWithStanding
<1>2. ListedFirst'
  <2>1. \A v \in Users, t \in Slots : call'[v][t].live = call[v][t].live
    OBVIOUS
  <2>2. \A v \in Users, t \in Slots : call'[v][t].at = "ok" \/ call'[v][t] = call[v][t]
    OBVIOUS
  <2>3. phase = "absent" => \A v \in Users : subs'[v] = "none"
    BY DEF ListedFirst
  <2> QED
    BY <2>1, <2>2, <2>3 DEF ListedFirst
<1>3. OwnersOnly'
  BY DEF OwnersOnly
<1>4. DeletionCarried'
  <2>1. \A v \in Users, t \in Slots : call'[v][t].at = "ok" \/ call'[v][t].at = call[v][t].at
    OBVIOUS
  <2>2. heard => \A v \in Users : subs'[v] # "none" => v \in tooLate
    BY DEF DeletionCarried
  <2> QED
    BY <2>1, <2>2 DEF DeletionCarried, Befalls
<1> QED
  BY <1>1, <1>2, <1>3, <1>4

LEMMA UnsubscribeIInv ==
    ASSUME IInv, NEW u \in Users, NEW s \in Slots, unsubscribe(u, s)
    PROVE  IInv'
<1> USE DEF IInv
<1>1. PICK r \in Requests :
         /\ r.op = call[u][s].op /\ r.live = call[u][s].live /\ r.at = "ok"
         /\ call' \in [Users -> [Slots -> Requests]]
         /\ \A v \in Users, t \in Slots :
               call'[v][t] = IF v = u /\ t = s THEN r ELSE call[v][t]
  BY Gone DEF Stages, unsubscribe
<1>2. subs' \in [Users -> Opts] /\ \A v \in Users : subs'[v] = "none" \/ subs[v] # "none"
  BY DEF unsubscribe, CallsTyped, ConnectionsTypeOK, Opts
<1>3. UNCHANGED <<connectionWorld, github, token, mirror, clearing, browser, history>>
  BY DEF unsubscribe, serving
<1>4. CallsTyped'
  BY <1>1, <1>2, <1>3 DEF CallsTyped, ConnectionsTypeOK, github, browser, history
<1> QED
  BY <1>1, <1>2, <1>3, <1>4, FewerIInv DEF github, browser, history

LEMMA PreferencesIInv == ASSUME IInv, NEW u \in Users, updatePreferences(u) PROVE IInv'
<1> USE DEF IInv
<1>1. /\ connectionWorld'.faults = connectionWorld.faults
      /\ connectionWorld' \in [account : Accounts, slots : SUBSET Slots, asks : SUBSET Asks,
                             turns : Nat, edits : Nat,
                             faults : SUBSET {"github", "break", "lost", "revoked"}]
  BY Spent DEF updatePreferences
<1>2. subs' \in [Users -> Opts] /\ \A v \in Users : subs'[v] = "none" \/ subs[v] # "none"
  BY DEF updatePreferences, CallsTyped, ConnectionsTypeOK, Opts
<1>3. UNCHANGED <<github, token, mirror, clearing, call, browser, history>>
  BY DEF updatePreferences
<1>4. CallsTyped'
  BY <1>1, <1>2, <1>3 DEF CallsTyped, ConnectionsTypeOK, github, browser, history
<1>5. ActsOnlyWithStanding'
  BY <1>2, <1>3 DEF ActsOnlyWithStanding, github, browser, history
<1>6. ListedFirst'
  BY <1>2, <1>3 DEF ListedFirst, github
<1>7. OwnersOnly'
  BY <1>3 DEF OwnersOnly
<1>8. DeletionCarried'
  BY <1>1, <1>2, <1>3 DEF DeletionCarried, Befalls, github, history
<1> QED
  BY <1>4, <1>5, <1>6, <1>7, <1>8

LEMMA UninstallIInv ==
    ASSUME IInv, NEW u \in Users, NEW s \in Slots, uninstallAtGithub(u, s)
    PROVE  IInv'
<1> USE DEF IInv, uninstallAtGithub, mongo, browser
<1>1. PICK r \in Requests :
         /\ r.op = call[u][s].op /\ r.live = call[u][s].live /\ r.at = "unmirror"
         /\ call' \in [Users -> [Slots -> Requests]]
         /\ \A v \in Users, t \in Slots :
               call'[v][t] = IF v = u /\ t = s THEN r ELSE call[v][t]
  BY Gone DEF Stages
<1>2. u = Owner /\ call[u][s].op = "remove"
  BY DEF OwnersOnly, At
<1>3. CallsTyped'
  BY <1>1 DEF CallsTyped, ConnectionsTypeOK
<1>4. ActsOnlyWithStanding'
  BY <1>1, <1>2 DEF ActsOnlyWithStanding, CallsTyped, ConnectionsTypeOK
<1>4a. ListedFirst'
  BY <1>1, <1>2 DEF ListedFirst, At
<1>4b. OwnersOnly'
  BY <1>1, <1>2 DEF OwnersOnly, At
<1>5. phase # "absent"
  BY DEF ListedFirst, At
<1>6. phase = "live" \/ phase = "gone"
  BY <1>5 DEF CallsTyped, ConnectionsTypeOK
<1>7. DeletionCarried'
  BY <1>1, <1>6 DEF DeletionCarried, Befalls
<1> QED
  BY <1>3, <1>4, <1>4a, <1>4b, <1>7

LEMMA UnmirrorIInv == ASSUME IInv, NEW u \in Users, NEW s \in Slots, unmirror(u, s) PROVE IInv'
<1> USE DEF IInv
<1>1. PICK r \in Requests :
         /\ r.op = call[u][s].op /\ r.live = call[u][s].live /\ r.at = "clear"
         /\ call' \in [Users -> [Slots -> Requests]]
         /\ \A v \in Users, t \in Slots :
               call'[v][t] = IF v = u /\ t = s THEN r ELSE call[v][t]
  BY Gone DEF Stages, unmirror
<1>2. /\ mirror' = Absent /\ tooLate' = tooLate
      /\ UNCHANGED <<connectionWorld, github, clearing, browser, token, subs, removers, heard>>
  BY DEF unmirror, writesMirror, serving
<1>3. phase = "gone" /\ (call[u][s].op = "remove" => u = Owner) /\ call[u][s].op = "remove"
  BY DEF DeletionCarried, OwnersOnly, unmirror, At
<1>4. CallsTyped'
  BY <1>1, <1>2 DEF CallsTyped, ConnectionsTypeOK, github, browser, Seen
<1>5. ActsOnlyWithStanding'
  BY <1>2 DEF ActsOnlyWithStanding, github, browser
<1>6. ListedFirst'
  BY <1>1, <1>2 DEF ListedFirst, github
<1>7. OwnersOnly'
  BY <1>1, <1>3 DEF OwnersOnly
<1>8. DeletionCarried'
  BY <1>1, <1>2, <1>3 DEF DeletionCarried, Befalls, github
<1> QED
  BY <1>4, <1>5, <1>6, <1>7, <1>8

LEMMA ClearIInv == ASSUME IInv, NEW u \in Users, NEW s \in Slots, clear(u, s) PROVE IInv'
<1> USE DEF IInv
<1>1. PICK r \in Requests :
         /\ r.op = call[u][s].op /\ r.live = call[u][s].live /\ r.at = "ok"
         /\ call' \in [Users -> [Slots -> Requests]]
         /\ \A v \in Users, t \in Slots :
               call'[v][t] = IF v = u /\ t = s THEN r ELSE call[v][t]
  BY Gone DEF Stages, clear
<1>2. /\ subs' \in [Users -> Opts] /\ \A v \in Users : subs'[v] = "none"
      /\ heard' = TRUE
      /\ UNCHANGED <<connectionWorld, github, clearing, browser, token, mirror, removers, tooLate>>
  BY DEF clear, serving, deleteByInstallation, Opts
<1>3. phase = "gone" /\ (mirror # Absent => "mirror" \in tooLate)
  BY DEF DeletionCarried, clear, At
<1>4. CallsTyped'
  BY <1>1, <1>2 DEF CallsTyped, ConnectionsTypeOK, github, browser
<1>5. ActsOnlyWithStanding'
  BY <1>2 DEF ActsOnlyWithStanding, browser
<1>6. ListedFirst'
  <2>1. \A v \in Users, t \in Slots :
           /\ call'[v][t].live = call[v][t].live
           /\ call'[v][t].at = "ok" \/ call'[v][t] = call[v][t]
    BY <1>1
  <2> QED
    BY <1>2, <2>1 DEF ListedFirst, github
<1>7. OwnersOnly'
  BY <1>1 DEF OwnersOnly
<1>8. DeletionCarried'
  BY <1>1, <1>2, <1>3 DEF DeletionCarried, Befalls, github
<1> QED
  BY <1>4, <1>5, <1>6, <1>7, <1>8

----------------------------------------------------------------------------
\* Webhooks, GitHub and its users: no request moves.

LEMMA WebhookIInv == ASSUME IInv, webhook \/ webhookLost PROVE IInv'
<1> USE DEF IInv
<1>1. /\ UNCHANGED <<connectionWorld, phase, details, sees, everSaw, authorized, token, call, browser, removers>>
      /\ events' \subseteq events
  BY DEF webhook, webhookLost, handleDeleted, handleDeletedRest, handleUpsert, github, mongo, history
<1>2. ListedFirst' /\ OwnersOnly' /\ CallsTyped' /\ ActsOnlyWithStanding' /\ DeletionCarried'
  <2>1. CASE handleDeleted
    <3>1. /\ mirror' = Absent /\ tooLate' = tooLate /\ clearing' = TRUE /\ UNCHANGED <<subs, heard>>
          /\ phase = "gone"
      BY <2>1 DEF handleDeleted, writesMirror, DeletionCarried
    <3>2. CallsTyped' /\ ActsOnlyWithStanding'
      BY <1>1, <3>1 DEF CallsTyped, ConnectionsTypeOK, ActsOnlyWithStanding, browser, Seen
    <3>3. ListedFirst' /\ OwnersOnly'
      BY <1>1, <3>1 DEF ListedFirst, OwnersOnly
    <3>4. DeletionCarried'
      BY <1>1, <3>1 DEF DeletionCarried, Befalls
    <3> QED
      BY <3>2, <3>3, <3>4
  <2>2. CASE handleDeletedRest
    <3>1. /\ subs' \in [Users -> Opts] /\ \A v \in Users : subs'[v] = "none"
          /\ clearing /\ clearing' = FALSE /\ heard' = TRUE
          /\ UNCHANGED <<mirror, tooLate, events>> /\ phase = "gone"
      BY <2>2 DEF handleDeletedRest, deleteByInstallation, Opts, github, DeletionCarried
    <3>2. CallsTyped' /\ ActsOnlyWithStanding'
      BY <1>1, <3>1 DEF CallsTyped, ConnectionsTypeOK, ActsOnlyWithStanding, browser
    <3>3. ListedFirst' /\ OwnersOnly'
      BY <1>1, <3>1 DEF ListedFirst, OwnersOnly
    <3>4. DeletionCarried'
      BY <1>1, <3>1 DEF DeletionCarried, Befalls
    <3> QED
      BY <3>2, <3>3, <3>4
  <2>3. CASE handleUpsert
    <3>1. PICK carried \in events \ {Deleted} : events' = events \ {carried} /\ writesMirror(carried)
      BY <2>3 DEF handleUpsert
    <3>2. /\ mirror' \in Seen /\ UNCHANGED <<subs, clearing, heard>>
          /\ tooLate' \subseteq tooLate \cup {"mirror"} /\ tooLate \subseteq tooLate'
          /\ phase = "gone" => (mirror' # Absent => "mirror" \in tooLate')
          /\ Deleted \in events' <=> Deleted \in events
      BY <2>3, <3>1 DEF handleUpsert, writesMirror, CallsTyped
    <3>3. CallsTyped' /\ ActsOnlyWithStanding'
      BY <1>1, <3>2 DEF CallsTyped, ConnectionsTypeOK, ActsOnlyWithStanding, browser
    <3>4. ListedFirst' /\ OwnersOnly'
      BY <1>1, <3>2 DEF ListedFirst, OwnersOnly
    <3>5. DeletionCarried'
      BY <1>1, <3>2 DEF DeletionCarried, Befalls
    <3> QED
      BY <3>3, <3>4, <3>5
  <2>4. CASE webhookLost
    <3>1. /\ UNCHANGED <<subs, mirror, tooLate, heard>> /\ Befalls("lost")
          /\ clearing' = clearing \/ (clearing /\ clearing' = FALSE)
      BY <2>4 DEF webhookLost, mongo, history
    <3>2. CallsTyped' /\ ActsOnlyWithStanding'
      BY <1>1, <3>1 DEF CallsTyped, ConnectionsTypeOK, ActsOnlyWithStanding, browser
    <3>3. ListedFirst' /\ OwnersOnly'
      BY <1>1, <3>1 DEF ListedFirst, OwnersOnly
    <3>4. DeletionCarried'
      BY <1>1, <3>1 DEF DeletionCarried, Befalls
    <3> QED
      BY <3>2, <3>3, <3>4
  <2> QED
    BY <2>1, <2>2, <2>3, <2>4 DEF webhook
<1> QED
  BY <1>2

LEMMA GithubIInv == ASSUME IInv, Github PROVE IInv'
<1> USE DEF IInv
<1>1. UNCHANGED <<token, mirror, subs, clearing, call, page, pretend, latest, removers, tooLate, heard>>
  BY DEF Github, mongo, browser, history
<1>2. /\ connectionWorld'.faults = connectionWorld.faults
      /\ connectionWorld' \in [account : Accounts, slots : SUBSET Slots, asks : SUBSET Asks,
                             turns : Nat, edits : Nat,
                             faults : SUBSET {"github", "break", "lost", "revoked"}]
  BY Spent DEF Github, installed, changed, removed, people, edits
<1>3. /\ phase' \in {"absent", "live", "gone"} /\ details' \in Nat
      /\ events' \subseteq Seen \cup {Deleted}
      /\ sees' \subseteq everSaw' /\ everSaw' \subseteq Users /\ authorized' \subseteq Users
      /\ phase' = "absent" => phase = "absent"
      /\ phase = "absent" \/ everSaw \subseteq everSaw'
      /\ Deleted \in events => Deleted \in events'
      /\ phase = "gone" => phase' = "gone" /\ events' = events
      /\ phase' = "gone" /\ phase # "gone" => Deleted \in events'
      /\ Deleted \in events' /\ Deleted \notin events => phase' = "gone"
  <2> USE DEF CallsTyped, ConnectionsTypeOK, ListedFirst
  <2>1. CASE installed
    BY <2>1 DEF installed, Seen, Deleted, DeletionCarried
  <2>2. CASE changed
    BY <2>2 DEF changed, edits, Seen, Deleted, DeletionCarried
  <2>3. CASE removed
    BY <2>3 DEF removed, edits
  <2>4. CASE people
    BY <2>4 DEF people, edits
  <2> QED
    BY <2>1, <2>2, <2>3, <2>4 DEF Github
<1>4. CallsTyped'
  BY <1>1, <1>2, <1>3 DEF CallsTyped, ConnectionsTypeOK
<1>5. ActsOnlyWithStanding'
  BY <1>1, <1>3 DEF ActsOnlyWithStanding, ListedFirst
<1>6. ListedFirst'
  BY <1>1, <1>3 DEF ListedFirst
<1>7. OwnersOnly'
  BY <1>1 DEF OwnersOnly
<1>8. DeletionCarried'
  BY <1>1, <1>2, <1>3 DEF DeletionCarried, Befalls
<1> QED
  BY <1>4, <1>5, <1>6, <1>7, <1>8

LEMMA NextIInv == IInv /\ [ConnectionsNext]_connectionsVars => IInv'
<1> SUFFICES ASSUME IInv, [ConnectionsNext]_connectionsVars PROVE IInv'
  OBVIOUS
<1>1. ASSUME NEW u \in Users, NEW s \in Slots,
             loadConnections(u, s) \/ toggle(u, s) \/ uninstall(u, s) \/ browse(u, s)
             \/ serve(u, s) \/ breaksOff(u, s)
      PROVE  IInv'
  <2>1. CASE browse(u, s)
    BY <2>1, FetchesIInv, SettlesIInv DEF browse
  <2>2. CASE serve(u, s)
    BY <2>2, ReadsIInv, ListIInv, RowsIInv, BackfillIInv, SubscribeIInv, UnsubscribeIInv,
       UninstallIInv, UnmirrorIInv, ClearIInv DEF serve
  <2> QED
    BY <1>1, <2>1, <2>2, AsksIInv, ReadsIInv
<1>2. CASE UNCHANGED connectionsVars
  BY <1>2 DEF IInv, CallsTyped, ConnectionsTypeOK, ActsOnlyWithStanding, ListedFirst, OwnersOnly,
              DeletionCarried, Befalls, connectionsVars, github, mongo, browser, history
<1> QED
  BY <1>1, <1>2, PreferencesIInv, WebhookIInv, GithubIInv DEF ConnectionsNext

THEOREM Invariance == ConnectionsSpec => []IInv
  BY InitIInv, NextIInv, PTL DEF ConnectionsSpec

----------------------------------------------------------------------------
\* Every variable keeps its type.
THEOREM TypeCorrect == ConnectionsSpec => []ConnectionsTypeOK
<1>1. IInv => ConnectionsTypeOK
  BY DEF IInv, CallsTyped
<1> QED
  BY <1>1, Invariance, PTL

\* Whoever is opted in was shown the installation by GitHub, only its owner has proke removed, and
\* nobody else's row calls them its owner (connections.service.ts:276-295, :205-232).
THEOREM StandingIsChecked == ConnectionsSpec => []ActsOnlyWithStanding
<1>1. IInv => ActsOnlyWithStanding
  BY DEF IInv
<1> QED
  BY <1>1, Invariance, PTL

\* Once a deletion has been carried through, no opt-in and no row is left but those written after it
\* was gone, by requests and webhooks that were under way (github-webhook-installations.service.ts:47).
THEOREM NothingIsLeftBehind == ConnectionsSpec => []GoneLeavesNothing
<1>1. IInv => GoneLeavesNothing
  BY DEF IInv, DeletionCarried, GoneLeavesNothing, settled
<1> QED
  BY <1>1, Invariance, PTL


----------------------------------------------------------------------------
(* The page's half: what the row shows while clicks are written, and at rest. *)

\* Whether a request is a click's, before the write or fetching after it, and which.
Toggling(r) == r.op \in {"on", "off"} \/ r.after \in {"on", "off"}
Meant(r)    == IF r.op = "load" THEN r.after ELSE r.op

Shaped == \A u \in Users, s \in Slots :
    /\ call[u][s].at # "idle" => s \in connectionWorld.slots
    /\ call[u][s].at = "idle" => ~Toggling(call[u][s])
    /\ call[u][s].after # "none" => call[u][s].op = "load"
    /\ call[u][s].at \in {"read", "list"} => call[u][s].live = Absent

\* Clicks are numbered as they are made, no two of a page alike, and the latest is what is pretended.
Clicked ==
    /\ \A u \in Users, s \in Slots : Toggling(call[u][s]) => call[u][s].click <= latest[u]
    /\ \A u \in Users, s, t \in Slots :
          Toggling(call[u][s]) /\ Toggling(call[u][t]) /\ call[u][s].click = call[u][t].click => s = t
    /\ \A u \in Users, s \in Slots :
          Toggling(call[u][s]) /\ call[u][s].click = latest[u] => pretend[u] = Wanted(Meant(call[u][s]))

\* Nobody has details that GitHub has yet to have.
NothingAhead ==
    /\ mirror <= details
    /\ \A e \in events : e <= details
    /\ \A u \in Users, s \in Slots : call[u][s].live <= details /\ call[u][s].row <= details

\* How a row reads that says what is stored.
TellsOf(opt) == IF opt = "none" THEN "available" ELSE "subscribed"

\* Nothing has changed the account, no request breaks off, and a page asks for one thing at a time.
Calm(s) == phase # "gone" /\ details = 0 /\ ~Befalls("break") /\ connectionWorld.slots = {s}

\* A page that asks for one thing at a time: what it was answered is stored, but for a click whose
\* write has landed, and then that click is.
RowTrue(u, s) ==
    /\ ~Toggling(call[u][s]) => pretend[u] = "none"
    /\ Toggling(call[u][s]) => call[u][s].click = latest[u]
    /\ listed(u) /\ (Toggling(call[u][s]) => call[u][s].op # "load" /\ call[u][s].at # "ok")
          => page[u].status = TellsOf(subs[u])
    /\ Toggling(call[u][s]) /\ (call[u][s].op = "load" \/ call[u][s].at = "ok")
          => Wanted(Meant(call[u][s])) = TellsOf(subs[u])
    /\ call[u][s].op = "load" =>
          /\ call[u][s].at # "no"
          /\ call[u][s].at \in {"fill", "answer"} /\ call[u][s].live # Absent
                => TellsOf(call[u][s].opt) = TellsOf(subs[u])

CalmRows == \A s \in Slots : Calm(s) => \A u \in Users : RowTrue(u, s)

PInv == Shaped /\ Clicked /\ NothingAhead /\ CalmRows

LEMMA InitPInv == ConnectionsInit => PInv
<1> SUFFICES ASSUME ConnectionsInit PROVE PInv
  OBVIOUS
<1> USE DEF ConnectionsInit, Idle, Asked, BlankRow, Absent
<1>1. \A u \in Users, s \in Slots : call[u][s] = Idle /\ ~Toggling(call[u][s])
  BY DEF Toggling
<1>2. Shaped /\ Clicked
  BY <1>1 DEF Shaped, Clicked
<1>3. NothingAhead
  BY <1>1 DEF NothingAhead
<1>4. CalmRows
  BY <1>1 DEF CalmRows, RowTrue, listed
<1> QED
  BY <1>2, <1>3, <1>4 DEF PInv

\* No request moves.
LEMMA QuietPInv ==
    ASSUME IInv, PInv, NothingAhead', UNCHANGED <<call, page, pretend, latest>>,
           connectionWorld'.slots = connectionWorld.slots, connectionWorld'.faults = connectionWorld.faults,
           phase = "gone" => phase' = "gone", details' = 0 => details = 0,
           phase' # "gone" => \A u \in Users : TellsOf(subs'[u]) = TellsOf(subs[u])
    PROVE  PInv'
<1>1. Shaped' /\ Clicked'
  BY DEF PInv, Shaped, Clicked
<1>2. CalmRows'
  <2> SUFFICES ASSUME NEW s \in Slots, Calm(s)', NEW u \in Users PROVE RowTrue(u, s)'
    BY DEF CalmRows
  <2>1. Calm(s) /\ TellsOf(subs'[u]) = TellsOf(subs[u])
    BY DEF Calm, Befalls
  <2>2. RowTrue(u, s)
    BY <2>1 DEF PInv, CalmRows
  <2> QED
    BY <2>1, <2>2 DEF RowTrue, listed
<1> QED
  BY <1>1, <1>2 DEF PInv

\* A request goes on at the server.
LEMMA MovePInv ==
    ASSUME IInv, PInv, NothingAhead', UNCHANGED <<connectionWorld, details, page, pretend, latest>>,
           phase = "gone" => phase' = "gone",
           NEW u \in Users, NEW s \in Slots, NEW r \in Requests,
           \A v \in Users, t \in Slots : call'[v][t] = IF v = u /\ t = s THEN r ELSE call[v][t],
           call[u][s].at # "idle", r.at # "idle",
           r.op = call[u][s].op, r.click = call[u][s].click, r.after = call[u][s].after,
           r.at \in {"read", "list"} => r.live = Absent,
           Calm(s) /\ phase' # "gone" =>
              /\ call[u][s].at # "ok"
              /\ \A v \in Users : v # u => TellsOf(subs'[v]) = TellsOf(subs[v])
              /\ IF r.op \in {"on", "off"} /\ r.at = "ok" THEN TellsOf(subs'[u]) = Wanted(r.op)
                                                         ELSE TellsOf(subs'[u]) = TellsOf(subs[u])
              /\ r.op = "load" => r.at # "no"
              /\ r.op = "load" /\ r.at \in {"fill", "answer"} /\ r.live # Absent =>
                    TellsOf(r.opt) = TellsOf(subs[u])
    PROVE  PInv'
<1>1. Toggling(r) = Toggling(call[u][s]) /\ Meant(r) = Meant(call[u][s])
  BY DEF Toggling, Meant
<1>2. s \in connectionWorld.slots /\ (r.after # "none" => r.op = "load")
  BY DEF PInv, Shaped
<1>3. Shaped'
  BY <1>2 DEF PInv, Shaped
<1>4. Clicked'
  BY <1>1 DEF PInv, Clicked
<1>5. CalmRows'
  <2> SUFFICES ASSUME NEW t \in Slots, Calm(t)', NEW v \in Users PROVE RowTrue(v, t)'
    BY DEF CalmRows
  <2>1. Calm(t) /\ t = s /\ phase' # "gone" /\ ~Befalls("break")
    BY <1>2 DEF Calm, Befalls
  <2>2. RowTrue(v, s)
    BY <2>1 DEF PInv, CalmRows
  <2>3. CASE v # u
    <3>1. call'[v][s] = call[v][s] /\ TellsOf(subs'[v]) = TellsOf(subs[v])
      BY <2>1, <2>3
    <3> QED
      BY <2>1, <2>2, <3>1 DEF RowTrue, listed
  <2>4. CASE v = u
    <3>1. call'[u][s] = r
      OBVIOUS
    <3>2. /\ ~Toggling(r) => pretend'[u] = "none"
          /\ Toggling(r) => r.click = latest'[u]
      BY <1>1, <2>2, <2>4 DEF RowTrue
    <3>3. r.op \in {"on", "off"} => Toggling(r) /\ Meant(r) = r.op /\ r.op # "load"
      BY DEF Toggling, Meant
    <3>4. ASSUME listed(u)', Toggling(r) => r.op # "load" /\ r.at # "ok"
          PROVE  page'[u].status = TellsOf(subs'[u])
      <4>1. TellsOf(subs'[u]) = TellsOf(subs[u])
        BY <2>1, <3>3, <3>4
      <4> QED
        BY <1>1, <2>1, <2>2, <2>4, <3>4, <4>1 DEF RowTrue, listed
    <3>5. ASSUME Toggling(r), r.op = "load" \/ r.at = "ok"
          PROVE  Wanted(Meant(r)) = TellsOf(subs'[u])
      <4>1. CASE r.op = "load"
        BY <1>1, <2>1, <2>2, <2>4, <3>5, <4>1 DEF RowTrue
      <4>2. CASE r.op # "load"
        <5>1. r.op \in {"on", "off"} /\ r.at = "ok"
          BY <1>2, <3>5, <4>2 DEF Toggling
        <5> QED
          BY <2>1, <3>3, <5>1
      <4> QED
        BY <4>1, <4>2
    <3>6. r.op = "load" =>
             /\ r.at # "no"
             /\ r.at \in {"fill", "answer"} /\ r.live # Absent => TellsOf(r.opt) = TellsOf(subs'[u])
      BY <2>1
    <3> QED
      BY <2>1, <2>4, <3>1, <3>2, <3>4, <3>5, <3>6 DEF RowTrue
  <2> QED
    BY <2>3, <2>4
<1> QED
  BY <1>3, <1>4, <1>5 DEF PInv

\* What is all the same of a request that only goes on.
SameBut(r, q) == /\ r.op = q.op /\ r.click = q.click /\ r.after = q.after
                 /\ r.live = q.live /\ r.row = q.row /\ r.opt = q.opt

LEMMA WentOn ==
    ASSUME CallsTyped, NEW u \in Users, NEW s \in Slots, NEW at \in Stages, goes(u, s, at)
    PROVE  \E r \in Requests :
              /\ SameBut(r, call[u][s]) /\ r.at = at
              /\ \A v \in Users, t \in Slots :
                    call'[v][t] = IF v = u /\ t = s THEN r ELSE call[v][t]
<1>1. call[u][s] \in Requests
  BY DEF CallsTyped
<1>2. PICK r \in Requests : r = [call[u][s] EXCEPT !.at = at]
  BY <1>1 DEF Requests
<1>3. r.at = at /\ SameBut(r, call[u][s])
  <2>1. /\ r.at = at /\ r.op = call[u][s].op /\ r.click = call[u][s].click
        /\ r.after = call[u][s].after /\ r.live = call[u][s].live
    BY <1>1, <1>2 DEF Requests
  <2>2. r.row = call[u][s].row /\ r.opt = call[u][s].opt
    BY <1>1, <1>2 DEF Requests
  <2> QED
    BY <2>1, <2>2 DEF SameBut
<1>4. call' = [call EXCEPT ![u][s] = r]
  <2>1. call' = [call EXCEPT ![u][s] = [call[u][s] EXCEPT !.at = at]]
    BY DEF goes
  <2> QED
    BY <1>2, <2>1, Zenon
<1>5. \A v \in Users, t \in Slots : call'[v][t] = IF v = u /\ t = s THEN r ELSE call[v][t]
  BY <1>4, Moved
<1> QED
  BY <1>3, <1>5

\* A request that goes on reads nothing.
LEMMA NothingNewAhead ==
    ASSUME IInv, PInv, NEW u \in Users, NEW s \in Slots, NEW r \in Requests, SameBut(r, call[u][s]),
           \A v \in Users, t \in Slots : call'[v][t] = IF v = u /\ t = s THEN r ELSE call[v][t],
           details' = details, events' \subseteq events \cup {Deleted}, mirror' <= details
    PROVE  NothingAhead'
<1>1. Deleted <= details
  BY DEF IInv, CallsTyped, ConnectionsTypeOK, Deleted
<1> QED
  BY <1>1 DEF PInv, NothingAhead, SameBut

LEMMA GoesPInv ==
    ASSUME IInv, PInv, NEW u \in Users, NEW s \in Slots,
           \/ readUser(u, s) \/ tokenRejected(u, s) \/ assertUserMayUninstall(u, s)
           \/ breaksOff(u, s) \/ backfillMirror(u, s)
    PROVE  PInv'
<1>1. PICK at \in Stages \ {"idle", "read", "ok", "fill"} :
         /\ goes(u, s, at)
         /\ at = "list" \/ (call[u][s].op = "load" /\ at = "answer") => call[u][s].at \in {"read", "list", "fill"}
         /\ at = "list" => call[u][s].at = "read"
         /\ call[u][s].op = "load" => at # "no" \/ Befalls("break")
         /\ call[u][s].at \in {"read", "list", "role", "fill"} \/ Befalls("break")
  <2>1. CASE readUser(u, s)
    <3> DEFINE at == CASE u \in token -> "list"
                       [] u \notin token /\ call[u][s].op = "load" -> "answer"
                       [] OTHER -> "no"
    <3>1. at \in {"list", "answer", "no"} /\ goes(u, s, at) /\ (call[u][s].op = "load" => at # "no")
      BY <2>1 DEF readUser
    <3>2. call[u][s].at = "read"
      BY <2>1 DEF readUser
    <3> HIDE DEF at
    <3> QED
      BY <3>1, <3>2 DEF Stages
  <2>2. CASE tokenRejected(u, s)
    BY <2>2 DEF tokenRejected, Stages
  <2>3. CASE assertUserMayUninstall(u, s)
    <3>1. PICK may \in mayUninstall(u) : goes(u, s, IF may THEN "delete" ELSE "no")
      BY <2>3 DEF assertUserMayUninstall
    <3>2. call[u][s].op = "remove" /\ call[u][s].at = "role"
      BY <2>3 DEF assertUserMayUninstall, At
    <3> QED
      BY <3>1, <3>2 DEF Stages
  <2>4. CASE breaksOff(u, s)
    BY <2>4 DEF breaksOff, Stages
  <2>5. CASE backfillMirror(u, s)
    BY <2>5 DEF backfillMirror, At, Stages
  <2> QED
    BY <2>1, <2>2, <2>3, <2>4, <2>5
<1>2. call[u][s].at # "idle"
  BY DEF readUser, tokenRejected, assertUserMayUninstall, breaksOff, backfillMirror, At
<1>3. /\ mirror' = mirror \/ mirror' = call[u][s].live
      /\ UNCHANGED <<connectionWorld, phase, details, events, page, pretend, latest, subs>>
  BY DEF readUser, tokenRejected, assertUserMayUninstall, breaksOff, backfillMirror, reading, serving,
         mongo, github, browser, writesMirror
<1>4. PICK r \in Requests :
         /\ SameBut(r, call[u][s]) /\ r.at = at
         /\ \A v \in Users, t \in Slots :
               call'[v][t] = IF v = u /\ t = s THEN r ELSE call[v][t]
  BY <1>1, WentOn DEF IInv
<1>5. NothingAhead'
  <2>1. mirror' <= details
    BY <1>3 DEF PInv, NothingAhead
  <2> QED
    BY <1>3, <1>4, <2>1, NothingNewAhead
<1>6. r.at \in {"read", "list"} => r.live = Absent
  BY <1>1, <1>4 DEF PInv, Shaped, SameBut
<1>7. ASSUME Calm(s), r.op = "load", r.at \in {"fill", "answer"}, r.live # Absent
      PROVE  TellsOf(r.opt) = TellsOf(subs[u])
  <2>1. call[u][s].at = "fill" /\ call[u][s].op = "load" /\ call[u][s].live # Absent
    BY <1>1, <1>4, <1>7 DEF PInv, Shaped, SameBut
  <2> QED
    BY <1>4, <1>7, <2>1 DEF PInv, CalmRows, RowTrue, SameBut
<1>8. Calm(s) => ~Befalls("break")
  BY DEF Calm
<1> QED
  BY <1>1, <1>2, <1>3, <1>4, <1>5, <1>6, <1>7, <1>8, MovePInv DEF SameBut

LEMMA ListPInv == ASSUME IInv, PInv, NEW u \in Users, NEW s \in Slots, listForUser(u, s) PROVE PInv'
<1>1. PICK live \in {IF phase = "live" /\ u \in sees THEN details ELSE Absent} \cup {Absent} :
         call' = [call EXCEPT ![u][s] = [@ EXCEPT !.live = live,
                     !.at = IF live # Absent \/ call[u][s].op = "load" THEN next(call[u][s].op) ELSE "no"]]
  BY DEF listForUser
<1> DEFINE at == IF live # Absent \/ call[u][s].op = "load" THEN next(call[u][s].op) ELSE "no"
           r  == [call[u][s] EXCEPT !.live = live, !.at = at]
<1>2. live \in Seen /\ live <= details
  BY DEF IInv, CallsTyped, ConnectionsTypeOK, Seen, Absent
<1>3. at \in {"rows", "create", "role", "no"} /\ (call[u][s].op = "load" => at # "no")
  BY DEF next
<1> HIDE DEF at
<1>4. /\ r \in Requests /\ r.op = call[u][s].op /\ r.at = at /\ r.live = live
      /\ r.click = call[u][s].click /\ r.after = call[u][s].after /\ r.row = call[u][s].row
  <2>1. call[u][s] \in Requests /\ at \in Stages
    BY <1>3 DEF IInv, CallsTyped, Stages
  <2> QED
    BY <1>2, <2>1 DEF Requests
<1>5. call' = [call EXCEPT ![u][s] = r]
  BY <1>1 DEF at
<1> HIDE DEF r
<1>6. \A v \in Users, t \in Slots : call'[v][t] = IF v = u /\ t = s THEN r ELSE call[v][t]
  BY <1>4, <1>5, Moved DEF IInv
<1>7. /\ UNCHANGED <<connectionWorld, phase, details, events, page, pretend, latest, subs, mirror>>
      /\ call[u][s].at = "list"
  BY DEF listForUser, reading, serving, mongo, github, browser
<1>8. NothingAhead'
  BY <1>2, <1>4, <1>6, <1>7 DEF PInv, NothingAhead
<1> QED
  BY <1>3, <1>4, <1>6, <1>7, <1>8, MovePInv

LEMMA RowsPInv == ASSUME IInv, PInv, NEW u \in Users, NEW s \in Slots, readRows(u, s) PROVE PInv'
<1> DEFINE seen == call[u][s].live
           newRow  == IF seen = Absent THEN Absent ELSE mirror
           at   == IF seen # Absent /\ mirror = Absent THEN "fill" ELSE "answer"
           r    == [call[u][s] EXCEPT !.opt = subs[u], !.row = newRow, !.at = at]
<1>1. call \in [Users -> [Slots -> Requests]] /\ call[u][s] \in Requests
  BY DEF IInv, CallsTyped
<1>2. /\ call[u][s].op = "load" /\ call[u][s].at = "rows" /\ subs[u] \in Opts /\ newRow \in Seen
      /\ at \in {"fill", "answer"} /\ newRow <= details
  BY DEF readRows, At, IInv, CallsTyped, ConnectionsTypeOK, Seen, PInv, NothingAhead, Absent
<1>3. call' = [call EXCEPT ![u][s] = r]
  BY DEF readRows
<1> HIDE DEF at, newRow
<1>4. /\ r \in Requests /\ r.op = "load" /\ r.at = at /\ r.live = seen /\ r.row = newRow
      /\ r.opt = subs[u] /\ r.click = call[u][s].click /\ r.after = call[u][s].after
  <2>1. at \in Stages
    BY <1>2 DEF Stages
  <2> QED
    BY <1>1, <1>2, <2>1 DEF Requests
<1> HIDE DEF r
<1>5. \A v \in Users, t \in Slots : call'[v][t] = IF v = u /\ t = s THEN r ELSE call[v][t]
  BY <1>3, <1>4, Moved DEF IInv
<1>6. UNCHANGED <<connectionWorld, phase, details, events, page, pretend, latest, subs, mirror>>
  BY DEF readRows, reading, serving, mongo, github, browser
<1>7. NothingAhead'
  BY <1>2, <1>4, <1>5, <1>6 DEF PInv, NothingAhead
<1> QED
  BY <1>2, <1>4, <1>5, <1>6, <1>7, MovePInv

\* A click's write lands.
LEMMA WritesPInv ==
    ASSUME IInv, PInv, NEW u \in Users, NEW s \in Slots,
           \/ subscribe(u, s) \/ unsubscribe(u, s)
           \/ uninstallAtGithub(u, s) \/ unmirror(u, s) \/ clear(u, s)
    PROVE  PInv'
<1>1. PICK at \in {"ok", "unmirror", "clear"} :
         /\ goes(u, s, at)
         /\ phase' # "gone" =>
               /\ at = "ok" /\ call[u][s].op \in {"on", "off"} /\ call[u][s].at \in {"create", "delete"}
               /\ TellsOf(subs'[u]) = Wanted(call[u][s].op)
               /\ \A v \in Users : v # u => subs'[v] = subs[v]
  <2> USE DEF IInv, CallsTyped, ConnectionsTypeOK
  <2>1. CASE subscribe(u, s)
    BY <2>1 DEF subscribe, createSubscription, At, TellsOf, Wanted
  <2>2. CASE unsubscribe(u, s)
    BY <2>2 DEF unsubscribe, At, TellsOf, Wanted
  <2>3. CASE uninstallAtGithub(u, s)
    BY <2>3 DEF uninstallAtGithub
  <2>4. CASE unmirror(u, s)
    <3>1. phase = "gone" /\ phase' = phase
      BY <2>4 DEF unmirror, At, DeletionCarried, serving, github
    <3> QED
      BY <2>4, <3>1 DEF unmirror
  <2>5. CASE clear(u, s)
    <3>1. phase = "gone" /\ phase' = phase
      BY <2>5 DEF clear, At, DeletionCarried, serving, github
    <3> QED
      BY <2>5, <3>1 DEF clear
  <2> QED
    BY <2>1, <2>2, <2>3, <2>4, <2>5
<1>2. /\ UNCHANGED <<connectionWorld, details, page, pretend, latest>>
      /\ events' \subseteq events \cup {Deleted} /\ mirror' \in {mirror, Absent}
      /\ phase = "gone" => phase' = "gone"
      /\ call[u][s].at \notin {"idle", "ok"}
  <2>1. CASE subscribe(u, s)
    BY <2>1 DEF subscribe, serving, github, browser, At
  <2>2. CASE unsubscribe(u, s)
    BY <2>2 DEF unsubscribe, serving, github, browser, At
  <2>3. CASE uninstallAtGithub(u, s)
    BY <2>3 DEF uninstallAtGithub, mongo, browser, At
  <2>4. CASE unmirror(u, s)
    BY <2>4 DEF unmirror, writesMirror, serving, github, browser, At
  <2>5. CASE clear(u, s)
    BY <2>5 DEF clear, serving, github, browser, At
  <2> QED
    BY <2>1, <2>2, <2>3, <2>4, <2>5
<1>3. PICK r \in Requests :
         /\ SameBut(r, call[u][s]) /\ r.at = at
         /\ \A v \in Users, t \in Slots :
               call'[v][t] = IF v = u /\ t = s THEN r ELSE call[v][t]
  BY <1>1, WentOn DEF IInv, Stages
<1>4. NothingAhead'
  <2>1. mirror' <= details
    BY <1>2 DEF PInv, NothingAhead, IInv, CallsTyped, ConnectionsTypeOK, Absent
  <2> QED
    BY <1>2, <1>3, <2>1, NothingNewAhead
<1> QED
  BY <1>1, <1>2, <1>3, <1>4, MovePInv DEF SameBut

LEMMA AskedIs ==
    ASSUME NEW op, NEW at, NEW click, NEW after
    PROVE  LET r == Asked(op, at, click, after)
           IN  /\ r.op = op /\ r.at = at /\ r.click = click /\ r.after = after
               /\ r.live = Absent /\ r.row = Absent
BY DEF Asked

\* Nothing is ahead when a request starts over.
LEMMA StartedAhead ==
    ASSUME IInv, PInv, NEW u \in Users, NEW s \in Slots, NEW r, r.live = Absent, r.row = Absent,
           \A v \in Users, t \in Slots : call'[v][t] = IF v = u /\ t = s THEN r ELSE call[v][t],
           UNCHANGED <<details, events, mirror>>
    PROVE  NothingAhead'
<1>1. Absent <= details
  BY DEF IInv, CallsTyped, ConnectionsTypeOK, Absent
<1> QED
  BY <1>1 DEF PInv, NothingAhead

\* A click, and whatever else is asked for.
LEMMA AsksPInv ==
    ASSUME IInv, PInv, NEW u \in Users, NEW s \in Slots,
           loadConnections(u, s) \/ toggle(u, s) \/ uninstall(u, s)
    PROVE  PInv'
<1>1. PICK op \in Asks, click \in Nat, at \in {"read", "delete"} :
         /\ asks(u, s, op) /\ call' = [call EXCEPT ![u][s] = Asked(op, at, click, "none")]
         /\ UNCHANGED <<github, mongo, clearing, page, history>>
         /\ \/ op \in {"load", "remove"} /\ UNCHANGED <<pretend, latest>>
            \/ /\ op \in {"on", "off"} /\ click = latest[u] + 1
               /\ latest' = [latest EXCEPT ![u] = click]
               /\ pretend' = [pretend EXCEPT ![u] = Wanted(op)]
  <2>1. CASE loadConnections(u, s)
    BY <2>1, "load" \in Asks, 0 \in Nat DEF loadConnections, browser, Asks
  <2>2. CASE uninstall(u, s)
    BY <2>2, "remove" \in Asks, 0 \in Nat DEF uninstall, browser, Asks
  <2>3. CASE toggle(u, s)
    <3>1. PICK op \in offers(u) \ {"remove"} :
             /\ asks(u, s, op)
             /\ latest' = [latest EXCEPT ![u] = @ + 1]
             /\ pretend' = [pretend EXCEPT ![u] = Wanted(op)]
             /\ call' = [call EXCEPT ![u][s] =
                            Asked(op, IF op = "on" THEN "read" ELSE "delete", latest'[u], "none")]
             /\ UNCHANGED <<github, mongo, clearing, page, history>>
      BY <2>3 DEF toggle
    <3>2. op \in {"on", "off"}
      BY <3>1 DEF offers
    <3>3. latest \in [Users -> Nat] /\ latest'[u] = latest[u] + 1 /\ latest'[u] \in Nat
      BY <3>1 DEF IInv, CallsTyped, ConnectionsTypeOK
    <3> QED
      BY <3>1, <3>2, <3>3 DEF Asks
  <2> QED
    BY <2>1, <2>2, <2>3
<1> DEFINE r == Asked(op, at, click, "none")
<1>2. /\ r \in Requests /\ r.op = op /\ r.at = at /\ r.click = click /\ r.after = "none"
      /\ r.live = Absent /\ r.row = Absent
  BY DEF Requests, Stages, Asked, Seen, Opts, Asks
<1> HIDE DEF r
<1>3. \A v \in Users, t \in Slots : call'[v][t] = IF v = u /\ t = s THEN r ELSE call[v][t]
  BY <1>1, <1>2, Moved DEF IInv, r
<1>4. /\ s \in connectionWorld.slots /\ call[u][s].at = "idle"
      /\ connectionWorld'.slots = connectionWorld.slots /\ connectionWorld'.faults = connectionWorld.faults
  BY <1>1, Spent DEF asks, IInv, CallsTyped
<1>5. /\ Toggling(r) <=> op \in {"on", "off"}
      /\ Toggling(r) => Meant(r) = op
  BY <1>2 DEF Toggling, Meant
<1>6. ~Toggling(call[u][s]) /\ latest \in [Users -> Nat]
      /\ \A v \in Users, t \in Slots : call[v][t].click \in Nat
  BY <1>4 DEF PInv, Shaped, IInv, CallsTyped, ConnectionsTypeOK, Requests
<1>7. Shaped'
  BY <1>2, <1>3, <1>4, <1>5 DEF PInv, Shaped
<1>8. Clicked'
  <2>1. CASE op \in {"load", "remove"}
    <3>1. ~Toggling(r) /\ UNCHANGED <<pretend, latest>>
      BY <1>1, <1>5, <2>1
    <3> QED
      BY <1>3, <3>1 DEF PInv, Clicked
  <2>2. CASE op \in {"on", "off"}
    <3>1. /\ click = latest[u] + 1 /\ latest' = [latest EXCEPT ![u] = click]
          /\ pretend' = [pretend EXCEPT ![u] = Wanted(op)]
      BY <1>1, <2>2
    <3>2. /\ latest'[u] = click /\ pretend'[u] = Wanted(op)
          /\ \A v \in Users : v # u => latest'[v] = latest[v] /\ pretend'[v] = pretend[v]
      BY <1>6, <3>1 DEF IInv, CallsTyped, ConnectionsTypeOK
    <3>3. \A t \in Slots : t # s /\ Toggling(call[u][t]) => call[u][t].click < click
      BY <1>6, <3>1 DEF PInv, Clicked
    <3>4. \A v \in Users, t \in Slots : Toggling(call'[v][t]) => call'[v][t].click <= latest'[v]
      BY <1>2, <1>3, <1>6, <3>2, <3>3 DEF PInv, Clicked
    <3>5. \A v \in Users, t1, t2 \in Slots :
             Toggling(call'[v][t1]) /\ Toggling(call'[v][t2]) /\ call'[v][t1].click = call'[v][t2].click
                => t1 = t2
      BY <1>2, <1>3, <1>6, <3>3 DEF PInv, Clicked
    <3>6. \A v \in Users, t \in Slots :
             Toggling(call'[v][t]) /\ call'[v][t].click = latest'[v]
                => pretend'[v] = Wanted(Meant(call'[v][t]))
      BY <1>2, <1>3, <1>5, <1>6, <3>2, <3>3 DEF PInv, Clicked
    <3> QED
      BY <3>4, <3>5, <3>6 DEF Clicked
  <2> QED
    BY <1>1, <2>1, <2>2
<1>9. NothingAhead'
  BY <1>1, <1>2, <1>3, StartedAhead DEF github, mongo
<1>10. CalmRows'
  <2> SUFFICES ASSUME NEW t \in Slots, Calm(t)', NEW v \in Users PROVE RowTrue(v, t)'
    BY DEF CalmRows
  <2>1. Calm(t) /\ t = s /\ UNCHANGED <<page, subs>>
    BY <1>1, <1>4 DEF Calm, Befalls, github, mongo
  <2>2. RowTrue(v, s)
    BY <2>1 DEF PInv, CalmRows
  <2>3. CASE v # u
    <3>1. call'[v][s] = call[v][s] /\ pretend'[v] = pretend[v] /\ latest'[v] = latest[v]
      BY <1>1, <1>3, <2>3 DEF IInv, CallsTyped, ConnectionsTypeOK
    <3> QED
      BY <2>1, <2>2, <3>1 DEF RowTrue, listed
  <2>4. CASE v = u
    <3>1. call'[u][s] = r
      BY <1>3
    <3>2. /\ op \in {"load", "remove"} => pretend'[u] = pretend[u]
          /\ op \in {"on", "off"} => latest'[u] = click
      BY <1>1, <1>6
    <3>3. pretend[u] = "none" /\ (listed(u) => page[u].status = TellsOf(subs[u]))
      BY <1>6, <2>2, <2>4 DEF RowTrue
    <3>4. at \in {"read", "delete"} /\ (op \in {"on", "off"} => op # "load")
      OBVIOUS
    <3> QED
      BY <1>1, <1>2, <1>5, <2>1, <2>4, <3>1, <3>2, <3>3, <3>4 DEF RowTrue, listed
  <2> QED
    BY <2>3, <2>4
<1> QED
  BY <1>7, <1>8, <1>9, <1>10 DEF PInv

LEMMA FetchesPInv ==
    ASSUME IInv, PInv, NEW u \in Users, NEW s \in Slots, fetches(u, s) PROVE PInv'
<1> DEFINE r == Asked("load", "read", call[u][s].click, call[u][s].op)
<1>1. /\ r \in Requests /\ r.op = "load" /\ r.at = "read" /\ r.click = call[u][s].click
      /\ r.after = call[u][s].op /\ r.live = Absent /\ r.row = Absent
      /\ call' = [call EXCEPT ![u][s] = r]
  BY DEF fetches, IInv, CallsTyped, Requests, Stages, Asked, Seen, Opts, Asks
<1> HIDE DEF r
<1>2. /\ call[u][s].at = "ok" /\ call[u][s].op \in {"on", "off", "remove"}
      /\ UNCHANGED <<connectionWorld, phase, details, events, mirror, subs, page, pretend, latest>>
  BY DEF fetches, reading, serving, github, mongo, browser
<1>3. \A v \in Users, t \in Slots : call'[v][t] = IF v = u /\ t = s THEN r ELSE call[v][t]
  BY <1>1, Moved DEF IInv
<1>4. Toggling(r) = Toggling(call[u][s]) /\ (Toggling(r) => Meant(r) = Meant(call[u][s]))
  BY <1>1, <1>2 DEF Toggling, Meant, PInv, Shaped
<1>5. Shaped'
  BY <1>1, <1>2, <1>3 DEF PInv, Shaped
<1>6. Clicked'
  BY <1>1, <1>2, <1>3, <1>4 DEF PInv, Clicked
<1>7. NothingAhead'
  BY <1>1, <1>2, <1>3, StartedAhead
<1>8. CalmRows'
  <2> SUFFICES ASSUME NEW t \in Slots, Calm(t)', NEW v \in Users PROVE RowTrue(v, t)'
    BY DEF CalmRows
  <2>1. Calm(t) /\ t = s
    BY <1>2 DEF Calm, Befalls, PInv, Shaped
  <2>2. RowTrue(v, s)
    BY <2>1 DEF PInv, CalmRows
  <2>3. CASE v # u
    BY <1>2, <1>3, <2>1, <2>2, <2>3 DEF RowTrue, listed
  <2>4. CASE v = u
    <3>1. call'[u][s] = r
      BY <1>3
    <3>2. Toggling(r) => Wanted(Meant(r)) = TellsOf(subs[u])
      BY <1>2, <1>4, <2>2, <2>4 DEF RowTrue
    <3> QED
      BY <1>1, <1>2, <1>4, <2>1, <2>2, <2>4, <3>1, <3>2 DEF RowTrue, listed
  <2> QED
    BY <2>3, <2>4
<1> QED
  BY <1>5, <1>6, <1>7, <1>8 DEF PInv

\* A page that asks for one thing at a time reads what is stored, or nothing.
LEMMA StatusIs ==
    ASSUME NEW r \in Requests
    PROVE  /\ r.live = Absent => statusOf(r) = "unlisted"
           /\ r.live # Absent /\ r.live <= 0 /\ r.row <= 0 => statusOf(r) = TellsOf(r.opt)
<1> DEFINE resolved == IF r.row = Absent THEN r.live ELSE r.row
           suspended == resolved % 2 = 1
<1>1. r.live \in Seen /\ r.row \in Seen /\ r.opt \in Opts
  BY DEF Requests
<1>2. ASSUME r.live # Absent, r.live <= 0, r.row <= 0 PROVE ~suspended
  BY <1>1, <1>2 DEF Seen, Absent
<1> QED
  BY <1>2 DEF statusOf, TellsOf

\* What ends a request: its answer is drawn, or it failed.
LEMMA SettlesPInv ==
    ASSUME IInv, PInv, NEW u \in Users, NEW s \in Slots,
           loaded(u, s) \/ loadFailed(u, s) \/ writeFailed(u, s)
    PROVE  PInv'
<1> DEFINE q == call[u][s]
<1>1. /\ Idle \in Requests /\ Idle.at = "idle" /\ ~Toggling(Idle) /\ Idle.after = "none"
      /\ Idle.op = "none" /\ Idle.live = Absent /\ Idle.row = Absent
  BY DEF Requests, Stages, Idle, Asked, Seen, Opts, Asks, Toggling
<1>2. /\ call' = [call EXCEPT ![u][s] = Idle]
      /\ UNCHANGED <<connectionWorld, phase, details, events, mirror, subs, latest>>
      /\ q.at # "idle"
  BY DEF loaded, loadFailed, settles, writeFailed, At, github, mongo
<1>2a. q \in Requests /\ s \in connectionWorld.slots /\ (q.after # "none" => q.op = "load")
  BY <1>2 DEF IInv, CallsTyped, PInv, Shaped
<1>3. \A v \in Users, t \in Slots : call'[v][t] = IF v = u /\ t = s THEN Idle ELSE call[v][t]
  BY <1>1, <1>2, Moved DEF IInv
<1>4. /\ \A v \in Users : v # u => page'[v] = page[v]
      /\ \/ pretend' = pretend
         \/ /\ Toggling(q) /\ q.click = latest[u]
            /\ pretend' = [pretend EXCEPT ![u] = "none"]
  BY DEF loaded, loadFailed, writeFailed, settles, handsBack, Toggling, IInv, CallsTyped, ConnectionsTypeOK
<1>5. pretend \in [Users -> {"none", "available", "subscribed"}] /\ page \in [Users -> Row]
  BY DEF IInv, CallsTyped, ConnectionsTypeOK
<1>6. Shaped'
  BY <1>1, <1>2, <1>3 DEF PInv, Shaped
<1>7. Clicked'
  <2>1. \A v \in Users, t \in Slots :
           Toggling(call'[v][t]) => call'[v][t] = call[v][t] /\ (v # u \/ t # s)
    BY <1>1, <1>3
  <2>2. \A v \in Users : v # u => pretend'[v] = pretend[v]
    BY <1>4, <1>5
  <2>3. ASSUME NEW t \in Slots, t # s, Toggling(call[u][t]), call[u][t].click = latest[u]
        PROVE  pretend' = pretend
    BY <1>4, <2>3 DEF PInv, Clicked
  <2>4. \A v \in Users, t \in Slots :
           Toggling(call'[v][t]) /\ call'[v][t].click = latest'[v]
              => pretend'[v] = Wanted(Meant(call'[v][t]))
    BY <1>2, <2>1, <2>2, <2>3 DEF PInv, Clicked
  <2>5. \A v \in Users, t \in Slots : Toggling(call'[v][t]) => call'[v][t].click <= latest'[v]
    BY <1>2, <2>1 DEF PInv, Clicked
  <2>6. \A v \in Users, t1, t2 \in Slots :
           Toggling(call'[v][t1]) /\ Toggling(call'[v][t2]) /\ call'[v][t1].click = call'[v][t2].click
              => t1 = t2
    BY <2>1 DEF PInv, Clicked
  <2> QED
    BY <2>4, <2>5, <2>6 DEF Clicked
<1>8. NothingAhead'
  BY <1>1, <1>2, <1>3, StartedAhead
<1>9. ASSUME Calm(s), RowTrue(u, s)
      PROVE  /\ pretend'[u] = "none"
             /\ listed(u)' => page'[u].status = TellsOf(subs[u])
  <2>1. Toggling(q) => q.click = latest[u]
    BY <1>9 DEF RowTrue
  <2>2. ~Toggling(q) => pretend[u] = "none"
    BY <1>9 DEF RowTrue
  <2>3. CASE loadFailed(u, s)
    BY <1>9, <2>3 DEF loadFailed, At, RowTrue
  <2>4. CASE writeFailed(u, s)
    <3>1. /\ q.at = "no" /\ q.op # "load" /\ page' = page
          /\ pretend' = IF q.op \in {"on", "off"} /\ q.click = latest[u]
                         THEN [pretend EXCEPT ![u] = "none"] ELSE pretend
      BY <2>4 DEF writeFailed
    <3>2. Toggling(q) <=> q.op \in {"on", "off"}
      BY <1>2a, <3>1 DEF Toggling
    <3>3. listed(u) => page[u].status = TellsOf(subs[u])
      BY <1>9, <3>1 DEF RowTrue
    <3> QED
      BY <1>5, <2>1, <2>2, <3>1, <3>2, <3>3 DEF listed
  <2>5. CASE loaded(u, s)
    <3> DEFINE status == statusOf(q)
    <3>1. PICK role \in readViewerAccess(u) :
             settles(u, s, IF status = "unlisted" THEN BlankRow ELSE [status |-> status, role |-> role])
      BY <2>5 DEF loaded
    <3>2. q.op = "load" /\ q.at = "answer"
      BY <2>5 DEF loaded, At
    <3>3. q.live <= 0 /\ q.row <= 0
      BY <1>9 DEF PInv, NothingAhead, Calm
    <3>4. status = "unlisted" \/ status = TellsOf(subs[u])
      BY <1>2a, <1>9, <3>2, <3>3, StatusIs DEF RowTrue
    <3> HIDE DEF status
    <3>5. page'[u].status = status
      BY <1>5, <3>1 DEF settles, BlankRow
    <3>6. pretend' = IF handsBack(u, s, page'[u].status) THEN [pretend EXCEPT ![u] = "none"] ELSE pretend
      <4> DEFINE newRow == IF status = "unlisted" THEN BlankRow ELSE [status |-> status, role |-> role]
      <4>1. /\ page' = [page EXCEPT ![u] = newRow]
            /\ pretend' = IF handsBack(u, s, newRow.status) THEN [pretend EXCEPT ![u] = "none"] ELSE pretend
        BY <3>1 DEF settles
      <4> HIDE DEF newRow
      <4>2. page'[u] = newRow
        BY <1>5, <4>1
      <4> QED
        BY <4>1, <4>2
    <3>7. CASE Toggling(q)
      <4>1. q.after \in {"on", "off"} /\ Meant(q) = q.after
        BY <3>2, <3>7 DEF Toggling, Meant
      <4>2. Wanted(q.after) = TellsOf(subs[u])
        BY <1>9, <3>2, <3>7, <4>1 DEF RowTrue
      <4>3. handsBack(u, s, page'[u].status)
        BY <2>1, <3>4, <3>5, <3>7, <4>1, <4>2 DEF handsBack
      <4> QED
        BY <1>5, <3>4, <3>5, <3>6, <4>3 DEF listed
    <3>8. CASE ~Toggling(q)
      BY <1>5, <2>2, <3>4, <3>5, <3>6, <3>8 DEF listed
    <3> QED
      BY <3>7, <3>8
  <2> QED
    BY <2>3, <2>4, <2>5
<1>10. CalmRows'
  <2> SUFFICES ASSUME NEW t \in Slots, Calm(t)', NEW v \in Users PROVE RowTrue(v, t)'
    BY DEF CalmRows
  <2>1. Calm(t) /\ t = s
    BY <1>2, <1>2a DEF Calm, Befalls
  <2>2. RowTrue(v, s) /\ RowTrue(u, s)
    BY <2>1 DEF PInv, CalmRows
  <2>3. CASE v # u
    <3>1. call'[v][s] = call[v][s] /\ pretend'[v] = pretend[v] /\ page'[v] = page[v]
      BY <1>3, <1>4, <1>5, <2>3
    <3> QED
      BY <1>2, <2>1, <2>2, <3>1 DEF RowTrue, listed
  <2>4. CASE v = u
    <3>1. call'[u][s] = Idle
      BY <1>3
    <3> QED
      BY <1>1, <1>2, <1>9, <2>1, <2>2, <2>4, <3>1 DEF RowTrue
  <2> QED
    BY <2>3, <2>4
<1> QED
  BY <1>6, <1>7, <1>8, <1>10 DEF PInv

\* What is sent for outside the page: other opt-ins of the API, webhooks, GitHub and its users.
LEMMA OutsidePInv ==
    ASSUME IInv, PInv,
           (\E u \in Users : updatePreferences(u)) \/ webhook \/ webhookLost \/ Github
    PROVE  PInv'
<1>1. CASE \E u \in Users : updatePreferences(u)
  <2>1. /\ UNCHANGED <<phase, details, events, mirror, call, page, pretend, latest>>
        /\ connectionWorld'.slots = connectionWorld.slots /\ connectionWorld'.faults = connectionWorld.faults
        /\ \A v \in Users : TellsOf(subs'[v]) = TellsOf(subs[v])
    BY <1>1 DEF updatePreferences, github, browser, TellsOf, IInv, CallsTyped, ConnectionsTypeOK
  <2>2. NothingAhead'
    BY <2>1 DEF PInv, NothingAhead
  <2> QED
    BY <2>1, <2>2, QuietPInv
<1>2. CASE webhook \/ webhookLost
  <2>1. /\ UNCHANGED <<connectionWorld, phase, details, call, page, pretend, latest>>
        /\ events' \subseteq events
    BY <1>2 DEF webhook, webhookLost, handleDeleted, handleDeletedRest, handleUpsert, github, browser
  <2>2. mirror' \in {mirror, Absent} \cup events
    BY <1>2 DEF webhook, webhookLost, handleDeleted, handleDeletedRest, handleUpsert, writesMirror, mongo
  <2>3. phase # "gone" => subs' = subs
    BY <1>2 DEF webhook, webhookLost, handleDeleted, handleDeletedRest, handleUpsert, mongo, IInv,
                DeletionCarried
  <2>4. NothingAhead'
    <3>1. Absent <= details
      BY DEF IInv, CallsTyped, ConnectionsTypeOK, Absent
    <3>2. mirror' <= details
      BY <2>2, <3>1 DEF PInv, NothingAhead
    <3> QED
      BY <2>1, <3>2 DEF PInv, NothingAhead
  <2> QED
    BY <2>1, <2>3, <2>4, QuietPInv
<1>3. CASE Github
  <2>1. UNCHANGED <<mirror, subs, call, page, pretend, latest>>
    BY <1>3 DEF Github, mongo, browser
  <2>2. /\ connectionWorld'.slots = connectionWorld.slots /\ connectionWorld'.faults = connectionWorld.faults
        /\ phase = "gone" => phase' = "gone"
        /\ details' \in {details, details + 1}
        /\ events' \subseteq events \cup {details', Deleted}
    <3> USE DEF IInv, CallsTyped, ConnectionsTypeOK
    <3>1. CASE installed
      BY <3>1 DEF installed
    <3>2. CASE changed
      BY <3>2 DEF changed, edits
    <3>3. CASE removed
      BY <3>3 DEF removed, edits
    <3>4. CASE people
      BY <3>4 DEF people, edits
    <3> QED
      BY <1>3, <3>1, <3>2, <3>3, <3>4 DEF Github
  <2>3. details \in Nat /\ details <= details' /\ Deleted <= details'
    BY <2>2 DEF IInv, CallsTyped, ConnectionsTypeOK, Deleted
  <2>4. /\ mirror \in Int /\ \A e \in events : e \in Int
        /\ \A v \in Users, t \in Slots : call[v][t].live \in Int /\ call[v][t].row \in Int
    BY DEF IInv, CallsTyped, ConnectionsTypeOK, Seen, Absent, Deleted, Requests
  <2>5. \A e \in events' : e <= details'
    BY <2>2, <2>3, <2>4 DEF PInv, NothingAhead
  <2>6. mirror <= details' /\ \A v \in Users, t \in Slots : call[v][t].live <= details' /\ call[v][t].row <= details'
    BY <2>2, <2>3, <2>4 DEF PInv, NothingAhead
  <2>7. NothingAhead'
    BY <2>1, <2>5, <2>6 DEF NothingAhead
  <2>8. details' = 0 => details = 0
    BY <2>2, <2>3
  <2> QED
    BY <2>1, <2>2, <2>7, <2>8, QuietPInv
<1> QED
  BY <1>1, <1>2, <1>3

LEMMA NextPInv == IInv /\ PInv /\ [ConnectionsNext]_connectionsVars => PInv'
<1> SUFFICES ASSUME IInv, PInv, [ConnectionsNext]_connectionsVars PROVE PInv'
  OBVIOUS
<1>1. ASSUME NEW u \in Users, NEW s \in Slots,
             loadConnections(u, s) \/ toggle(u, s) \/ uninstall(u, s) \/ browse(u, s)
             \/ serve(u, s) \/ breaksOff(u, s)
      PROVE  PInv'
  <2>1. CASE browse(u, s)
    BY <2>1, FetchesPInv, SettlesPInv DEF browse
  <2>2. CASE serve(u, s)
    BY <2>2, GoesPInv, ListPInv, RowsPInv, WritesPInv DEF serve
  <2> QED
    BY <1>1, <2>1, <2>2, AsksPInv, GoesPInv
<1>2. CASE UNCHANGED connectionsVars
  <2>1. UNCHANGED <<connectionWorld, phase, details, events, mirror, subs, call, page, pretend, latest>>
    BY <1>2 DEF connectionsVars, github, mongo, browser
  <2>2. NothingAhead'
    BY <2>1 DEF PInv, NothingAhead
  <2> QED
    BY <2>1, <2>2, QuietPInv
<1> QED
  BY <1>1, <1>2, OutsidePInv DEF ConnectionsNext

\* The latest click of a page is what its row is pretended to be until it has been read back, and a
\* page that asks for one thing at a time is right at rest (connectionsLogic.ts).
THEOREM PageInvariance == ConnectionsSpec => []PInv
  BY InitPInv, NextPInv, Invariance, PTL DEF ConnectionsSpec

LEMMA InvariantKeepsWord == IInv /\ PInv => RowKeepsItsWord
<1> SUFFICES ASSUME IInv, PInv PROVE RowKeepsItsWord
  OBVIOUS
<1>1. ShowsTheClick
  <2> SUFFICES ASSUME NEW u \in Users, NEW s \in Slots,
                      {"on", "off"} \cap {call[u][s].op, call[u][s].after} # {},
                      call[u][s].click = latest[u], listed(u)
               PROVE  shown(u) \in {Wanted(op) : op \in {"on", "off"} \cap {call[u][s].op, call[u][s].after}}
    BY DEF ShowsTheClick
  <2>1. Toggling(call[u][s])
    BY DEF Toggling
  <2>2. Meant(call[u][s]) \in {"on", "off"} \cap {call[u][s].op, call[u][s].after}
    BY <2>1 DEF Toggling, Meant, PInv, Shaped
  <2>3. pretend[u] = Wanted(Meant(call[u][s])) /\ pretend[u] # "none"
    BY <2>1 DEF PInv, Clicked, Wanted
  <2> QED
    BY <2>2, <2>3 DEF shown
<1>2. ASSUME Cardinality(connectionWorld.slots) = 1, NEW u \in Users PROVE tellsTruth(u)
  <2>1. connectionWorld.slots \subseteq Slots /\ IsFiniteSet(connectionWorld.slots)
    BY SlotsAssumption, FS_Subset DEF IInv, CallsTyped
  <2>2. PICK s : connectionWorld.slots = {s}
    BY <1>2, <2>1, FS_Singleton
  <2>3. SUFFICES ASSUME atRest(u), listed(u), phase = "live", details = 0, ~Befalls("break")
                 PROVE  shown(u) = TellsOf(subs[u])
    BY DEF tellsTruth, TellsOf
  <2>4. s \in Slots /\ Calm(s)
    BY <2>1, <2>2, <2>3 DEF Calm
  <2>5. RowTrue(u, s) /\ ~Toggling(call[u][s])
    BY <2>3, <2>4 DEF PInv, CalmRows, Shaped, atRest
  <2> QED
    BY <2>3, <2>5 DEF RowTrue, shown
<1> QED
  BY <1>1, <1>2 DEF RowKeepsItsWord

\* The row shows the latest click until it has been written and read back, whatever else is
\* answered meanwhile; and where a page asks for one thing at a time and nothing changed the account,
\* the row at rest says what is stored, however GitHub failed (connectionsLogic.ts:52-117).
THEOREM RowKeepsItsWordHolds == ConnectionsSpec => []RowKeepsItsWord
  BY Invariance, PageInvariance, InvariantKeepsWord, PTL

----------------------------------------------------------------------------
\* What somebody chose for an account stays theirs until they turn it off or the installation goes:
\* no second subscribe resets it (subscription-write.service.ts).
THEOREM WhatWasChosenStays == ConnectionsSpec => ChoiceStays
<1> DEFINE Stays == \A u \in Users : subs[u] = "chosen" => subs'[u] \in {"chosen", "none"}
<1>1. IInv /\ [ConnectionsNext]_connectionsVars => [Stays]_subs
  <2> SUFFICES ASSUME IInv, [ConnectionsNext]_connectionsVars PROVE Stays \/ subs' = subs
    OBVIOUS
  <2>0. subs \in [Users -> Opts]
    BY DEF IInv, CallsTyped, ConnectionsTypeOK
  <2>1. ASSUME NEW u \in Users, NEW s \in Slots, serve(u, s) PROVE Stays \/ subs' = subs
    <3>1. CASE subscribe(u, s)
      BY <2>0, <3>1 DEF subscribe, createSubscription
    <3>2. CASE unsubscribe(u, s)
      BY <2>0, <3>2 DEF unsubscribe
    <3>3. CASE clear(u, s)
      BY <3>3 DEF clear, deleteByInstallation
    <3>4. CASE readUser(u, s) \/ listForUser(u, s) \/ tokenRejected(u, s) \/ readRows(u, s)
               \/ backfillMirror(u, s) \/ assertUserMayUninstall(u, s) \/ uninstallAtGithub(u, s)
               \/ unmirror(u, s)
      BY <3>4 DEF readUser, listForUser, tokenRejected, readRows, backfillMirror, assertUserMayUninstall,
                  uninstallAtGithub, unmirror, reading, mongo
    <3> QED
      BY <2>1, <3>1, <3>2, <3>3, <3>4 DEF serve
  <2>2. ASSUME NEW u \in Users, NEW s \in Slots,
               loadConnections(u, s) \/ toggle(u, s) \/ uninstall(u, s) \/ browse(u, s) \/ breaksOff(u, s)
        PROVE  subs' = subs
    BY <2>2 DEF loadConnections, toggle, uninstall, browse, fetches, loaded, loadFailed, writeFailed, settles,
                breaksOff, reading, mongo
  <2>3. ASSUME NEW u \in Users, updatePreferences(u) PROVE Stays \/ subs' = subs
    BY <2>0, <2>3 DEF updatePreferences
  <2>4. ASSUME webhook \/ webhookLost \/ Github PROVE Stays \/ subs' = subs
    BY <2>4 DEF webhook, webhookLost, Github, handleDeleted, handleDeletedRest, handleUpsert, deleteByInstallation,
                mongo
  <2>5. CASE UNCHANGED connectionsVars
    BY <2>5 DEF connectionsVars, mongo
  <2> QED
    BY <2>1, <2>2, <2>3, <2>4, <2>5 DEF ConnectionsNext
<1> QED
  BY <1>1, Invariance, PTL DEF ConnectionsSpec, ChoiceStays

----------------------------------------------------------------------------
(* The settings of pokes and who pokes: the invariant.  Without a mishap a save under way that is     *)
(* the newest carries all that was pressed, and the row, once nothing is on its way, is it; of the       *)
(* senders nobody is twice in the row, and where nothing is stale or lost what they are counted          *)
(* for is what was told of them.                                                                         *)

SettingsType ==
    [mutedTypes : SUBSET Types, reviewRequestResolution : REVIEW_REQUEST_RESOLUTIONS, botMode : BOT_MODES,
     allowedBots : SUBSET Logins, blockedBots : SUBSET Logins, digestEnabled : BOOLEAN, digestHour : Hours]
\* A set of settings, or none yet.
Held == {None} \cup {<<s>> : s \in SettingsType}
SaveType == [id : Nat, body : SettingsType, at : {"sent", "answered", "refused"}, answer : Held]

PanelTyped ==
    /\ world \in Worlds
    /\ Storable(row.settings)
    /\ profile \in Held
    /\ panel \in [open : BOOLEAN, edited : Held, agreed : Held, notice : BOOLEAN, newest : Nat]
    /\ calls \subseteq SaveType
    /\ past \in [meant : SettingsType, pressed : Nat, others : Nat,
                 mishaps : SUBSET {"leaves", "lost", "order", "others", "restart"}]

\* Without a mishap: what is on the panel is what was pressed; of the saves under way each has a number
\* of its own, those not yet taken come last, and the newest carries what was pressed; once all are
\* taken, so does the row.
Sent(c) == c.at = "sent"
AsMeant ==
    past.mishaps = {} =>
        /\ panel.open => profile # None /\ settings = past.meant /\ panel.newest = past.pressed
        /\ ~panel.open => profile = None /\ calls = {} /\ past.pressed = 0
        /\ \A c \in calls : /\ c.id <= past.pressed
                            /\ c.id = past.pressed => c.body = past.meant
                            /\ c.at = "sent" \/ (c.at = "answered" /\ c.answer = <<c.body>>)
        /\ \A c, d \in calls : c.id = d.id => c = d
        /\ \A c, d \in calls : Sent(c) /\ ~Sent(d) => d.id < c.id
        /\ (\E c \in calls : Sent(c)) => \E c \in calls : Sent(c) /\ c.id = past.pressed
        /\ (\A c \in calls : ~Sent(c)) => normalizePokeSettings(row.settings) = past.meant

PanelInv == PanelTyped /\ AsMeant

SenderType == [login : Logins, bot : BOOLEAN, count : Nat, held : Nat, lastAt : Nat]
ToldType == [login : Logins, outcome : {"held", "reached"}, day : Nat, what : Nat,
             piece : {p.piece : p \in Pokes}]
OfferType == [login : Logins, bot : BOOLEAN, reached : Nat, held : Nat]

StoreTyped ==
    /\ senders \subseteq SenderType /\ IsFiniteSet(senders)
    /\ day \in Nat
    /\ told \subseteq ToldType /\ IsFiniteSet(told)
    /\ offered \subseteq OfferType

\* Nobody is in the row twice; nobody had more held back than came, and what is counted of them, or
\* offered of the count, did come.
OnceEach == \A x, y \in senders : x.login = y.login => x = y
Came(pokes, login, outcome) == \E t \in pokes : t.login = login /\ t.outcome = outcome
HeldOfCount == \A x \in senders : x.held <= x.count /\ x.lastAt <= day
EarnedTheirs ==
    /\ \A x \in senders : /\ x.held < x.count => Came(told, x.login, "reached")
                          /\ 0 < x.held => Came(told, x.login, "held")
    /\ \A x \in offered : /\ 0 < x.reached => Came(told, x.login, "reached")
                          /\ 0 < x.held => Came(told, x.login, "held")

\* While nothing is forgotten by mishap, the cache knows the day's pieces, and what was told without one
\* is numbered as it came.
Undisturbed == world.mishaps \cap {"restart", "database"} = {}
PiecesKnown ==
    Undisturbed =>
        pieces = {<<t.outcome, t.piece>> : t \in {u \in told : u.day = day /\ u.piece # NoPiece}}
Numbered ==
    \A t \in told : t.day <= day /\ (t.piece = NoPiece => t.what < Cardinality(told))
                    /\ (t.piece # NoPiece => t.what = 0)
\* Where, besides, nothing is stale, crowded out or another's, the row counts what was told.
Of(pokes, l, outcome) == {t \in pokes : t.login = l /\ t.outcome = outcome}
CountedRight ==
    /\ Undisturbed
    /\ day <= POKE_SENDERS_WINDOW
    /\ Cardinality(LoginsOf(told)) <= POKE_SENDERS_MAX
    /\ \A t, u \in told : t.piece # NoPiece /\ SamePiece(t, u) => t.login = u.login
    => /\ LoginsOf(senders) = LoginsOf(told)
       /\ \A x \in senders : /\ x.count = x.held + Cardinality(Of(told, x.login, "reached"))
                             /\ x.held = Cardinality(Of(told, x.login, "held"))

----------------------------------------------------------------------------
(* Sets of settings. *)

LEMMA HeldIs == \A s \in SettingsType : <<s>> # None /\ <<s>>[1] = s
<1> QED
  BY DEF None

LEMMA ListIs ==
    /\ \A l \in SUBSET Logins : normalizeAccountList(l) = l
    /\ \A l \in SUBSET Spellings : normalizeAccountList(l) \in SUBSET Logins
<1> QED
  BY SpellingsAssumption DEF normalizeAccountList

LEMMA DefaultIs == DEFAULT_POKE_SETTINGS \in SettingsType
<1> QED
  BY HoursAssumption DEF DEFAULT_POKE_SETTINGS, SettingsType, REVIEW_REQUEST_RESOLUTIONS, BOT_MODES

LEMMA FieldsAre ==
    Fields = {"mutedTypes", "reviewRequestResolution", "botMode", "allowedBots", "blockedBots",
              "digestEnabled", "digestHour"}
<1> QED
  BY DEF Fields, DEFAULT_POKE_SETTINGS

\* What is set of a field, said or left unsaid.
SaidOf(s, f) == IF f \in DOMAIN s THEN s[f] ELSE DEFAULT_POKE_SETTINGS[f]

LEMMA NormalIs ==
    ASSUME NEW s
    PROVE  LET n == normalizePokeSettings(s)
           IN  /\ n = [mutedTypes |-> n.mutedTypes, reviewRequestResolution |-> n.reviewRequestResolution,
                       botMode |-> n.botMode, allowedBots |-> n.allowedBots, blockedBots |-> n.blockedBots,
                       digestEnabled |-> n.digestEnabled, digestHour |-> n.digestHour]
               /\ n.mutedTypes = SaidOf(s, "mutedTypes") \cap Types
               /\ n.reviewRequestResolution =
                      IF SaidOf(s, "reviewRequestResolution") \in REVIEW_REQUEST_RESOLUTIONS
                      THEN SaidOf(s, "reviewRequestResolution") ELSE "any_review"
               /\ n.botMode = readBotMode(SaidOf(s, "botMode"))
               /\ n.allowedBots = normalizeAccountList(SaidOf(s, "allowedBots"))
               /\ n.blockedBots = normalizeAccountList(SaidOf(s, "blockedBots"))
               /\ n.digestEnabled = SaidOf(s, "digestEnabled")
               /\ n.digestHour = IF SaidOf(s, "digestHour") \in Hours THEN SaidOf(s, "digestHour") ELSE 9
<1> DEFINE o == Over(s, DEFAULT_POKE_SETTINGS)
<1>1. \A f \in Fields : o[f] = SaidOf(s, f)
  BY DEF Over, Fields, SaidOf
<1>2. DEFAULT_POKE_SETTINGS.reviewRequestResolution = "any_review" /\ DEFAULT_POKE_SETTINGS.digestHour = 9
  BY DEF DEFAULT_POKE_SETTINGS
<1> HIDE DEF o
<1> QED
  BY <1>1, <1>2, FieldsAre DEF normalizePokeSettings, o

LEMMA NormalHas ==
    ASSUME NEW s, Storable(s)
    PROVE  normalizePokeSettings(s) \in SettingsType
<1> DEFINE n == normalizePokeSettings(s)
<1>1. /\ SaidOf(s, "allowedBots") \in SUBSET Spellings /\ SaidOf(s, "blockedBots") \in SUBSET Spellings
      /\ SaidOf(s, "digestEnabled") \in BOOLEAN
  BY DEF Storable, SaidOf, DEFAULT_POKE_SETTINGS
<1>2. n.mutedTypes \in SUBSET Types /\ n.reviewRequestResolution \in REVIEW_REQUEST_RESOLUTIONS
      /\ n.botMode \in BOT_MODES /\ n.digestHour \in Hours /\ n.digestEnabled \in BOOLEAN
  BY NormalIs, <1>1, HoursAssumption DEF readBotMode, BOT_MODES, REVIEW_REQUEST_RESOLUTIONS, DEFAULT_POKE_SETTINGS
<1>3. n.allowedBots \in SUBSET Logins /\ n.blockedBots \in SUBSET Logins
  BY NormalIs, <1>1, ListIs
<1>4. n = [mutedTypes |-> n.mutedTypes, reviewRequestResolution |-> n.reviewRequestResolution,
           botMode |-> n.botMode, allowedBots |-> n.allowedBots, blockedBots |-> n.blockedBots,
           digestEnabled |-> n.digestEnabled, digestHour |-> n.digestHour]
  BY NormalIs
<1> HIDE DEF n
<1>5. n \in SettingsType
  BY <1>2, <1>3, <1>4 DEF SettingsType
<1> QED
  BY <1>5 DEF n

\* A whole set of settings, as a function of the fields.
LEMMA WholeIs ==
    ASSUME NEW s \in SettingsType
    PROVE  /\ DOMAIN s = Fields /\ s = [f \in Fields |-> s[f]]
           /\ s.mutedTypes \in SUBSET Types /\ s.reviewRequestResolution \in REVIEW_REQUEST_RESOLUTIONS
           /\ s.botMode \in BOT_MODES /\ s.allowedBots \in SUBSET Logins /\ s.blockedBots \in SUBSET Logins
           /\ s.digestEnabled \in BOOLEAN /\ s.digestHour \in Hours
           /\ Storable(s)
<1>1. /\ DOMAIN s = Fields /\ s = [f \in Fields |-> s[f]]
      /\ s.mutedTypes \in SUBSET Types /\ s.reviewRequestResolution \in REVIEW_REQUEST_RESOLUTIONS
      /\ s.botMode \in BOT_MODES /\ s.allowedBots \in SUBSET Logins /\ s.blockedBots \in SUBSET Logins
      /\ s.digestEnabled \in BOOLEAN /\ s.digestHour \in Hours
  BY FieldsAre DEF SettingsType
<1> QED
  BY <1>1, SpellingsAssumption DEF Storable

\* Normalising changes nothing of what is whole and right.
LEMMA NormalStays ==
    ASSUME NEW s \in SettingsType
    PROVE  normalizePokeSettings(s) = s
<1> DEFINE n == normalizePokeSettings(s)
<1>1. \A f \in Fields : SaidOf(s, f) = s[f]
  BY WholeIs DEF SaidOf
<1>2. s.botMode # "custom"
  BY WholeIs DEF BOT_MODES
<1> DEFINE same(f) == SaidOf(s, f) = s[f]
<1>6. /\ same("mutedTypes") /\ same("reviewRequestResolution") /\ same("botMode") /\ same("allowedBots")
      /\ same("blockedBots") /\ same("digestEnabled") /\ same("digestHour")
  BY <1>1, FieldsAre
<1>3. /\ n.mutedTypes = s.mutedTypes /\ n.reviewRequestResolution = s.reviewRequestResolution
      /\ n.botMode = s.botMode /\ n.digestHour = s.digestHour /\ n.digestEnabled = s.digestEnabled
      /\ n.allowedBots = s.allowedBots /\ n.blockedBots = s.blockedBots
  <2>1. n.mutedTypes = s.mutedTypes
    <3>1. n.mutedTypes = s.mutedTypes \cap Types
      BY NormalIs, <1>6
    <3>2. s.mutedTypes \in SUBSET Types
      BY WholeIs
    <3> QED BY <3>1, <3>2
  <2>2. n.reviewRequestResolution = s.reviewRequestResolution
    BY NormalIs, <1>6, WholeIs
  <2>3. n.botMode = s.botMode
    BY NormalIs, <1>6, <1>2, WholeIs DEF readBotMode
  <2>4. n.digestHour = s.digestHour /\ n.digestEnabled = s.digestEnabled
    BY NormalIs, <1>6, WholeIs
  <2>5. n.allowedBots = s.allowedBots /\ n.blockedBots = s.blockedBots
    BY NormalIs, <1>6, WholeIs, ListIs
  <2> QED BY <2>1, <2>2, <2>3, <2>4, <2>5
<1>4. n \in SettingsType
  BY NormalHas, WholeIs
<1> HIDE DEF n
<1>5. n = s
  BY <1>3, <1>4 DEF SettingsType
<1> QED
  BY <1>5 DEF n

----------------------------------------------------------------------------
(* Saves. *)

\* What the validation lets through of what it is sent, as it is stored.
Savable(u) ==
    /\ Storable(u)
    /\ "mutedTypes" \in DOMAIN u => u.mutedTypes \in SUBSET Types
    /\ "reviewRequestResolution" \in DOMAIN u => u.reviewRequestResolution \in REVIEW_REQUEST_RESOLUTIONS
    /\ "botMode" \in DOMAIN u => u.botMode \in BOT_MODES
    /\ \A f \in {"allowedBots", "blockedBots"} \cap DOMAIN u : u[f] \in SUBSET Logins
    /\ "digestHour" \in DOMAIN u => u.digestHour \in Hours

LEMMA UpdateIs ==
    ASSUME NEW b, Storable(b), UpdatePokeSettingsBody(b)
    PROVE  /\ Savable(updateSettings(b))
           /\ DOMAIN updateSettings(b) = DOMAIN b \cup {"reviewRequestResolution"}
<1> DEFINE u == updateSettings(b)
<1>1. /\ u = [f \in DOMAIN u |-> u[f]]
      /\ DOMAIN u = DOMAIN b \cup {"reviewRequestResolution"}
      /\ \A f \in DOMAIN b : u[f] = IF f \in {"allowedBots", "blockedBots"} THEN normalizeAccountList(b[f]) ELSE b[f]
      /\ "reviewRequestResolution" \notin DOMAIN b => u.reviewRequestResolution = "any_review"
  BY DEF updateSettings, Over, DEFAULT_POKE_SETTINGS
<1>2. DOMAIN u \subseteq Fields
  BY <1>1, FieldsAre DEF Storable
<1> HIDE DEF u
<1>3. \A f \in {"allowedBots", "blockedBots"} \cap DOMAIN u : u[f] \in SUBSET Logins
  BY <1>1, ListIs DEF Storable
<1>4. /\ "mutedTypes" \in DOMAIN u => u.mutedTypes \in SUBSET Types
      /\ "reviewRequestResolution" \in DOMAIN u => u.reviewRequestResolution \in REVIEW_REQUEST_RESOLUTIONS
      /\ "botMode" \in DOMAIN u => u.botMode \in BOT_MODES
      /\ "digestHour" \in DOMAIN u => u.digestHour \in Hours
      /\ "digestEnabled" \in DOMAIN u => u.digestEnabled \in BOOLEAN
  BY <1>1 DEF Storable, UpdatePokeSettingsBody, REVIEW_REQUEST_RESOLUTIONS
<1>5. Storable(u)
  BY <1>1, <1>2, <1>3, <1>4, SpellingsAssumption DEF Storable
<1>6. Savable(u)
  BY <1>3, <1>4, <1>5 DEF Savable
<1> QED
  BY <1>1, <1>6 DEF u

\* The panel's saves are whole and are stored as they are.
LEMMA WholeSave ==
    ASSUME NEW s \in SettingsType
    PROVE  UpdatePokeSettingsBody(s) /\ updateSettings(s) = s /\ Savable(s)
<1>1. /\ Storable(s) /\ DOMAIN s = Fields /\ s = [f \in Fields |-> s[f]]
      /\ s.allowedBots \in SUBSET Logins /\ s.blockedBots \in SUBSET Logins
  BY WholeIs
<1>2. UpdatePokeSettingsBody(s)
  BY WholeIs, FieldsAre, SpellingsAssumption DEF UpdatePokeSettingsBody
<1>3. \A f \in Fields : updateSettings(s)[f] = s[f]
  BY <1>1, ListIs, FieldsAre DEF updateSettings, Over
<1>4. DOMAIN updateSettings(s) = Fields /\ updateSettings(s) = [f \in Fields |-> updateSettings(s)[f]]
  BY <1>1, FieldsAre DEF updateSettings, Over
<1> QED
  BY <1>1, <1>2, <1>3, <1>4, UpdateIs

LEMMA StoredStays ==
    ASSUME NEW u, Savable(u), NEW r, Storable(r)
    PROVE  Storable(Over(u, r))
<1>1. \A f \in DOMAIN Over(u, r) : Over(u, r)[f] = IF f \in DOMAIN u THEN u[f] ELSE r[f]
  BY DEF Over
<1>2. DOMAIN Over(u, r) = DOMAIN u \cup DOMAIN r /\ Over(u, r) = [f \in DOMAIN Over(u, r) |-> Over(u, r)[f]]
  BY DEF Over
<1> QED
  BY <1>1, <1>2 DEF Storable, Savable

\* Normalising what was stored and then saving over it, or the other way round, is the same.
LEMMA SaveIsNormal ==
    ASSUME NEW u, Savable(u), NEW r, Storable(r)
    PROVE  Over(u, normalizePokeSettings(r)) = normalizePokeSettings(Over(u, r))
<1> DEFINE n == normalizePokeSettings(r)
           o == Over(u, r)
           m == normalizePokeSettings(o)
<1>1. n \in SettingsType /\ m \in SettingsType
  BY NormalHas, StoredStays
<1>2. \A f : SaidOf(o, f) = IF f \in DOMAIN u THEN u[f] ELSE SaidOf(r, f)
  BY DEF SaidOf, Over
<1>3. DOMAIN u \subseteq Fields
  BY DEF Savable, Storable
<1>4. /\ Over(u, n) = [f \in Fields |-> IF f \in DOMAIN u THEN u[f] ELSE n[f]]
  BY <1>1, <1>3, WholeIs DEF Over
<1>5. m = [f \in Fields |-> m[f]]
  BY <1>1, WholeIs
<1> HIDE DEF n, m, o
<1> DEFINE right(f) == m[f] = IF f \in DOMAIN u THEN u[f] ELSE n[f]
<1>6. right("mutedTypes")
  <2>1. m.mutedTypes = SaidOf(o, "mutedTypes") \cap Types /\ n.mutedTypes = SaidOf(r, "mutedTypes") \cap Types
    BY NormalIs DEF n, m
  <2>2. SaidOf(o, "mutedTypes") = IF "mutedTypes" \in DOMAIN u THEN u.mutedTypes ELSE SaidOf(r, "mutedTypes")
    BY <1>2
  <2>3. "mutedTypes" \in DOMAIN u => u.mutedTypes \cap Types = u.mutedTypes
    BY DEF Savable
  <2> QED BY <2>1, <2>2, <2>3
<1>7. right("reviewRequestResolution")
  BY <1>2, NormalIs DEF Savable, n, m
<1>8. right("botMode")
  BY <1>2, NormalIs DEF Savable, n, m, readBotMode, BOT_MODES
<1>9. right("allowedBots")
  BY <1>2, NormalIs, ListIs DEF Savable, n, m
<1>10. right("blockedBots")
  BY <1>2, NormalIs, ListIs DEF Savable, n, m
<1>11. right("digestEnabled")
  BY <1>2, NormalIs DEF Savable, n, m
<1>12. right("digestHour")
  BY <1>2, NormalIs DEF Savable, n, m
<1>13. \A f \in Fields : right(f)
  BY <1>6, <1>7, <1>8, <1>9, <1>10, <1>11, <1>12, FieldsAre
<1>14. Over(u, n) = m
  BY <1>4, <1>5, <1>13
<1> QED
  BY <1>14 DEF n, m, o

\* A whole save is what is then stored.
LEMMA WholeIsStored ==
    ASSUME NEW s \in SettingsType, NEW r, Storable(r)
    PROVE  normalizePokeSettings(Over(s, r)) = s
<1>1. Over(s, normalizePokeSettings(r)) = s
  BY WholeIs, NormalHas DEF Over
<1> QED
  BY <1>1, SaveIsNormal, WholeSave

----------------------------------------------------------------------------
(* The panel. *)

Right(field, v) ==
    /\ field \in Fields
    /\ field = "mutedTypes" => v \in SUBSET Types
    /\ field = "reviewRequestResolution" => v \in REVIEW_REQUEST_RESOLUTIONS
    /\ field = "botMode" => v \in BOT_MODES
    /\ field \in {"allowedBots", "blockedBots"} => v \in SUBSET Logins
    /\ field = "digestEnabled" => v \in BOOLEAN
    /\ field = "digestHour" => v \in Hours

LEMMA FieldSet ==
    ASSUME NEW s \in SettingsType, NEW field, NEW v, Right(field, v)
    PROVE  [s EXCEPT ![field] = v] \in SettingsType
<1>1. CASE field = "mutedTypes"
  BY <1>1 DEF SettingsType, Right
<1>2. CASE field = "reviewRequestResolution"
  BY <1>2 DEF SettingsType, Right
<1>3. CASE field = "botMode"
  BY <1>3 DEF SettingsType, Right
<1>4. CASE field = "allowedBots"
  BY <1>4 DEF SettingsType, Right
<1>5. CASE field = "blockedBots"
  BY <1>5 DEF SettingsType, Right
<1>6. CASE field = "digestEnabled"
  BY <1>6 DEF SettingsType, Right
<1>7. CASE field = "digestHour"
  BY <1>7 DEF SettingsType, Right
<1> QED
  BY <1>1, <1>2, <1>3, <1>4, <1>5, <1>6, <1>7, FieldsAre DEF Right

LEMMA ShownIs == PanelTyped => settings \in SettingsType
<1> SUFFICES ASSUME PanelTyped PROVE settings \in SettingsType
  OBVIOUS
<1>1. panel.edited \in Held /\ panel.agreed \in Held /\ profile \in Held
  BY DEF PanelTyped
<1>2. \A h \in Held : h # None => h[1] \in SettingsType
  BY HeldIs DEF Held
<1> QED
  BY <1>1, <1>2, DefaultIs DEF settings, values, saved

LEMMA InitPanel == SettingsInit => PanelInv
<1> SUFFICES ASSUME SettingsInit PROVE PanelInv
  OBVIOUS
<1>1. row.settings \in world.stored /\ Storable(row.settings)
  BY PanelWorldsAssumption DEF SettingsInit
<1>2. normalizePokeSettings(row.settings) \in SettingsType
  BY <1>1, NormalHas
<1>3. PanelTyped
  BY <1>1, <1>2 DEF SettingsInit, PanelTyped, Held
<1>4. AsMeant
  BY DEF SettingsInit, AsMeant
<1> QED
  BY <1>3, <1>4 DEF PanelInv

LEMMA OpenPanel == PanelInv /\ Open => PanelInv'
<1> SUFFICES ASSUME PanelInv, Open PROVE PanelInv'
  OBVIOUS
<1>1. PanelTyped /\ AsMeant
  BY DEF PanelInv
<1>2. normalizePokeSettings(row.settings) \in SettingsType
  BY <1>1, NormalHas DEF PanelTyped
<1>3. /\ profile' = IF profile = None THEN <<normalizePokeSettings(row.settings)>> ELSE profile
      /\ panel' = [open |-> TRUE, edited |-> None, agreed |-> None, notice |-> FALSE, newest |-> 0]
      /\ past' = IF profile = None
                 THEN [past EXCEPT !.meant = normalizePokeSettings(row.settings)]
                 ELSE past
      /\ UNCHANGED <<world, row, calls>> /\ ~panel.open
  BY DEF Open
<1>4. profile' \in Held /\ past' \in [meant : SettingsType, pressed : Nat, others : Nat,
                 mishaps : SUBSET {"leaves", "lost", "order", "others", "restart"}]
  BY <1>1, <1>2, <1>3 DEF PanelTyped, Held
<1>5. PanelTyped'
  BY <1>1, <1>3, <1>4 DEF PanelTyped, Held
<1>6. ASSUME past'.mishaps = {}
      PROVE  /\ past.mishaps = {} /\ profile = None /\ calls = {} /\ past.pressed = 0
             /\ past'.meant = normalizePokeSettings(row.settings)
             /\ past'.pressed = 0
             /\ settings' = past'.meant
             /\ profile' # None
  <2>1. past.mishaps = {} /\ profile = None /\ calls = {} /\ past.pressed = 0
    BY <1>1, <1>3, <1>6 DEF PanelTyped, AsMeant
  <2>2. past'.meant = normalizePokeSettings(row.settings) /\ past'.pressed = 0
    BY <1>1, <1>3, <2>1 DEF PanelTyped
  <2>3. profile' = <<normalizePokeSettings(row.settings)>> /\ panel'.edited = None /\ panel'.agreed = None
    BY <1>3, <2>1
  <2>4. settings' = past'.meant /\ profile' # None
    BY <1>2, <2>2, <2>3, HeldIs DEF settings, values, saved
  <2> QED BY <2>1, <2>2, <2>4
<1>7. AsMeant'
  BY <1>3, <1>6 DEF AsMeant
<1> QED
  BY <1>5, <1>7 DEF PanelInv

\* A mishap is remembered: nothing is owed then.
LEMMA MishapPanel ==
    ASSUME PanelTyped', past'.mishaps # {}
    PROVE  PanelInv'
<1> QED
  BY DEF PanelInv, AsMeant

LEMMA LeavePanel == ASSUME NEW signsOut, PanelInv, Leave(signsOut) PROVE PanelInv'
<1>1. PanelTyped
  BY DEF PanelInv
<1>2. PanelTyped'
  BY <1>1 DEF PanelTyped, Leave, Happens, Held
<1>3. "leaves" \in past'.mishaps
  BY <1>1 DEF PanelTyped, Leave, Happens
<1> QED
  BY <1>2, <1>3, MishapPanel

LEMMA PressPanel ==
    ASSUME PanelInv, NEW field, NEW v, Right(field, v), Press(field, v)
    PROVE  PanelInv'
<1> DEFINE toSet == [settings EXCEPT ![field] = v]
           id == past.pressed + 1
           sent == [id |-> id, body |-> toSet, at |-> "sent", answer |-> None]
<1>1. PanelTyped /\ AsMeant
  BY DEF PanelInv
<1>2. toSet \in SettingsType /\ [past.meant EXCEPT ![field] = v] \in SettingsType
  BY <1>1, ShownIs, FieldSet DEF PanelTyped
<1>3. /\ panel.open
      /\ panel' = [panel EXCEPT !.edited = <<toSet>>, !.notice = FALSE, !.newest = id]
      /\ calls' = calls \cup {sent}
      /\ past' = [past EXCEPT !.pressed = id, !.meant = [past.meant EXCEPT ![field] = v]]
      /\ UNCHANGED <<world, row, profile>>
  BY <1>1 DEF Press, Submits, PanelTyped
<1>4. id \in Nat /\ id > past.pressed
  BY <1>1 DEF PanelTyped
<1>5. sent \in SaveType /\ sent.id = id /\ sent.body = toSet /\ sent.at = "sent"
  BY <1>2, <1>4 DEF SaveType, Held
<1> HIDE DEF toSet, id, sent
<1>6. /\ panel' \in [open : BOOLEAN, edited : Held, agreed : Held, notice : BOOLEAN, newest : Nat]
      /\ panel'.edited = <<toSet>> /\ panel'.newest = id /\ panel'.open
  BY <1>1, <1>2, <1>3, <1>4 DEF PanelTyped, Held
<1>7. /\ past' \in [meant : SettingsType, pressed : Nat, others : Nat,
                 mishaps : SUBSET {"leaves", "lost", "order", "others", "restart"}]
      /\ past'.meant = [past.meant EXCEPT ![field] = v] /\ past'.pressed = id /\ past'.mishaps = past.mishaps
  BY <1>1, <1>2, <1>3, <1>4 DEF PanelTyped
<1>8. PanelTyped'
  BY <1>1, <1>3, <1>5, <1>6, <1>7 DEF PanelTyped
<1>9. ASSUME past'.mishaps = {} PROVE AsMeant'
  <2>1. /\ past.mishaps = {} /\ profile # None /\ settings = past.meant
        /\ \A c \in calls : c.id <= past.pressed
        /\ \A c \in calls : c.at = "sent" \/ (c.at = "answered" /\ c.answer = <<c.body>>)
        /\ \A c, d \in calls : c.id = d.id => c = d
        /\ \A c, d \in calls : Sent(c) /\ ~Sent(d) => d.id < c.id
    BY <1>1, <1>3, <1>7, <1>9 DEF AsMeant
  <2>2. toSet = past'.meant
    BY <1>7, <2>1 DEF toSet
  <2>3. settings' = toSet
    BY <1>2, <1>6, HeldIs DEF settings, values
  <2>4. \A c \in calls : c.id \in Nat /\ c.id < id
    BY <1>1, <1>4, <2>1 DEF PanelTyped, SaveType
  <2>5. sent \in calls' /\ Sent(sent) /\ sent.id = past'.pressed
    BY <1>3, <1>5, <1>7 DEF Sent
  <2>6. \A c \in calls' : /\ c.id <= past'.pressed
                          /\ c.id = past'.pressed => c.body = past'.meant
                          /\ c.at = "sent" \/ (c.at = "answered" /\ c.answer = <<c.body>>)
    BY <1>3, <1>4, <1>5, <1>7, <2>1, <2>2, <2>4
  <2>7. \A c, d \in calls' : c.id = d.id => c = d
    BY <1>3, <1>5, <2>1, <2>4, <1>4
  <2>8. \A c, d \in calls' : Sent(c) /\ ~Sent(d) => d.id < c.id
    BY <1>3, <1>5, <2>1, <2>4, <1>4 DEF Sent
  <2>9. profile' # None /\ panel'.newest = past'.pressed
    BY <1>3, <1>6, <1>7, <2>1
  <2> QED
    BY <1>6, <2>2, <2>3, <2>5, <2>6, <2>7, <2>8, <2>9 DEF AsMeant, Sent
<1>10. AsMeant'
  BY <1>9 DEF AsMeant
<1> QED
  BY <1>8, <1>10 DEF PanelInv

LEMMA ListedIs ==
    ASSUME PanelTyped
    PROVE  Listed(settings) \in {"allowedBots", "blockedBots"} /\ settings[Listed(settings)] \in SUBSET Logins
<1>1. settings \in SettingsType
  BY ShownIs
<1> QED
  BY <1>1, WholeIs DEF Listed

LEMMA PressesArePresses ==
    ASSUME PanelTyped,
           \/ \E t \in Types : toggleType(t)
           \/ \E r \in REVIEW_REQUEST_RESOLUTIONS : setReviewRequestResolution(r)
           \/ \E m \in BOT_MODES : setBotMode(m)
           \/ \E v \in Spellings : addLogin(v)
           \/ \E l \in Logins : removeLogin(l)
           \/ setDigestEnabled \/ \E h \in Hours : setDigestHour(h)
    PROVE  \E field, v : Right(field, v) /\ Press(field, v)
<1> DEFINE list == Listed(settings)
<1>1. /\ list \in {"allowedBots", "blockedBots"} /\ settings[list] \in SUBSET Logins
      /\ settings.mutedTypes \in SUBSET Types /\ settings.digestEnabled \in BOOLEAN
  BY ListedIs, ShownIs, WholeIs
<1> HIDE DEF list
<1>2. ASSUME NEW t \in Types, toggleType(t) PROVE \E field, v : Right(field, v) /\ Press(field, v)
  <2>1. PICK v : v \in SUBSET Types /\ Press("mutedTypes", v)
    BY <1>1, <1>2 DEF toggleType
  <2>2. Right("mutedTypes", v)
    BY <2>1, FieldsAre DEF Right
  <2> QED BY <2>1, <2>2
<1>3. ASSUME NEW r \in REVIEW_REQUEST_RESOLUTIONS, setReviewRequestResolution(r)
      PROVE \E field, v : Right(field, v) /\ Press(field, v)
  <2>1. Right("reviewRequestResolution", r) /\ Press("reviewRequestResolution", r)
    BY <1>3, FieldsAre DEF Right, setReviewRequestResolution
  <2> QED BY <2>1
<1>4. ASSUME NEW m \in BOT_MODES, setBotMode(m) PROVE \E field, v : Right(field, v) /\ Press(field, v)
  <2>1. Right("botMode", m) /\ Press("botMode", m)
    BY <1>4, FieldsAre DEF Right, setBotMode
  <2> QED BY <2>1
<1>5. ASSUME NEW v \in SUBSET Logins PROVE Right(list, v)
  BY <1>1, <1>5, FieldsAre DEF Right
<1>6. ASSUME NEW w \in Spellings, addLogin(w) PROVE \E field, v : Right(field, v) /\ Press(field, v)
  <2>1. LoginOf[w] \in Logins /\ Press(list, settings[list] \cup {LoginOf[w]})
    BY <1>6, SpellingsAssumption DEF addLogin, list
  <2> QED BY <1>1, <1>5, <2>1
<1>7. ASSUME NEW l \in Logins, removeLogin(l) PROVE \E field, v : Right(field, v) /\ Press(field, v)
  <2>1. Press(list, settings[list] \ {l})
    BY <1>7 DEF removeLogin, list
  <2> QED BY <1>1, <1>5, <2>1
<1>8. ASSUME setDigestEnabled PROVE \E field, v : Right(field, v) /\ Press(field, v)
  <2>1. Right("digestEnabled", ~settings.digestEnabled)
    BY <1>1, FieldsAre DEF Right
  <2>2. Press("digestEnabled", ~settings.digestEnabled)
    BY <1>8 DEF setDigestEnabled
  <2> QED BY <2>1, <2>2
<1>9. ASSUME NEW h \in Hours, setDigestHour(h) PROVE \E field, v : Right(field, v) /\ Press(field, v)
  <2>1. Right("digestHour", h) /\ Press("digestHour", h)
    BY <1>9, FieldsAre DEF Right, setDigestHour
  <2> QED BY <2>1
<1> QED
  BY <1>2, <1>3, <1>4, <1>6, <1>7, <1>8, <1>9

LEMMA DismissPanel == ASSUME PanelInv, dismissNotice PROVE PanelInv'
<1>1. PanelTyped /\ AsMeant
  BY DEF PanelInv
<1>2. /\ panel' \in [open : BOOLEAN, edited : Held, agreed : Held, notice : BOOLEAN, newest : Nat]
      /\ panel'.open = panel.open /\ panel'.edited = panel.edited /\ panel'.agreed = panel.agreed
      /\ panel'.newest = panel.newest
      /\ UNCHANGED <<world, row, profile, calls, past>>
  BY <1>1 DEF PanelTyped, dismissNotice
<1>3. PanelTyped'
  BY <1>1, <1>2 DEF PanelTyped
<1>4. settings' = settings
  BY <1>2 DEF settings, values, saved
<1>5. AsMeant'
  BY <1>1, <1>2, <1>4 DEF AsMeant
<1> QED
  BY <1>3, <1>5 DEF PanelInv

LEMMA HandledPanel ==
    ASSUME PanelInv, NEW c \in calls, NEW received \in BOOLEAN, Handled(c, received)
    PROVE  PanelInv'
<1> DEFINE stored == Over(c.body, row.settings)
           d == [c EXCEPT !.at = IF received THEN "answered" ELSE "refused",
                          !.answer = IF received THEN <<Answer(updateSettings(c.body))>> ELSE None]
<1>1. PanelTyped /\ AsMeant /\ c \in SaveType
  BY DEF PanelInv, PanelTyped
<1>2. c.body \in SettingsType /\ Storable(row.settings)
  BY <1>1 DEF PanelTyped, SaveType
<1>3. /\ updateSettings(c.body) = c.body /\ Answer(c.body) = c.body
      /\ Storable(stored) /\ normalizePokeSettings(stored) = c.body
  <2>1. Answer(c.body) = c.body
    BY <1>2, WholeIs, NormalHas DEF Answer, Over
  <2> QED BY <1>2, <2>1, WholeSave, StoredStays, WholeIsStored
<1>4. row'.settings = stored
  BY <1>3 DEF Handled, updatePokeSettings
<1>5. d \in SaveType /\ d.id = c.id /\ d.body = c.body /\ d.at = (IF received THEN "answered" ELSE "refused")
      /\ (received => d.answer = <<c.body>>)
  BY <1>1, <1>2, <1>3 DEF SaveType, Held
<1> HIDE DEF d, stored
<1>6. /\ calls' = (calls \ {c}) \cup {d} /\ c.at = "sent"
      /\ past' = [past EXCEPT !.mishaps = past.mishaps \cup (IF received THEN {} ELSE {"lost"})
                                        \cup (IF c \in Foremost THEN {} ELSE {"order"})]
      /\ UNCHANGED <<world, profile, panel>>
  BY <1>1 DEF Handled, d, PanelTyped
<1>7. /\ past' \in [meant : SettingsType, pressed : Nat, others : Nat,
                 mishaps : SUBSET {"leaves", "lost", "order", "others", "restart"}]
      /\ past'.meant = past.meant /\ past'.pressed = past.pressed
      /\ past'.mishaps = {} => past.mishaps = {} /\ received /\ c \in Foremost
  BY <1>1, <1>6 DEF PanelTyped
<1>8. PanelTyped'
  BY <1>1, <1>3, <1>4, <1>5, <1>6, <1>7 DEF PanelTyped
<1>9. ASSUME past'.mishaps = {} PROVE AsMeant'
  <2>1. /\ past.mishaps = {} /\ received /\ c \in Foremost
    BY <1>7, <1>9
  <2>2. /\ panel.open => profile # None /\ settings = past.meant /\ panel.newest = past.pressed
        /\ panel.open
        /\ \A b \in calls : /\ b.id <= past.pressed
                            /\ b.id = past.pressed => b.body = past.meant
                            /\ b.at = "sent" \/ (b.at = "answered" /\ b.answer = <<b.body>>)
        /\ \A a, b \in calls : a.id = b.id => a = b
        /\ \A a, b \in calls : Sent(a) /\ ~Sent(b) => b.id < a.id
        /\ (\E b \in calls : Sent(b)) => \E b \in calls : Sent(b) /\ b.id = past.pressed
    BY <1>1, <2>1 DEF AsMeant
  <2>3. settings' = settings
    BY <1>6 DEF settings, values, saved
  <2>4. /\ d.id = c.id /\ d.body = c.body /\ d.at = "answered" /\ d.answer = <<c.body>> /\ ~Sent(d)
    BY <1>5, <2>1 DEF Sent
  <2>5. \A b \in calls : b.id \in Nat
    BY <1>1 DEF PanelTyped, SaveType
  <2>6. \A b \in calls : Sent(b) => c.id <= b.id
    BY <2>1 DEF Foremost, Sent
  <2>7. \A b \in calls' : /\ b.id <= past'.pressed
                          /\ b.id = past'.pressed => b.body = past'.meant
                          /\ b.at = "sent" \/ (b.at = "answered" /\ b.answer = <<b.body>>)
    BY <1>6, <1>7, <2>2, <2>4
  <2>8. \A a, b \in calls' : a.id = b.id => a = b
    BY <1>6, <2>2, <2>4
  <2>9. \A a, b \in calls' : Sent(a) /\ ~Sent(b) => b.id < a.id
    <3> SUFFICES ASSUME NEW a \in calls', NEW b \in calls', Sent(a), ~Sent(b) PROVE b.id < a.id
      OBVIOUS
    <3>1. a \in calls /\ a # c
      BY <1>6, <2>4
    <3>2. CASE b = d
      BY <2>2, <2>4, <2>5, <2>6, <3>1, <3>2
    <3>3. CASE b # d
      BY <1>6, <2>2, <3>1, <3>3
    <3> QED BY <3>2, <3>3
  <2>10. PICK e \in calls : Sent(e) /\ e.id = past.pressed
    BY <1>6, <2>2 DEF Sent
  <2>11. CASE e # c
    <3>1. e \in calls' /\ Sent(e) /\ e.id = past'.pressed
      BY <1>6, <1>7, <2>10, <2>11
    <3> QED
      BY <1>6, <1>7, <2>2, <2>3, <2>7, <2>8, <2>9, <3>1 DEF AsMeant
  <2>12. CASE e = c
    <3>1. \A b \in calls : Sent(b) => b = c
      BY <2>2, <2>5, <2>6, <2>10, <2>12
    <3>2. \A b \in calls' : ~Sent(b)
      BY <1>6, <2>4, <3>1
    <3>3. normalizePokeSettings(row'.settings) = past'.meant
      BY <1>3, <1>4, <1>7, <2>2, <2>10, <2>12
    <3> QED
      BY <1>6, <1>7, <2>2, <2>3, <2>7, <2>8, <2>9, <3>2, <3>3 DEF AsMeant
  <2> QED BY <2>11, <2>12
<1>10. AsMeant'
  BY <1>9 DEF AsMeant
<1> QED
  BY <1>8, <1>10 DEF PanelInv

LEMMA LostPanel == ASSUME PanelInv, NEW c \in calls, Lost(c) PROVE PanelInv'
<1>1. PanelTyped /\ c \in SaveType
  BY DEF PanelInv, PanelTyped
<1>2. [c EXCEPT !.at = "refused"] \in SaveType
  BY <1>1 DEF SaveType
<1>3. PanelTyped'
  BY <1>1, <1>2 DEF PanelTyped, Lost, Happens
<1>4. "lost" \in past'.mishaps
  BY <1>1 DEF PanelTyped, Lost, Happens
<1> QED
  BY <1>3, <1>4, MishapPanel

LEMMA SuccessPanel == ASSUME PanelInv, NEW c \in calls, saveSettingsSuccess(c) PROVE PanelInv'
<1>1. PanelTyped /\ AsMeant /\ c \in SaveType
  BY DEF PanelInv, PanelTyped
<1>2. /\ calls' = calls \ {c} /\ c.at = "answered" /\ UNCHANGED <<world, row, profile, past>>
      /\ \/ panel' = panel /\ ~(panel.open /\ panel.newest = c.id)
         \/ panel.open /\ panel.newest = c.id /\ panel' = [panel EXCEPT !.agreed = c.answer, !.edited = None]
  BY DEF saveSettingsSuccess
<1>3. panel' \in [open : BOOLEAN, edited : Held, agreed : Held, notice : BOOLEAN, newest : Nat]
      /\ panel'.open = panel.open /\ panel'.newest = panel.newest
  BY <1>1, <1>2 DEF PanelTyped, SaveType, Held
<1>4. PanelTyped'
  BY <1>1, <1>2, <1>3 DEF PanelTyped
<1>5. ASSUME past'.mishaps = {} PROVE AsMeant'
  <2>1. /\ panel.open => profile # None /\ settings = past.meant /\ panel.newest = past.pressed
        /\ panel.open
        /\ \A b \in calls : /\ b.id <= past.pressed
                            /\ b.id = past.pressed => b.body = past.meant
                            /\ b.at = "sent" \/ (b.at = "answered" /\ b.answer = <<b.body>>)
        /\ \A a, b \in calls : a.id = b.id => a = b
        /\ \A a, b \in calls : Sent(a) /\ ~Sent(b) => b.id < a.id
        /\ (\E b \in calls : Sent(b)) => \E b \in calls : Sent(b) /\ b.id = past.pressed
        /\ (\A b \in calls : ~Sent(b)) => normalizePokeSettings(row.settings) = past.meant
    BY <1>1, <1>2, <1>5 DEF AsMeant
  <2>2. settings' = settings
    <3>1. CASE panel' = panel
      BY <1>2, <3>1 DEF settings, values, saved
    <3>2. CASE panel' # panel
      <4>1. c.answer = <<past.meant>> /\ past.meant \in SettingsType
        BY <1>1, <1>2, <2>1, <3>2 DEF PanelTyped
      <4>2. panel'.edited = None /\ panel'.agreed = <<past.meant>>
        BY <1>1, <1>2, <3>2, <4>1 DEF PanelTyped
      <4> QED
        BY <2>1, <4>1, <4>2, HeldIs DEF settings, values, saved
    <3> QED BY <3>1, <3>2
  <2>3. ~Sent(c)
    BY <1>2 DEF Sent
  <2>4. (\E b \in calls' : Sent(b)) => \E b \in calls' : Sent(b) /\ b.id = past'.pressed
    BY <1>2, <2>1, <2>3
  <2>5. (\A b \in calls' : ~Sent(b)) => normalizePokeSettings(row'.settings) = past'.meant
    BY <1>2, <2>1, <2>3
  <2> QED
    BY <1>2, <1>3, <2>1, <2>2, <2>4, <2>5 DEF AsMeant
<1>6. AsMeant'
  BY <1>5 DEF AsMeant
<1> QED
  BY <1>4, <1>6 DEF PanelInv

LEMMA FailurePanel == ASSUME PanelInv, NEW c \in calls, saveSettingsFailure(c) PROVE PanelInv'
<1>1. PanelTyped /\ AsMeant /\ c \in SaveType
  BY DEF PanelInv, PanelTyped
<1>2. PanelTyped'
  BY <1>1 DEF PanelTyped, saveSettingsFailure, Held
<1>3. past'.mishaps # {}
  BY <1>1 DEF AsMeant, saveSettingsFailure
<1> QED
  BY <1>2, <1>3, MishapPanel

LEMMA OlderPanel ==
    ASSUME PanelInv, NEW body \in world.bodies, NEW timezone \in BOOLEAN, OlderTab(body, timezone)
    PROVE  PanelInv'
<1>1. PanelTyped
  BY DEF PanelInv
<1>2. Storable(body)
  BY <1>1, PanelWorldsAssumption DEF PanelTyped
<1>3. Storable(Over(updateSettings(body), row.settings))
  BY <1>1, <1>2, UpdateIs, StoredStays DEF OlderTab, PanelTyped
<1>4. row'.settings = Over(updateSettings(body), row.settings)
  BY DEF OlderTab, updatePokeSettings
<1>5. /\ past' \in [meant : SettingsType, pressed : Nat, others : Nat,
                 mishaps : SUBSET {"leaves", "lost", "order", "others", "restart"}]
      /\ "others" \in past'.mishaps
  <2>1. past' = [past EXCEPT !.others = past.others + 1, !.mishaps = past.mishaps \cup {"others"}]
    BY DEF OlderTab
  <2>2. past.others + 1 \in Nat
    BY <1>1 DEF PanelTyped
  <2> QED BY <1>1, <2>1, <2>2 DEF PanelTyped
<1>6. PanelTyped'
  BY <1>1, <1>3, <1>4, <1>5 DEF PanelTyped, OlderTab
<1> QED
  BY <1>5, <1>6, MishapPanel

LEMMA PanelKeeps == ASSUME PanelInv, PanelNext PROVE PanelInv'
<1>1. PanelTyped
  BY DEF PanelInv
<1>2. CASE \/ \E t \in Types : toggleType(t)
           \/ \E r \in REVIEW_REQUEST_RESOLUTIONS : setReviewRequestResolution(r)
           \/ \E m \in BOT_MODES : setBotMode(m)
           \/ \E v \in Spellings : addLogin(v)
           \/ \E l \in Logins : removeLogin(l)
           \/ setDigestEnabled \/ \E h \in Hours : setDigestHour(h)
  BY <1>1, <1>2, PressesArePresses, PressPanel
<1>3. CASE \E c \in calls : \/ \E received \in BOOLEAN : Handled(c, received)
                            \/ Lost(c) \/ saveSettingsSuccess(c) \/ saveSettingsFailure(c)
  BY <1>3, HandledPanel, LostPanel, SuccessPanel, FailurePanel
<1> QED
  BY <1>2, <1>3, OpenPanel, LeavePanel, DismissPanel, OlderPanel DEF PanelNext

\* What the senders' half does leaves the panel as it was, or is a mishap.
LEMMA PanelStays == ASSUME PanelInv, UNCHANGED settingsVars PROVE PanelInv'
<1>1. UNCHANGED <<world, row, profile, panel, calls, past>>
  BY DEF settingsVars
<1>2. settings' = settings
  BY <1>1 DEF settings, values, saved
<1> QED
  BY <1>1, <1>2 DEF PanelInv, PanelTyped, AsMeant

LEMMA ForgottenPanel == ASSUME PanelInv, PiecesForgotten PROVE PanelInv'
<1>1. PanelTyped
  BY DEF PanelInv
<1>2. PanelTyped' /\ "restart" \in past'.mishaps
  BY <1>1 DEF PanelTyped, PiecesForgotten, Happens
<1> QED
  BY <1>2, MishapPanel

----------------------------------------------------------------------------
(* The row of senders. *)

LEMMA Copies ==
    ASSUME NEW S \in SUBSET SenderType, IsFiniteSet(S), \A x, y \in S : x.login = y.login => x = y
    PROVE  IsFiniteSet(LoginsOf(S)) /\ Cardinality(LoginsOf(S)) = Cardinality(S)
<1> DEFINE f == [x \in S |-> x.login]
<1>1. f \in Injection(S, LoginsOf(S)) /\ f \in Surjection(S, LoginsOf(S))
  BY DEF LoginsOf, Injection, IsInjective, Surjection
<1> QED
  BY <1>1, FS_Surjection

LEMMA LoginsFinite ==
    ASSUME NEW S, IsFiniteSet(S)
    PROVE  IsFiniteSet(LoginsOf(S))
<1> DEFINE f == [x \in S |-> x.login]
<1>1. f \in Surjection(S, LoginsOf(S))
  BY DEF LoginsOf, Surjection
<1> QED
  BY <1>1, FS_Surjection

LEMMA RecentIs ==
    ASSUME StoreTyped
    PROVE  /\ Recent(senders) \in SUBSET senders /\ Recent(senders) \in SUBSET SenderType
           /\ IsFiniteSet(Recent(senders)) /\ Cardinality(Recent(senders)) <= Cardinality(senders)
           /\ Cardinality(Recent(senders)) \in Nat /\ Cardinality(senders) \in Nat
<1>1. Recent(senders) \in SUBSET senders
  BY DEF Recent
<1> QED
  BY <1>1, FS_Subset, FS_CardinalityType DEF StoreTyped

\* The one entry an account's poke writes.
Written(account, count, held) ==
    [login |-> account.login, bot |-> account.bot, count |-> count, held |-> held, lastAt |-> day]

\* What a counted poke makes of the row: it bumps the account's own, or makes room and adds it.
LEMMA PipelineIs ==
    ASSUME NEW account, NEW held, NEW after \in countingPipeline(account, held),
           StoreTyped, OnceEach
    PROVE  \/ /\ \A x \in Recent(senders) : x.login # account.login
              /\ \E kept \in Kept(Recent(senders)) : after = kept \cup {Written(account, 1, held)}
           \/ \E x \in Recent(senders) :
                  /\ x.login = account.login
                  /\ after = (Recent(senders) \ {x}) \cup {Written(account, x.count + 1, x.held + held)}
<1> DEFINE live == Recent(senders)
           own == {x \in live : x.login = account.login}
           New(count, of) == [login |-> account.login, bot |-> looksLikeBot(account), count |-> count,
                              held |-> of, lastAt |-> day]
<1>1. \A count, of : New(count, of) = Written(account, count, of)
  BY DEF Written, looksLikeBot
<1>2. after \in IF own = {} THEN {kept \cup {New(1, held)} : kept \in Kept(live)}
                ELSE {(live \ own) \cup {New(x.count + 1, x.held + held) : x \in own}}
  BY DEF countingPipeline
<1> HIDE DEF New
<1>3. CASE own = {}
  <2>1. \A x \in live : x.login # account.login
    BY <1>3
  <2>2. PICK kept \in Kept(live) : after = kept \cup {New(1, held)}
    BY <1>2, <1>3
  <2> QED BY <1>1, <2>1, <2>2
<1>4. CASE own # {}
  <2>1. PICK x \in live : x.login = account.login
    BY <1>4
  <2>2. own = {x}
    BY <2>1, RecentIs DEF OnceEach
  <2>3. after = (live \ own) \cup {New(y.count + 1, y.held + held) : y \in own}
    BY <1>2, <1>4
  <2>4. {New(y.count + 1, y.held + held) : y \in own} = {New(x.count + 1, x.held + held)}
    BY <2>2
  <2> QED BY <1>1, <2>1, <2>2, <2>3, <2>4
<1> QED
  BY <1>3, <1>4

LEMMA KeptIs ==
    ASSUME NEW live, IsFiniteSet(live), NEW kept \in Kept(live)
    PROVE  /\ kept \in SUBSET live /\ IsFiniteSet(kept)
           /\ Cardinality(kept) < POKE_SENDERS_MAX /\ Cardinality(kept) \in Nat
           /\ Cardinality(live) < POKE_SENDERS_MAX => kept = live
           /\ \A k \in kept, d \in live \ kept : ~Outranks(d, k)
<1>1. /\ kept \in SUBSET live
      /\ Cardinality(kept) = (IF Cardinality(live) < POKE_SENDERS_MAX THEN Cardinality(live)
                                ELSE POKE_SENDERS_MAX - 1)
      /\ \A k \in kept, d \in live \ kept : ~Outranks(d, k)
  BY DEF Kept
<1>2. IsFiniteSet(kept) /\ Cardinality(kept) \in Nat /\ Cardinality(live) \in Nat
      /\ (Cardinality(kept) = Cardinality(live) => kept = live)
  BY <1>1, FS_Subset, FS_CardinalityType
<1> QED
  BY <1>1, <1>2, StoreAssumption

LEMMA KeptWhole ==
    ASSUME NEW live, IsFiniteSet(live), Cardinality(live) < POKE_SENDERS_MAX
    PROVE  \A kept \in Kept(live) : kept = live
<1> QED
  BY KeptIs

LEMMA CameStays ==
    ASSUME told \subseteq told', NEW login, NEW outcome, Came(told, login, outcome)
    PROVE  Came(told', login, outcome)
<1> QED
  BY DEF Came

\* The invariant of the row and what is offered of it, which no mishap disturbs.
RowInv == StoreTyped /\ OnceEach /\ Cardinality(senders) <= POKE_SENDERS_MAX /\ HeldOfCount /\ EarnedTheirs

LEMMA AddOne ==
    ASSUME NEW S, NEW x, IsFiniteSet(S)
    PROVE  /\ IsFiniteSet(S \cup {x}) /\ Cardinality(S) \in Nat
           /\ Cardinality(S \cup {x}) \in Nat /\ Cardinality(S \cup {x}) <= Cardinality(S) + 1
<1>1. Cardinality(S) \in Nat
  BY FS_CardinalityType
<1>2. IsFiniteSet(S \cup {x}) /\ Cardinality(S \cup {x}) = IF x \in S THEN Cardinality(S) ELSE Cardinality(S) + 1
  BY FS_AddElement
<1> QED
  BY <1>1, <1>2

LEMMA CountedRow ==
    ASSUME RowInv, NEW p \in Pokes, NEW outcome \in {"held", "reached"},
           senders' \in countingPipeline(p.account, IF outcome = "held" THEN 1 ELSE 0),
           told \subseteq told', Came(told', p.account.login, outcome), UNCHANGED <<day, offered>>
    PROVE  /\ senders' \subseteq SenderType /\ IsFiniteSet(senders')
           /\ OnceEach' /\ Cardinality(senders') <= POKE_SENDERS_MAX /\ HeldOfCount'
           /\ \A x \in senders' : /\ x.held < x.count => Came(told', x.login, "reached")
                                  /\ 0 < x.held => Came(told', x.login, "held")
<1> DEFINE held == IF outcome = "held" THEN 1 ELSE 0
           live == Recent(senders)
           login == p.account.login
<1>1. /\ StoreTyped /\ OnceEach /\ HeldOfCount /\ EarnedTheirs
      /\ Cardinality(senders) <= POKE_SENDERS_MAX /\ POKE_SENDERS_MAX \in Nat /\ day \in Nat
  BY StoreAssumption DEF RowInv, StoreTyped
<1>2. /\ login \in Logins /\ p.account.bot \in BOOLEAN
  BY StoreAssumption
<1>3. /\ live \in SUBSET senders /\ live \in SUBSET SenderType /\ IsFiniteSet(live)
      /\ Cardinality(live) <= Cardinality(senders) /\ Cardinality(live) \in Nat /\ Cardinality(senders) \in Nat
  BY <1>1, RecentIs
<1>4. \A x \in live : /\ x.held <= x.count /\ x.lastAt <= day
                      /\ x.held < x.count => Came(told', x.login, "reached")
                      /\ 0 < x.held => Came(told', x.login, "held")
                      /\ x.login \in Logins /\ x.bot \in BOOLEAN /\ x.count \in Nat /\ x.held \in Nat
  BY <1>1, <1>3, CameStays DEF HeldOfCount, EarnedTheirs, SenderType
<1>5. \A count, of : /\ Written(p.account, count, of).login = login /\ Written(p.account, count, of).count = count
                     /\ Written(p.account, count, of).held = of /\ Written(p.account, count, of).lastAt = day
                     /\ count \in Nat /\ of \in Nat => Written(p.account, count, of) \in SenderType
  BY <1>1, <1>2 DEF Written, SenderType
<1>6. held \in Nat /\ ((held = 1 /\ outcome = "held") \/ (held = 0 /\ outcome = "reached"))
  <2>1. CASE outcome = "held" BY <2>1
  <2>2. CASE outcome = "reached" BY <2>2
  <2> QED BY <2>1, <2>2
<1> HIDE DEF held, live, login
<1>7. senders' \in countingPipeline(p.account, held)
  BY DEF held
<1>8. CASE /\ \A x \in live : x.login # login
           /\ \E kept \in Kept(live) : senders' = kept \cup {Written(p.account, 1, held)}
  <2>1. PICK kept \in Kept(live) : senders' = kept \cup {Written(p.account, 1, held)}
    BY <1>8
  <2>2. kept \in SUBSET live /\ IsFiniteSet(kept) /\ Cardinality(kept) < POKE_SENDERS_MAX /\ Cardinality(kept) \in Nat
    BY <1>3, KeptIs
  <2>12. PICK w : w = Written(p.account, 1, held)
    OBVIOUS
  <2>3. w \in SenderType /\ w.login = login /\ w.count = 1 /\ w.held = held /\ w.lastAt = day
    BY <1>5, <1>6, <2>12
  <2>4. senders' = kept \cup {w}
    BY <2>1, <2>12
  <2>5. senders' \subseteq SenderType
    BY <1>3, <2>2, <2>3, <2>4
  <2>6. IsFiniteSet(senders') /\ Cardinality(senders') \in Nat /\ Cardinality(senders') <= Cardinality(kept) + 1
    <3>1. IsFiniteSet(kept \cup {w}) /\ Cardinality(kept \cup {w}) \in Nat /\ Cardinality(kept \cup {w}) <= Cardinality(kept) + 1
      BY <2>2, AddOne
    <3> QED BY <2>4, <3>1
  <2>7. OnceEach'
    BY <1>1, <1>3, <1>8, <2>2, <2>3, <2>4 DEF OnceEach
  <2>8. HeldOfCount'
    BY <1>4, <1>6, <2>2, <2>3, <2>4, <1>1 DEF HeldOfCount
  <2>9. /\ held < 1 => Came(told', login, "reached")
        /\ 0 < held => Came(told', login, "held")
    BY <1>6 DEF login
  <2>10. \A x \in senders' : /\ x.held < x.count => Came(told', x.login, "reached")
                             /\ 0 < x.held => Came(told', x.login, "held")
    <3>1. \A x \in kept : /\ x.held < x.count => Came(told', x.login, "reached")
                          /\ 0 < x.held => Came(told', x.login, "held")
      BY <1>4, <2>2
    <3>2. /\ w.held < w.count => Came(told', w.login, "reached")
          /\ 0 < w.held => Came(told', w.login, "held")
      BY <2>3, <2>9
    <3> QED BY <2>4, <3>1, <3>2
  <2> QED
    BY <1>1, <2>2, <2>5, <2>6, <2>7, <2>8, <2>10
<1>9. CASE \E x \in live : /\ x.login = login
                           /\ senders' = (live \ {x}) \cup {Written(p.account, x.count + 1, x.held + held)}
  <2>1. PICK x \in live : /\ x.login = login
                          /\ senders' = (live \ {x}) \cup {Written(p.account, x.count + 1, x.held + held)}
    BY <1>9
  <2>12. PICK w : w = Written(p.account, x.count + 1, x.held + held)
    OBVIOUS
  <2>13. PICK rest : rest = live \ {x}
    OBVIOUS
  <2>2. w \in SenderType /\ w.login = login /\ w.count = x.count + 1 /\ w.held = x.held + held /\ w.lastAt = day
    BY <1>4, <1>5, <1>6, <2>12
  <2>3. rest \in SUBSET live /\ x \notin rest /\ IsFiniteSet(rest) /\ Cardinality(rest) = Cardinality(live) - 1
    BY <1>3, <2>13, FS_RemoveElement
  <2>4. senders' = rest \cup {w}
    BY <2>1, <2>12, <2>13
  <2>5. \A y \in rest : y.login # login
    BY <1>1, <1>3, <2>1, <2>3 DEF OnceEach
  <2>6. senders' \subseteq SenderType
    BY <1>3, <2>2, <2>3, <2>4
  <2>7. IsFiniteSet(senders') /\ Cardinality(senders') \in Nat /\ Cardinality(senders') <= Cardinality(rest) + 1 /\ Cardinality(rest) \in Nat
    <3>1. Cardinality(rest) \in Nat
      BY <2>3, FS_CardinalityType
    <3>2. IsFiniteSet(rest \cup {w}) /\ Cardinality(rest \cup {w}) \in Nat /\ Cardinality(rest \cup {w}) <= Cardinality(rest) + 1
      BY <2>3, AddOne
    <3> QED BY <2>4, <3>1, <3>2
  <2>8. OnceEach'
    BY <1>1, <1>3, <2>2, <2>3, <2>4, <2>5 DEF OnceEach
  <2>9. HeldOfCount'
    BY <1>1, <1>4, <1>6, <2>2, <2>3, <2>4 DEF HeldOfCount
  <2>10. /\ x.held + held < x.count + 1 => Came(told', login, "reached")
         /\ 0 < x.held + held => Came(told', login, "held")
    <3>1. CASE outcome = "held"
      BY <1>4, <1>6, <2>1, <3>1 DEF login
    <3>2. CASE outcome = "reached"
      BY <1>4, <1>6, <2>1, <3>2 DEF login
    <3> QED BY <3>1, <3>2
  <2>11. \A y \in senders' : /\ y.held < y.count => Came(told', y.login, "reached")
                             /\ 0 < y.held => Came(told', y.login, "held")
    <3>1. \A y \in rest : /\ y.held < y.count => Came(told', y.login, "reached")
                          /\ 0 < y.held => Came(told', y.login, "held")
      BY <1>4, <2>3
    <3>2. /\ w.held < w.count => Came(told', w.login, "reached")
          /\ 0 < w.held => Came(told', w.login, "held")
      BY <2>2, <2>10
    <3> QED BY <2>4, <3>1, <3>2
  <2> QED
    BY <1>1, <1>3, <2>3, <2>6, <2>7, <2>8, <2>9, <2>11
<1> QED
  BY <1>1, <1>7, <1>8, <1>9, PipelineIs DEF live, login

\* The poke as the person would count it.
Counting(p, outcome) ==
    [login |-> p.account.login, outcome |-> outcome, day |-> day,
     what |-> IF p.piece = NoPiece THEN Cardinality(told) ELSE 0, piece |-> p.piece]

LEMMA TallyIs ==
    ASSUME StoreTyped, NEW p \in Pokes, NEW outcome \in {"held", "reached"}, Tally(p, outcome)
    PROVE  /\ told' = told \cup {Counting(p, outcome)}
           /\ Counting(p, outcome) \in ToldType
           /\ told' \subseteq ToldType /\ IsFiniteSet(told') /\ told \subseteq told'
           /\ Cardinality(told) \in Nat
           /\ Cardinality(told') = IF Counting(p, outcome) \in told THEN Cardinality(told) ELSE Cardinality(told) + 1
           /\ Came(told', p.account.login, outcome)
<1>1. told' = told \cup {Counting(p, outcome)}
  BY DEF Tally, Counting
<1>2. Cardinality(told) \in Nat
  BY FS_CardinalityType DEF StoreTyped
<1>3. Counting(p, outcome) \in ToldType
  <2>1. p.account.login \in Logins /\ day \in Nat
    BY StoreAssumption DEF StoreTyped
  <2> QED BY <1>2, <2>1 DEF Counting, ToldType
<1>4. Counting(p, outcome).login = p.account.login /\ Counting(p, outcome).outcome = outcome
  BY DEF Counting
<1> QED
  BY <1>1, <1>2, <1>3, <1>4, FS_AddElement DEF StoreTyped, Came

LEMMA OutcomeIs == ASSUME NEW p, Outcome(p) # "muted" PROVE Outcome(p) \in {"held", "reached"}
<1> QED
  BY DEF Outcome

LEMMA PokeRow == ASSUME RowInv, NEW p \in Pokes, Poke(p) PROVE RowInv'
<1> DEFINE outcome == Outcome(p)
<1>1. /\ outcome \in {"held", "reached"} /\ record(p, outcome) /\ Tally(p, outcome)
      /\ UNCHANGED <<day, offered>>
  BY OutcomeIs DEF Poke
<1> HIDE DEF outcome
<1>2. /\ StoreTyped /\ OnceEach /\ HeldOfCount /\ EarnedTheirs /\ Cardinality(senders) <= POKE_SENDERS_MAX
  BY DEF RowInv
<1>3. /\ told' \subseteq ToldType /\ IsFiniteSet(told') /\ told \subseteq told' /\ Came(told', p.account.login, outcome)
  BY <1>1, <1>2, TallyIs
<1>4. \A x \in offered' : /\ 0 < x.reached => Came(told', x.login, "reached")
                          /\ 0 < x.held => Came(told', x.login, "held")
  BY <1>1, <1>2, <1>3, CameStays DEF EarnedTheirs
<1>5. CASE UNCHANGED senders
  <2>1. \A x \in senders' : /\ x.held < x.count => Came(told', x.login, "reached")
                            /\ 0 < x.held => Came(told', x.login, "held")
    BY <1>2, <1>3, <1>5, CameStays DEF EarnedTheirs
  <2> QED
    BY <1>1, <1>2, <1>3, <1>4, <1>5, <2>1 DEF RowInv, StoreTyped, OnceEach, HeldOfCount, EarnedTheirs
<1>6. CASE senders' \in countingPipeline(p.account, IF outcome = "held" THEN 1 ELSE 0)
  <2>1. /\ senders' \subseteq SenderType /\ IsFiniteSet(senders')
        /\ OnceEach' /\ Cardinality(senders') <= POKE_SENDERS_MAX /\ HeldOfCount'
        /\ \A x \in senders' : /\ x.held < x.count => Came(told', x.login, "reached")
                               /\ 0 < x.held => Came(told', x.login, "held")
    BY <1>1, <1>3, <1>6, CountedRow
  <2>2. StoreTyped'
    BY <1>1, <1>2, <1>3, <2>1 DEF StoreTyped
  <2>3. EarnedTheirs'
    BY <1>4, <2>1 DEF EarnedTheirs
  <2> QED
    BY <2>1, <2>2, <2>3 DEF RowInv
<1> QED
  BY <1>1, <1>5, <1>6 DEF record

\* Whatever leaves the row and its pokes as they were, or empties it.
LEMMA RowStays ==
    ASSUME RowInv, senders' \in {senders, {}}, told' = told, day' \in {day, day + 1}, offered' \subseteq offered
    PROVE  RowInv'
<1>1. IsFiniteSet({}) /\ Cardinality({}) = 0 /\ POKE_SENDERS_MAX \in Nat
  BY FS_EmptySet, StoreAssumption
<1>4. StoreTyped /\ OnceEach /\ EarnedTheirs /\ Cardinality(senders) <= POKE_SENDERS_MAX
  BY DEF RowInv
<1>5. IsFiniteSet(senders') /\ Cardinality(senders') <= POKE_SENDERS_MAX
  BY <1>1, <1>4 DEF StoreTyped
<1>6. StoreTyped'
  BY <1>4, <1>5 DEF StoreTyped
<1>7. OnceEach' /\ EarnedTheirs'
  BY <1>4 DEF OnceEach, EarnedTheirs
<1>2. StoreTyped' /\ OnceEach' /\ EarnedTheirs' /\ Cardinality(senders') <= POKE_SENDERS_MAX
  BY <1>5, <1>6, <1>7
<1>3. HeldOfCount'
  BY <1>1 DEF RowInv, StoreTyped, HeldOfCount, SenderType
<1> QED
  BY <1>2, <1>3 DEF RowInv

LEMMA LoadRow == ASSUME RowInv, NEW fails \in BOOLEAN, loadSenders(fails) PROVE RowInv'
<1>1. /\ senders' = senders /\ told' = told /\ day' = day /\ offered' \in {{}, read}
      /\ StoreTyped /\ HeldOfCount /\ EarnedTheirs
  BY DEF loadSenders, RowInv
<1>2. ASSUME NEW o \in read
      PROVE  /\ o \in OfferType
             /\ 0 < o.reached => Came(told, o.login, "reached")
             /\ 0 < o.held => Came(told, o.login, "held")
  <2>1. PICK x \in Recent(senders) :
             o = [login |-> x.login, bot |-> x.bot, reached |-> x.count - x.held, held |-> x.held]
    BY <1>2 DEF read
  <2>2. x \in senders /\ x \in SenderType
    BY <1>1, RecentIs
  <2>3. x.held \in Nat /\ x.count \in Nat /\ x.held <= x.count /\ x.login \in Logins /\ x.bot \in BOOLEAN
    BY <1>1, <2>2 DEF HeldOfCount, SenderType
  <2>4. x.count - x.held \in Nat /\ (0 < x.count - x.held => x.held < x.count)
    BY <2>3
  <2>5. /\ x.held < x.count => Came(told, x.login, "reached")
        /\ 0 < x.held => Came(told, x.login, "held")
    BY <1>1, <2>2 DEF EarnedTheirs
  <2> QED
    BY <2>1, <2>3, <2>4, <2>5 DEF OfferType
<1>3. offered' \subseteq OfferType
  BY <1>1, <1>2
<1>4. \A o \in offered' : /\ 0 < o.reached => Came(told', o.login, "reached")
                          /\ 0 < o.held => Came(told', o.login, "held")
  BY <1>1, <1>2
<1> QED
  BY <1>1, <1>3, <1>4 DEF RowInv, StoreTyped, OnceEach, HeldOfCount, EarnedTheirs

----------------------------------------------------------------------------
(* What is counted, where nothing is forgotten or lost. *)

CountInv == PiecesKnown /\ Numbered /\ CountedRight

LEMMA OfIs ==
    ASSUME StoreTyped, NEW x, x \notin told, told' = told \cup {x}
    PROVE  \A l, outcome :
              /\ Cardinality(Of(told, l, outcome)) \in Nat
              /\ Cardinality(Of(told', l, outcome)) =
                    IF x.login = l /\ x.outcome = outcome THEN Cardinality(Of(told, l, outcome)) + 1
                    ELSE Cardinality(Of(told, l, outcome))
<1> TAKE l, outcome
<1>1. Of(told, l, outcome) \in SUBSET told
  BY DEF Of
<1>2. IsFiniteSet(Of(told, l, outcome)) /\ Cardinality(Of(told, l, outcome)) \in Nat
  BY <1>1, FS_Subset, FS_CardinalityType DEF StoreTyped
<1>3. CASE x.login = l /\ x.outcome = outcome
  <2>1. PICK of : of = Of(told, l, outcome)
    OBVIOUS
  <2>2. Of(told', l, outcome) = of \cup {x} /\ x \notin of
    BY <1>3, <2>1 DEF Of
  <2>3. Cardinality(of \cup {x}) = Cardinality(of) + 1
    BY <1>2, <2>1, <2>2, FS_AddElement
  <2> QED BY <1>2, <1>3, <2>1, <2>2, <2>3
<1>4. CASE ~(x.login = l /\ x.outcome = outcome)
  <2>1. Of(told', l, outcome) = Of(told, l, outcome)
    BY <1>4 DEF Of
  <2> QED BY <1>2, <1>4, <2>1
<1> QED
  BY <1>3, <1>4

Owned == \A t, u \in told : t.piece # NoPiece /\ SamePiece(t, u) => t.login = u.login
Countable == /\ Undisturbed /\ day <= POKE_SENDERS_WINDOW /\ Cardinality(LoginsOf(told)) <= POKE_SENDERS_MAX /\ Owned
CountedOf(pokes, x) == /\ x.count = x.held + Cardinality(Of(pokes, x.login, "reached"))
                       /\ x.held = Cardinality(Of(pokes, x.login, "held"))

LEMMA CountedIs ==
    CountedRight <=> (Countable => LoginsOf(senders) = LoginsOf(told) /\ \A x \in senders : CountedOf(told, x))
<1> QED
  BY DEF CountedRight, Countable, CountedOf, Owned

\* Fewer pokes are no harder to count.
LEMMA CountableBefore ==
    ASSUME StoreTyped, StoreTyped', told \subseteq told', world' = world, day \in Nat, day <= day', Countable'
    PROVE  Countable
<1>1. LoginsOf(told) \in SUBSET LoginsOf(told')
  BY DEF LoginsOf
<1>2. /\ IsFiniteSet(LoginsOf(told')) /\ Cardinality(LoginsOf(told')) \in Nat
      /\ Cardinality(LoginsOf(told)) <= Cardinality(LoginsOf(told')) /\ Cardinality(LoginsOf(told)) \in Nat
  BY <1>1, LoginsFinite, FS_Subset, FS_CardinalityType DEF StoreTyped
<1>3. Cardinality(LoginsOf(told)) <= POKE_SENDERS_MAX
  <2>1. Cardinality(LoginsOf(told')) <= POKE_SENDERS_MAX /\ POKE_SENDERS_MAX \in Nat
    BY StoreAssumption DEF Countable
  <2> QED BY <1>2, <2>1
<1>4. day <= POKE_SENDERS_WINDOW
  BY StoreAssumption DEF Countable, StoreTyped
<1>5. Undisturbed /\ Owned
  BY DEF Countable, Undisturbed, Owned
<1> QED
  BY <1>3, <1>4, <1>5 DEF Countable

\* Nothing in the row is stale within the window.
LEMMA AllRecent ==
    ASSUME StoreTyped, day <= POKE_SENDERS_WINDOW
    PROVE  Recent(senders) = senders
<1>1. \A x \in senders : x.lastAt >= day - POKE_SENDERS_WINDOW
  BY StoreAssumption DEF StoreTyped, SenderType
<1> QED
  BY <1>1 DEF Recent

LEMMA KnownPoke ==
    ASSUME PiecesKnown, Undisturbed, NEW p, NEW outcome, AlreadyCounted(p, outcome)
    PROVE  \E t \in told : t.day = day /\ t.piece = p.piece /\ t.piece # NoPiece /\ t.outcome = outcome
<1>1. <<outcome, p.piece>> \in {<<t.outcome, t.piece>> : t \in {u \in told : u.day = day /\ u.piece # NoPiece}}
  BY DEF PiecesKnown, AlreadyCounted
<1> QED
  BY <1>1

\* What the person counts is one more exactly when the service counts it.
LEMMA CountedAnew ==
    ASSUME StoreTyped, PiecesKnown, Numbered, Undisturbed, NEW p \in Pokes, NEW outcome \in {"held", "reached"},
           ~AlreadyCounted(p, outcome)
    PROVE  Counting(p, outcome) \notin told
<1> SUFFICES ASSUME Counting(p, outcome) \in told PROVE FALSE
  OBVIOUS
<1>1. PICK t \in told : t = Counting(p, outcome)
  OBVIOUS
<1>2. /\ t.outcome = outcome /\ t.day = day /\ t.piece = p.piece
      /\ t.what = IF p.piece = NoPiece THEN Cardinality(told) ELSE 0
  BY <1>1 DEF Counting
<1>3. CASE p.piece = NoPiece
  <2>1. t.what < Cardinality(told) /\ t.what = Cardinality(told)
    BY <1>2, <1>3 DEF Numbered
  <2>2. Cardinality(told) \in Nat
    BY FS_CardinalityType DEF StoreTyped
  <2> QED BY <2>1, <2>2
<1>4. CASE p.piece # NoPiece
  <2>1. t \in {u \in told : u.day = day /\ u.piece # NoPiece}
    BY <1>2, <1>4
  <2>2. <<t.outcome, t.piece>> \in pieces
    BY <2>1 DEF PiecesKnown
  <2> QED BY <1>2, <1>4, <2>2 DEF AlreadyCounted
<1> QED
  BY <1>3, <1>4

LEMMA PokePieces ==
    ASSUME StoreTyped, PiecesKnown, Numbered, NEW p \in Pokes, NEW outcome \in {"held", "reached"},
           record(p, outcome), Tally(p, outcome), UNCHANGED <<world, day>>
    PROVE  PiecesKnown' /\ Numbered'
<1> DEFINE c == Counting(p, outcome)
<1>1. /\ told' = told \cup {c} /\ Cardinality(told) \in Nat
      /\ Cardinality(told') = IF c \in told THEN Cardinality(told) ELSE Cardinality(told) + 1
  BY TallyIs
<1>2. /\ c.outcome = outcome /\ c.day = day /\ c.piece = p.piece
      /\ c.what = IF p.piece = NoPiece THEN Cardinality(told) ELSE 0
  BY DEF Counting
<1> HIDE DEF c
<1>3. Numbered'
  <2>1. day \in Nat
    BY DEF StoreTyped
  <2>2. \A t \in told : t.piece = NoPiece => t.what \in Nat
    BY DEF StoreTyped, ToldType
  <2>3. CASE c \in told
    <3>1. told' = told
      BY <1>1, <2>3
    <3> QED BY <3>1 DEF Numbered
  <2>4. CASE c \notin told
    <3>1. Cardinality(told') = Cardinality(told) + 1
      BY <1>1, <2>4
    <3>2. \A t \in told : t.piece = NoPiece => t.what < Cardinality(told) + 1
      BY <1>1, <2>2 DEF Numbered
    <3>3. c.piece = NoPiece => c.what < Cardinality(told) + 1
      BY <1>1, <1>2
    <3>4. c.day <= day /\ (c.piece # NoPiece => c.what = 0)
      BY <1>2, <2>1
    <3> QED BY <1>1, <3>1, <3>2, <3>3, <3>4 DEF Numbered
  <2> QED BY <2>3, <2>4
<1>4. ASSUME Undisturbed
      PROVE  pieces' = {<<t.outcome, t.piece>> : t \in {u \in told' : u.day = day /\ u.piece # NoPiece}}
  <2>1. pieces = {<<t.outcome, t.piece>> : t \in {u \in told : u.day = day /\ u.piece # NoPiece}}
    BY <1>4 DEF PiecesKnown
  <2>2. CASE p.piece = NoPiece
    <3>1. pieces' = pieces
      BY <2>2 DEF record, AlreadyCounted
    <3>2. {u \in told' : u.day = day /\ u.piece # NoPiece} = {u \in told : u.day = day /\ u.piece # NoPiece}
      BY <1>1, <1>2, <2>2
    <3> QED BY <2>1, <3>1, <3>2
  <2>3. CASE p.piece # NoPiece
    <3>1. pieces' = pieces \cup {<<outcome, p.piece>>}
      BY <2>3 DEF record, AlreadyCounted
    <3>2. {u \in told' : u.day = day /\ u.piece # NoPiece} = {u \in told : u.day = day /\ u.piece # NoPiece} \cup {c}
      BY <1>1, <1>2, <2>3
    <3>3. {<<t.outcome, t.piece>> : t \in {u \in told : u.day = day /\ u.piece # NoPiece} \cup {c}} =
          {<<t.outcome, t.piece>> : t \in {u \in told : u.day = day /\ u.piece # NoPiece}} \cup {<<outcome, p.piece>>}
      BY <1>2
    <3> QED BY <2>1, <3>1, <3>2, <3>3
  <2> QED BY <2>2, <2>3
<1>5. PiecesKnown'
  BY <1>4 DEF PiecesKnown, Undisturbed
<1> QED
  BY <1>3, <1>5

LEMMA LoginsGrow ==
    ASSUME NEW S, NEW x
    PROVE  LoginsOf(S \cup {x}) = LoginsOf(S) \cup {x.login}
<1> QED
  BY DEF LoginsOf

\* A poke told of already is the same entry: there is one of a piece a day.
LEMMA CountedAgain ==
    ASSUME RowInv, CountInv, Undisturbed, Owned', NEW p \in Pokes, NEW outcome \in {"held", "reached"},
           AlreadyCounted(p, outcome), record(p, outcome), Tally(p, outcome)
    PROVE  told' = told /\ senders' = senders
<1> DEFINE c == Counting(p, outcome)
<1>1. StoreTyped /\ PiecesKnown /\ Numbered
  BY DEF RowInv, CountInv
<1>2. told' = told \cup {c} /\ c \in ToldType
  BY <1>1, TallyIs
<1>3. PICK t \in told : t.day = day /\ t.piece = p.piece /\ t.piece # NoPiece /\ t.outcome = outcome
  BY <1>1, KnownPoke
<1>4. c.day = day /\ c.piece = p.piece /\ c.outcome = outcome /\ c.what = 0
  BY <1>3 DEF Counting
<1> HIDE DEF c
<1>5. t.login = c.login
  BY <1>2, <1>3, <1>4 DEF Owned, SamePiece
<1>6. t.what = 0 /\ t \in ToldType
  BY <1>1, <1>3 DEF Numbered, StoreTyped
<1>7. t = c
  BY <1>2, <1>3, <1>4, <1>5, <1>6 DEF ToldType
<1> QED
  BY <1>2, <1>3, <1>7 DEF record

LEMMA CountedNewcomer ==
    ASSUME StoreTyped, OnceEach, NEW c, NEW kept, c \notin told, told' = told \cup {c},
           LoginsOf(senders) = LoginsOf(told), \A x \in senders : CountedOf(told, x),
           c.outcome \in {"held", "reached"}, kept \in Kept(senders),
           Cardinality(LoginsOf(told')) <= POKE_SENDERS_MAX,
           \A x \in senders : x.login # c.login,
           NEW w, w.login = c.login, w.count = 1, w.held = IF c.outcome = "held" THEN 1 ELSE 0,
           senders' = kept \cup {w}
    PROVE  LoginsOf(senders') = LoginsOf(told') /\ \A x \in senders' : CountedOf(told', x)
<1>1. c.login \notin LoginsOf(told)
  <2>1. c.login \notin LoginsOf(senders)
    BY DEF LoginsOf
  <2> QED BY <2>1
<1>2. kept = senders
  <2>1. IsFiniteSet(LoginsOf(senders)) /\ Cardinality(LoginsOf(senders)) = Cardinality(senders)
    BY Copies DEF StoreTyped, OnceEach
  <2>2. LoginsOf(told') = LoginsOf(senders) \cup {c.login}
    BY LoginsGrow
  <2>3. Cardinality(LoginsOf(told')) = Cardinality(senders) + 1 /\ Cardinality(senders) \in Nat
    <3>1. PICK S : S = LoginsOf(senders)
      OBVIOUS
    <3>2. IsFiniteSet(S) /\ c.login \notin S /\ Cardinality(S) = Cardinality(senders) /\ Cardinality(S) \in Nat
      BY <1>1, <2>1, <3>1, FS_CardinalityType
    <3>3. Cardinality(S \cup {c.login}) = Cardinality(S) + 1
      BY <3>2, FS_AddElement
    <3> QED BY <2>2, <3>1, <3>2, <3>3
  <2>4. Cardinality(senders) < POKE_SENDERS_MAX
    BY <2>3, StoreAssumption
  <2>5. IsFiniteSet(senders)
    BY DEF StoreTyped
  <2> QED BY <2>4, <2>5, KeptWhole
<1>3. LoginsOf(senders') = LoginsOf(told')
  <2>1. LoginsOf(senders') = LoginsOf(senders) \cup {w.login}
    <3>1. senders' = senders \cup {w}
      BY <1>2
    <3> QED BY <3>1, LoginsGrow
  <2>2. LoginsOf(told') = LoginsOf(told) \cup {c.login}
    BY LoginsGrow
  <2> QED BY <2>1, <2>2
<1>4. \A x \in senders : Of(told', x.login, "held") = Of(told, x.login, "held")
                         /\ Of(told', x.login, "reached") = Of(told, x.login, "reached")
  BY DEF Of
<1>5. \A o : /\ o # c.outcome => Cardinality(Of(told', c.login, o)) = 0
             /\ o = c.outcome => Cardinality(Of(told', c.login, o)) = 1
  <2> TAKE o
  <2>1. Of(told, c.login, o) = {}
    BY <1>1 DEF Of, LoginsOf
  <2>2. Cardinality(Of(told, c.login, o)) = 0
    BY <2>1, FS_EmptySet
  <2> QED BY <2>2, OfIs
<1>6. CountedOf(told', w)
  <2>1. CASE c.outcome = "held"
    BY <1>5, <2>1 DEF CountedOf
  <2>2. CASE c.outcome = "reached"
    BY <1>5, <2>2 DEF CountedOf
  <2> QED BY <2>1, <2>2
<1>7. \A x \in senders : CountedOf(told', x)
  BY <1>4 DEF CountedOf
<1> QED
  BY <1>2, <1>3, <1>6, <1>7

LEMMA OfGrown ==
    ASSUME StoreTyped, NEW c, c \notin told, told' = told \cup {c}
    PROVE  \A o : /\ Cardinality(Of(told, c.login, o)) \in Nat
                 /\ Cardinality(Of(told', c.login, o)) =
                       IF c.outcome = o THEN Cardinality(Of(told, c.login, o)) + 1
                       ELSE Cardinality(Of(told, c.login, o))
<1> TAKE o
<1>1. \A l, outcome :
          /\ Cardinality(Of(told, l, outcome)) \in Nat
          /\ Cardinality(Of(told', l, outcome)) =
                IF c.login = l /\ c.outcome = outcome THEN Cardinality(Of(told, l, outcome)) + 1
                ELSE Cardinality(Of(told, l, outcome))
  BY OfIs, Zenon
<1> QED
  BY <1>1

LEMMA CountedBump ==
    ASSUME StoreTyped, OnceEach, NEW c, c \notin told, told' = told \cup {c},
           LoginsOf(senders) = LoginsOf(told), \A x \in senders : CountedOf(told, x),
           c.outcome \in {"held", "reached"}, NEW x \in senders, x.login = c.login,
           NEW w, w.login = c.login, w.count = x.count + 1,
           w.held = x.held + (IF c.outcome = "held" THEN 1 ELSE 0),
           senders' = (senders \ {x}) \cup {w}
    PROVE  LoginsOf(senders') = LoginsOf(told') /\ \A y \in senders' : CountedOf(told', y)
<1>1. LoginsOf(senders') = LoginsOf(told')
  <2>1. LoginsOf(senders') = LoginsOf(senders)
    BY DEF LoginsOf
  <2>2. LoginsOf(told') = LoginsOf(told) \cup {c.login} /\ c.login \in LoginsOf(senders)
    BY LoginsGrow DEF LoginsOf
  <2> QED BY <2>1, <2>2
<1>2. \A y \in senders \ {x} : y.login # c.login
  BY DEF OnceEach
<1>3. \A y \in senders \ {x} : Of(told', y.login, "held") = Of(told, y.login, "held")
                         /\ Of(told', y.login, "reached") = Of(told, y.login, "reached")
  BY <1>2 DEF Of
<1>4. \A y \in senders \ {x} : CountedOf(told', y)
  BY <1>3 DEF CountedOf
<1>5. CountedOf(told, x) /\ x.count \in Nat /\ x.held \in Nat
  BY DEF StoreTyped, SenderType
<1>6. CountedOf(told', w)
  <2>5. \A o : /\ Cardinality(Of(told, c.login, o)) \in Nat
               /\ Cardinality(Of(told', c.login, o)) =
                     IF c.outcome = o THEN Cardinality(Of(told, c.login, o)) + 1 ELSE Cardinality(Of(told, c.login, o))
    BY OfGrown
  <2>1. /\ Cardinality(Of(told, c.login, "held")) \in Nat /\ Cardinality(Of(told, c.login, "reached")) \in Nat
        /\ Cardinality(Of(told', c.login, "held")) =
              Cardinality(Of(told, c.login, "held")) + (IF c.outcome = "held" THEN 1 ELSE 0)
        /\ Cardinality(Of(told', c.login, "reached")) =
              Cardinality(Of(told, c.login, "reached")) + (IF c.outcome = "reached" THEN 1 ELSE 0)
    <3>1. /\ Cardinality(Of(told, c.login, "held")) \in Nat
          /\ Cardinality(Of(told', c.login, "held")) =
                IF c.outcome = "held" THEN Cardinality(Of(told, c.login, "held")) + 1 ELSE Cardinality(Of(told, c.login, "held"))
      BY <2>5
    <3>2. /\ Cardinality(Of(told, c.login, "reached")) \in Nat
          /\ Cardinality(Of(told', c.login, "reached")) =
                IF c.outcome = "reached" THEN Cardinality(Of(told, c.login, "reached")) + 1
                ELSE Cardinality(Of(told, c.login, "reached"))
      BY <2>5
    <3> QED BY <3>1, <3>2
  <2>2. /\ x.count = x.held + Cardinality(Of(told, c.login, "reached"))
        /\ x.held = Cardinality(Of(told, c.login, "held"))
    BY <1>5 DEF CountedOf
  <2>3. CASE c.outcome = "held"
    BY <1>5, <2>1, <2>2, <2>3 DEF CountedOf
  <2>4. CASE c.outcome = "reached"
    BY <1>5, <2>1, <2>2, <2>4 DEF CountedOf
  <2> QED BY <2>3, <2>4
<1> QED
  BY <1>1, <1>4, <1>6

LEMMA CountedPoke ==
    ASSUME RowInv, CountInv, StoreTyped', NEW p \in Pokes, NEW outcome \in {"held", "reached"},
           record(p, outcome), Tally(p, outcome), UNCHANGED <<world, day>>
    PROVE  CountedRight'
<1> SUFFICES ASSUME Countable'
             PROVE  LoginsOf(senders') = LoginsOf(told') /\ \A x \in senders' : CountedOf(told', x)
  BY DEF CountedRight, Countable, CountedOf, Owned
<1> DEFINE c == Counting(p, outcome)
           login == p.account.login
           held == IF outcome = "held" THEN 1 ELSE 0
<1>1. StoreTyped /\ OnceEach /\ PiecesKnown /\ Numbered /\ CountedRight /\ day \in Nat
  BY DEF RowInv, CountInv, StoreTyped
<1>2. told' = told \cup {c} /\ told \subseteq told'
  BY <1>1, TallyIs
<1>3. Countable
  BY <1>1, <1>2, CountableBefore
<1>4. LoginsOf(senders) = LoginsOf(told) /\ \A x \in senders : CountedOf(told, x)
  BY <1>1, <1>3, CountedIs
<1>5. Undisturbed /\ Owned' /\ Recent(senders) = senders /\ Cardinality(LoginsOf(told')) <= POKE_SENDERS_MAX
  BY <1>1, <1>3, AllRecent DEF Countable
<1>6. CASE AlreadyCounted(p, outcome)
  <2>1. told' = told /\ senders' = senders
    BY <1>5, <1>6, CountedAgain
  <2> QED BY <1>4, <2>1
<1>7. CASE ~AlreadyCounted(p, outcome)
  <2>1. c \notin told
    BY <1>1, <1>5, <1>7, CountedAnew
  <2>2. c.login = login /\ c.outcome = outcome
    BY DEF Counting
  <2>3. senders' \in countingPipeline(p.account, held)
    BY <1>5, <1>7 DEF record, Undisturbed
  <2>4. \A count, of : /\ Written(p.account, count, of).login = login
                       /\ Written(p.account, count, of).count = count
                       /\ Written(p.account, count, of).held = of
    BY DEF Written
  <2> HIDE DEF c, login, held
  <2>5. CASE /\ \A x \in senders : x.login # login
             /\ \E kept \in Kept(senders) : senders' = kept \cup {Written(p.account, 1, held)}
    <3>1. PICK kept \in Kept(senders) : senders' = kept \cup {Written(p.account, 1, held)}
      BY <2>5
    <3>2. PICK w : w = Written(p.account, 1, held)
      OBVIOUS
    <3>3. /\ w.login = c.login /\ w.count = 1 /\ w.held = (IF c.outcome = "held" THEN 1 ELSE 0)
          /\ senders' = kept \cup {w}
      BY <2>2, <2>4, <3>1, <3>2 DEF held
    <3>4. \A x \in senders : x.login # c.login
      BY <2>2, <2>5
    <3>5. c.outcome \in {"held", "reached"}
      BY <2>2
    <3> QED BY <1>1, <1>2, <1>4, <1>5, <2>1, <3>3, <3>4, <3>5, CountedNewcomer
  <2>6. CASE \E x \in senders : /\ x.login = login
                                /\ senders' = (senders \ {x}) \cup {Written(p.account, x.count + 1, x.held + held)}
    <3>1. PICK x \in senders : /\ x.login = login
                               /\ senders' = (senders \ {x}) \cup {Written(p.account, x.count + 1, x.held + held)}
      BY <2>6
    <3>2. PICK w : w = Written(p.account, x.count + 1, x.held + held)
      OBVIOUS
    <3>3. /\ w.login = c.login /\ w.count = x.count + 1
          /\ w.held = x.held + (IF c.outcome = "held" THEN 1 ELSE 0)
          /\ senders' = (senders \ {x}) \cup {w}
      BY <2>2, <2>4, <3>1, <3>2 DEF held
    <3>4. x.login = c.login /\ c.outcome \in {"held", "reached"}
      BY <2>2, <3>1
    <3> QED BY <1>1, <1>2, <1>4, <2>1, <3>3, <3>4, CountedBump
  <2> QED
    BY <1>1, <1>5, <2>3, <2>5, <2>6, PipelineIs DEF login
<1> QED
  BY <1>6, <1>7

\* What leaves the pokes, the row and the cache as they were leaves what is counted.
LEMMA CountStays ==
    ASSUME CountInv, UNCHANGED <<world, senders, pieces, day, told>>
    PROVE  CountInv'
<1> QED
  BY DEF CountInv, PiecesKnown, Numbered, CountedRight, Undisturbed

LEMMA CountForgotten ==
    ASSUME CountInv, PiecesForgotten
    PROVE  CountInv'
<1>1. ~Undisturbed'
  BY DEF PiecesForgotten, Undisturbed
<1>2. Numbered'
  BY DEF CountInv, Numbered, PiecesForgotten
<1> QED
  BY <1>1, <1>2 DEF CountInv, PiecesKnown, CountedRight

LEMMA CountDay ==
    ASSUME RowInv, CountInv, StoreTyped', DayPasses
    PROVE  CountInv'
<1>1. /\ StoreTyped /\ PiecesKnown /\ Numbered /\ CountedRight /\ day \in Nat
      /\ day' = day + 1 /\ pieces' = {} /\ UNCHANGED <<world, senders, told>>
  BY DEF RowInv, StoreTyped, CountInv, DayPasses, settingsVars
<1>2. \A t \in told : t.day \in Nat /\ t.day <= day /\ t.day < day'
  BY <1>1 DEF Numbered, StoreTyped, ToldType
<1>3. Numbered'
  BY <1>1, <1>2 DEF Numbered
<1>4. PiecesKnown'
  <2>1. {u \in told' : u.day = day' /\ u.piece # NoPiece} = {}
    BY <1>1, <1>2
  <2> QED BY <1>1, <2>1 DEF PiecesKnown
<1>5. Countable' => Countable
  BY <1>1, CountableBefore
<1>6. CountedRight'
  <2>1. CountedRight' <=> (Countable' => LoginsOf(senders') = LoginsOf(told') /\ \A x \in senders' : CountedOf(told', x))
    BY DEF CountedRight, Countable, CountedOf, Owned
  <2> QED BY <1>1, <1>5, <2>1, CountedIs
<1> QED
  BY <1>3, <1>4, <1>6 DEF CountInv

\* A row that is still right is not stale.
LEMMA CountExpires ==
    ASSUME RowInv, CountInv, StoreTyped', Expires
    PROVE  CountInv'
<1>1. /\ StoreTyped /\ PiecesKnown /\ Numbered /\ day \in Nat /\ senders # {} /\ Recent(senders) = {}
      /\ UNCHANGED <<world, pieces, day, told>>
  BY DEF RowInv, StoreTyped, CountInv, Expires, settingsVars
<1>2. ~(day <= POKE_SENDERS_WINDOW)
  BY <1>1, AllRecent
<1>3. CountedRight'
  BY <1>1, <1>2 DEF CountedRight
<1>4. PiecesKnown' /\ Numbered'
  BY <1>1 DEF PiecesKnown, Numbered, Undisturbed
<1> QED
  BY <1>3, <1>4 DEF CountInv

----------------------------------------------------------------------------
(* The two together. *)

PokesInv == PanelInv /\ RowInv /\ CountInv

LEMMA InitPokes == Init => PokesInv
<1> SUFFICES ASSUME Init PROVE PokesInv
  OBVIOUS
<1>1. PanelInv
  BY InitPanel DEF Init
<1>2. /\ senders = {} /\ pieces = {} /\ day = 0 /\ offered = {} /\ told = {}
      /\ IsFiniteSet({}) /\ Cardinality({}) = 0 /\ 0 <= POKE_SENDERS_MAX
  BY FS_EmptySet, StoreAssumption DEF Init
<1>3. RowInv
  BY <1>2 DEF RowInv, StoreTyped, OnceEach, HeldOfCount, EarnedTheirs
<1>4. CountInv
  BY <1>2 DEF CountInv, PiecesKnown, Numbered, CountedRight, LoginsOf
<1> QED
  BY <1>1, <1>3, <1>4 DEF PokesInv

LEMMA PanelWorld == PanelNext => world' = world
<1> QED
  BY DEF PanelNext, Open, Leave, toggleType, setReviewRequestResolution, setBotMode, addLogin, removeLogin,
         setDigestEnabled, setDigestHour, Press, Submits, dismissNotice, Handled, Lost,
         saveSettingsSuccess, saveSettingsFailure, OlderTab

\* A suggestion taken is a press on the list in force.
LEMMA PickPress ==
    ASSUME PanelInv, RowInv, NEW x \in offered, onPick(x)
    PROVE  PanelInv' /\ UNCHANGED <<world, senders, pieces, day, offered, told>>
<1>1. /\ Press(Listed(settings), settings[Listed(settings)] \cup {x.login})
      /\ UNCHANGED <<world, senders, pieces, day, offered, told>>
  BY DEF onPick, Press, Submits, storeVars
<1>2. x.login \in Logins
  BY DEF RowInv, StoreTyped, OfferType
<1>3. Listed(settings) \in {"allowedBots", "blockedBots"} /\ settings[Listed(settings)] \in SUBSET Logins
  BY ListedIs DEF PanelInv
<1>4. Right(Listed(settings), settings[Listed(settings)] \cup {x.login})
  BY <1>2, <1>3, FieldsAre DEF Right
<1> QED
  BY <1>1, <1>4, PressPanel

LEMMA PokesKeep == PokesInv /\ [Next]_vars => PokesInv'
<1> SUFFICES ASSUME PokesInv, [Next]_vars PROVE PokesInv'
  OBVIOUS
<1>1. PanelInv /\ RowInv /\ CountInv
  BY DEF PokesInv
<1>2. CASE PanelStep
  <2>1. PanelInv' /\ world' = world
    BY <1>1, <1>2, PanelKeeps, PanelWorld DEF PanelStep
  <2>2. offered' \subseteq offered /\ UNCHANGED <<senders, pieces, day, told>>
    BY <1>2 DEF PanelStep
  <2> QED BY <1>1, <2>1, <2>2, RowStays, CountStays DEF PokesInv
<1>3. ASSUME NEW p \in Pokes, Poke(p) PROVE PokesInv'
  <2>1. PanelInv' /\ RowInv'
    BY <1>1, <1>3, PokeRow, PanelStays DEF Poke
  <2>2. /\ Outcome(p) \in {"held", "reached"} /\ record(p, Outcome(p)) /\ Tally(p, Outcome(p))
        /\ UNCHANGED <<world, day>>
    BY <1>3, OutcomeIs DEF Poke, settingsVars
  <2>3. StoreTyped /\ PiecesKnown /\ Numbered /\ StoreTyped'
    BY <1>1, <2>1 DEF RowInv, CountInv
  <2>4. PiecesKnown' /\ Numbered' /\ CountedRight'
    BY <1>1, <2>2, <2>3, PokePieces, CountedPoke
  <2> QED BY <2>1, <2>4 DEF PokesInv, CountInv
<1>4. CASE PiecesForgotten
  <2>1. PanelInv' /\ CountInv'
    BY <1>1, <1>4, ForgottenPanel, CountForgotten
  <2>2. UNCHANGED <<senders, day, offered, told>>
    BY <1>4 DEF PiecesForgotten
  <2> QED BY <1>1, <2>1, <2>2, RowStays DEF PokesInv
<1>5. CASE DayPasses
  <2>1. PanelInv' /\ RowInv'
    BY <1>1, <1>5, PanelStays, RowStays DEF DayPasses
  <2> QED BY <1>1, <1>5, <2>1, CountDay DEF PokesInv, RowInv
<1>6. CASE Expires
  <2>1. PanelInv' /\ RowInv'
    BY <1>1, <1>6, PanelStays, RowStays DEF Expires
  <2> QED BY <1>1, <1>6, <2>1, CountExpires DEF PokesInv, RowInv
<1>7. ASSUME NEW fails \in BOOLEAN, loadSenders(fails) PROVE PokesInv'
  <2>1. PanelInv' /\ RowInv'
    BY <1>1, <1>7, PanelStays, LoadRow DEF loadSenders
  <2>2. UNCHANGED <<world, senders, pieces, day, told>>
    BY <1>7 DEF loadSenders, settingsVars
  <2> QED BY <1>1, <2>1, <2>2, CountStays DEF PokesInv
<1>8. ASSUME NEW x \in offered, onPick(x) PROVE PokesInv'
  <2>1. PanelInv' /\ UNCHANGED <<world, senders, pieces, day, offered, told>>
    BY <1>1, <1>8, PickPress
  <2> QED BY <1>1, <2>1, RowStays, CountStays DEF PokesInv
<1>9. CASE UNCHANGED vars
  <2>1. UNCHANGED <<settingsVars, world, senders, pieces, day, offered, told>>
    BY <1>9 DEF vars, settingsVars
  <2> QED BY <1>1, <2>1, PanelStays, RowStays, CountStays DEF PokesInv
<1> QED
  BY <1>2, <1>3, <1>4, <1>5, <1>6, <1>7, <1>8, <1>9 DEF Next

\* What is saved, shown and counted is in order whatever is pressed, poked, lost and forgotten.
THEOREM PokesInOrder == Spec => []PokesInv
<1> QED
  BY InitPokes, PokesKeep, PTL DEF Spec

\* SavedAsPressed, for every login, kind and hour and any run of presses, saves and answers
\* (pokeSettingsLogic.ts:208-264).
THEOREM PressesAreKept == Spec => []SavedAsPressed
<1>1. PokesInv => SavedAsPressed
  BY DEF PokesInv, PanelInv, AsMeant, SavedAsPressed
<1> QED
  BY <1>1, PokesInOrder, PTL

\* AnswersWhatIsStored, for every row and every save (user-write.service.ts:198-207).
THEOREM SavesAreAnswered == Spec => AnswersWhatIsStored
<1> DEFINE answers ==
              /\ \A c \in calls : Handled(c, TRUE) =>
                    Answer(updateSettings(c.body)) = normalizePokeSettings(row'.settings)
              /\ \A body \in world.bodies, timezone \in BOOLEAN : OlderTab(body, timezone) =>
                    Answer(updateSettings(body)) = normalizePokeSettings(row'.settings)
<1>1. PokesInv => answers
  <2> SUFFICES ASSUME PokesInv PROVE answers
    OBVIOUS
  <2>1. PanelTyped /\ Storable(row.settings)
    BY DEF PokesInv, PanelInv, PanelTyped
  <2>2. ASSUME NEW u, Savable(u) PROVE Answer(u) = normalizePokeSettings(Over(u, row.settings))
    BY <2>1, <2>2, SaveIsNormal DEF Answer
  <2>3. ASSUME NEW c \in calls, Handled(c, TRUE)
        PROVE  Answer(updateSettings(c.body)) = normalizePokeSettings(row'.settings)
    <3>1. c.body \in SettingsType
      BY <2>1 DEF PanelTyped, SaveType
    <3>2. Savable(updateSettings(c.body))
      BY <3>1, WholeSave
    <3>3. row'.settings = Over(updateSettings(c.body), row.settings)
      BY <2>3 DEF Handled, updatePokeSettings
    <3> QED BY <2>2, <3>2, <3>3
  <2>4. ASSUME NEW body \in world.bodies, NEW timezone \in BOOLEAN, OlderTab(body, timezone)
        PROVE  Answer(updateSettings(body)) = normalizePokeSettings(row'.settings)
    <3>1. Storable(body) /\ UpdatePokeSettingsBody(body)
      BY <2>1, <2>4, PanelWorldsAssumption DEF PanelTyped, OlderTab
    <3>2. Savable(updateSettings(body))
      BY <3>1, UpdateIs
    <3>3. row'.settings = Over(updateSettings(body), row.settings)
      BY <2>4 DEF OlderTab, updatePokeSettings
    <3> QED BY <2>2, <3>2, <3>3
  <2> QED BY <2>3, <2>4
<1> QED
  BY <1>1, PokesInOrder, PTL DEF AnswersWhatIsStored

\* LeavesWhatItDoesNotKnow, for every row and every body of an older tab (poke-settings.ts:117-123).
THEOREM OlderTabsLeaveTheRest == Spec => LeavesWhatItDoesNotKnow
<1> DEFINE leaves ==
              \A body \in world.bodies, timezone \in BOOLEAN :
                  OlderTab(body, timezone) =>
                     \A f \in Fields \ (DOMAIN body \cup {"reviewRequestResolution"}) :
                        normalizePokeSettings(row'.settings)[f] = normalizePokeSettings(row.settings)[f]
<1>1. PokesInv => leaves
  <2> SUFFICES ASSUME PokesInv, NEW body \in world.bodies, NEW timezone \in BOOLEAN, OlderTab(body, timezone),
                      NEW f \in Fields \ (DOMAIN body \cup {"reviewRequestResolution"})
               PROVE  normalizePokeSettings(row'.settings)[f] = normalizePokeSettings(row.settings)[f]
    OBVIOUS
  <2>1. PanelTyped /\ Storable(row.settings)
    BY DEF PokesInv, PanelInv, PanelTyped
  <2>2. Storable(body) /\ UpdatePokeSettingsBody(body)
    BY <2>1, PanelWorldsAssumption DEF PanelTyped, OlderTab
  <2>3. Savable(updateSettings(body)) /\ f \notin DOMAIN updateSettings(body)
    BY <2>2, UpdateIs
  <2>4. row'.settings = Over(updateSettings(body), row.settings)
    BY DEF OlderTab, updatePokeSettings
  <2>5. normalizePokeSettings(row'.settings) = Over(updateSettings(body), normalizePokeSettings(row.settings))
    BY <2>1, <2>3, <2>4, SaveIsNormal
  <2>6. f \in DOMAIN normalizePokeSettings(row.settings)
    BY <2>1, NormalHas, WholeIs
  <2> QED BY <2>3, <2>5, <2>6 DEF Over
<1> QED
  BY <1>1, PokesInOrder, PTL DEF LeavesWhatItDoesNotKnow

LEMMA Reasons == PanelInv /\ RowInv => SuggestsWithReason
<1> SUFFICES ASSUME PanelInv, RowInv, NEW x \in suggestBots(settings)
             PROVE  /\ x.login \notin settings[Listed(settings)]
                    /\ \E t \in told : t.login = x.login /\ (settings.botMode = "all" => t.outcome = "reached")
  BY DEF SuggestsWithReason
<1>1. /\ x \in offered /\ x.login \notin settings[Listed(settings)] /\ Worth(x, settings.botMode) > 0
  BY DEF suggestBots
<1>2. /\ x.reached \in Nat /\ x.held \in Nat
      /\ 0 < x.reached => Came(told, x.login, "reached")
      /\ 0 < x.held => Came(told, x.login, "held")
  BY <1>1 DEF RowInv, StoreTyped, OfferType, EarnedTheirs
<1>3. CASE settings.botMode = "all"
  <2>1. Came(told, x.login, "reached")
    BY <1>1, <1>2, <1>3 DEF Worth
  <2> QED BY <1>1, <2>1 DEF Came
<1>4. CASE settings.botMode # "all"
  <2>1. x.reached + x.held > 0
    BY <1>1, <1>4 DEF Worth
  <2>2. Came(told, x.login, "reached") \/ Came(told, x.login, "held")
    BY <1>2, <2>1
  <2> QED BY <1>1, <1>4, <2>2 DEF Came
<1> QED
  BY <1>3, <1>4

LEMMA CountsAreRight == RowInv /\ CountInv => CountsPokesOnce
<1> SUFFICES ASSUME RowInv, CountInv, Countable, NEW l \in Logins
             PROVE  {<<x.reached, x.held>> : x \in {y \in read : y.login = l}}
                      = IF Cardinality(Of(told, l, "reached")) + Cardinality(Of(told, l, "held")) = 0 THEN {}
                        ELSE {<<Cardinality(Of(told, l, "reached")), Cardinality(Of(told, l, "held"))>>}
  BY DEF CountsPokesOnce, Countable, Undisturbed, Owned, Of
<1>1. StoreTyped /\ OnceEach /\ Recent(senders) = senders
  BY AllRecent DEF RowInv, Countable
<1>2. LoginsOf(senders) = LoginsOf(told) /\ \A x \in senders : CountedOf(told, x)
  BY CountedIs DEF CountInv
<1>3. PICK r, h : r = Cardinality(Of(told, l, "reached")) /\ h = Cardinality(Of(told, l, "held"))
  OBVIOUS
<1>4. \A o : Of(told, l, o) \in SUBSET told /\ IsFiniteSet(Of(told, l, o)) /\ Cardinality(Of(told, l, o)) \in Nat
             /\ (Cardinality(Of(told, l, o)) = 0 <=> Of(told, l, o) = {})
  <2> TAKE o
  <2>1. Of(told, l, o) \in SUBSET told
    BY DEF Of
  <2>2. IsFiniteSet(Of(told, l, o)) /\ Cardinality(Of(told, l, o)) \in Nat
    BY <1>1, <2>1, FS_Subset, FS_CardinalityType DEF StoreTyped
  <2>3. Cardinality(Of(told, l, o)) = 0 <=> Of(told, l, o) = {}
    BY <2>2, FS_EmptySet
  <2> QED BY <2>1, <2>2, <2>3
<1>5. r \in Nat /\ h \in Nat /\ (r = 0 <=> Of(told, l, "reached") = {}) /\ (h = 0 <=> Of(told, l, "held") = {})
  BY <1>3, <1>4
<1> DEFINE counts == {<<x.reached, x.held>> : x \in {y \in read : y.login = l}}
<1>6. CASE l \notin LoginsOf(told)
  <2>1. \A y \in read : y.login # l
    BY <1>1, <1>2, <1>6 DEF read, LoginsOf
  <2>2. counts = {}
    BY <2>1
  <2>3. r = 0 /\ h = 0
    BY <1>5, <1>6 DEF Of, LoginsOf
  <2> HIDE DEF counts
  <2>4. counts = IF r + h = 0 THEN {} ELSE {<<r, h>>}
    BY <2>2, <2>3
  <2> QED BY <1>3, <2>4 DEF counts
<1>7. CASE l \in LoginsOf(told)
  <2>1. PICK x \in senders : x.login = l
    BY <1>2, <1>7 DEF LoginsOf
  <2>2. PICK t \in told : t.login = l
    BY <1>7 DEF LoginsOf
  <2>3. t.outcome \in {"held", "reached"}
    BY <1>1, <2>2 DEF StoreTyped, ToldType
  <2>4. t \in Of(told, l, t.outcome)
    BY <2>2 DEF Of
  <2>5. r + h # 0
    BY <1>5, <2>3, <2>4
  <2>6. x.held = h /\ x.count = h + r
    BY <1>2, <1>3, <2>1 DEF CountedOf
  <2>7. x.count - x.held = r
    BY <1>5, <2>6
  <2>8. PICK o : o = [login |-> x.login, bot |-> x.bot, reached |-> x.count - x.held, held |-> x.held]
    OBVIOUS
  <2>9. {y \in read : y.login = l} = {o}
    <3>1. o \in read /\ o.login = l
      BY <1>1, <2>1, <2>8 DEF read
    <3>2. ASSUME NEW y \in read, y.login = l PROVE y = o
      <4>1. PICK z \in senders : y = [login |-> z.login, bot |-> z.bot, reached |-> z.count - z.held, held |-> z.held]
        BY <1>1 DEF read
      <4>2. z = x
        BY <1>1, <2>1, <3>2, <4>1 DEF OnceEach
      <4> QED BY <2>8, <4>1, <4>2
    <3> QED BY <3>1, <3>2
  <2>10. o.reached = r /\ o.held = h
    BY <2>6, <2>7, <2>8
  <2>11. counts = {<<r, h>>}
    BY <2>9, <2>10
  <2> HIDE DEF counts
  <2>12. counts = IF r + h = 0 THEN {} ELSE {<<r, h>>}
    BY <2>5, <2>11
  <2> QED BY <1>3, <2>12 DEF counts
<1> QED
  BY <1>6, <1>7

LEMMA RowIsBounded == RowInv => BoundedAndOnce
<1> SUFFICES ASSUME RowInv PROVE BoundedAndOnce
  OBVIOUS
<1>1. Cardinality(LoginsOf(senders)) = Cardinality(senders)
  BY Copies DEF RowInv, StoreTyped, OnceEach
<1>2. \A x \in senders : 0 <= x.held /\ x.held <= x.count
  BY DEF RowInv, StoreTyped, SenderType, HeldOfCount
<1> QED
  BY <1>1, <1>2 DEF RowInv, BoundedAndOnce

\* SuggestsWhoPoked, for every bound of the row and every run of pokes, days and failures
\* (PokesPanel.tsx:509-521, poke-sender-store.service.ts:54-58).
THEOREM SuggestionsAreEarned == Spec => []SuggestsWhoPoked
<1>1. PokesInv => SuggestsWhoPoked
  BY Reasons, CountsAreRight, RowIsBounded DEF PokesInv, SuggestsWhoPoked
<1> QED
  BY <1>1, PokesInOrder, PTL

\* RoomIsMadeByPeople, for every bound (poke-sender-store.service.ts:187-189).
THEOREM RoomIsMade == Spec => RoomIsMadeByPeople
<1> DEFINE room ==
              \A x \in Recent(senders) : x.login \notin LoginsOf(senders') =>
                  /\ Cardinality(Recent(senders)) = POKE_SENDERS_MAX
                  /\ x.bot => \A y \in senders \cap senders' : y.bot
<1>1. PokesInv /\ [Next]_vars => room
  <2> SUFFICES ASSUME PokesInv, [Next]_vars, NEW x \in Recent(senders), x.login \notin LoginsOf(senders')
               PROVE  /\ Cardinality(Recent(senders)) = POKE_SENDERS_MAX
                      /\ x.bot => \A y \in senders \cap senders' : y.bot
    OBVIOUS
  <2>1. /\ StoreTyped /\ OnceEach /\ Cardinality(senders) <= POKE_SENDERS_MAX /\ day \in Nat
        /\ POKE_SENDERS_MAX \in Nat /\ POKE_SENDERS_WINDOW \in Nat
    BY StoreAssumption DEF PokesInv, RowInv, StoreTyped
  <2>2. /\ x \in senders /\ Recent(senders) \in SUBSET SenderType /\ Recent(senders) \in SUBSET senders
        /\ IsFiniteSet(Recent(senders)) /\ Cardinality(Recent(senders)) <= Cardinality(senders)
        /\ Cardinality(Recent(senders)) \in Nat /\ Cardinality(senders) \in Nat
    BY <2>1, RecentIs
  <2>3. senders' # senders
    BY <2>2 DEF LoginsOf
  <2>4. ~Expires
    BY DEF Expires
  <2>5. PICK p \in Pokes : Poke(p)
    BY <2>3, <2>4 DEF Next, vars, PanelStep, PiecesForgotten, DayPasses, loadSenders, onPick, storeVars
  <2>6. senders' \in countingPipeline(p.account, IF Outcome(p) = "held" THEN 1 ELSE 0)
    BY <2>3, <2>5 DEF Poke, record
  <2>7. PICK held : senders' \in countingPipeline(p.account, held)
    BY <2>6
  <2>8. \A count, of : Written(p.account, count, of).login = p.account.login
                       /\ Written(p.account, count, of).lastAt = day
    BY DEF Written
  <2>9. ASSUME NEW y \in Recent(senders), y.login = p.account.login,
               senders' = (Recent(senders) \ {y}) \cup {Written(p.account, y.count + 1, y.held + held)}
        PROVE  FALSE
    <3>1. PICK w : w = Written(p.account, y.count + 1, y.held + held)
      OBVIOUS
    <3>2. w \in senders' /\ w.login = y.login
      BY <2>8, <2>9, <3>1
    <3>3. x = y \/ x \in senders'
      BY <2>9
    <3> QED BY <3>2, <3>3 DEF LoginsOf
  <2>10. PICK kept \in Kept(Recent(senders)) : /\ senders' = kept \cup {Written(p.account, 1, held)}
                                               /\ \A y \in Recent(senders) : y.login # p.account.login
    BY <2>1, <2>7, <2>9, PipelineIs
  <2>11. PICK w : w = Written(p.account, 1, held)
    OBVIOUS
  <2>12. w.login = p.account.login /\ w.lastAt = day /\ senders' = kept \cup {w}
    BY <2>8, <2>10, <2>11
  <2>13. /\ kept \in SUBSET Recent(senders)
         /\ Cardinality(Recent(senders)) < POKE_SENDERS_MAX => kept = Recent(senders)
         /\ \A k \in kept, d \in Recent(senders) \ kept : ~Outranks(d, k)
    BY <2>2, KeptIs
  <2>14. x \in Recent(senders) \ kept
    BY <2>12 DEF LoginsOf
  <2>15. Cardinality(Recent(senders)) = POKE_SENDERS_MAX
    BY <2>1, <2>2, <2>13, <2>14
  <2>16. w \notin senders
    <3>1. w \in senders => w \in Recent(senders)
      BY <2>1, <2>12 DEF Recent
    <3> QED BY <2>10, <2>12, <3>1
  <2>17. ASSUME x.bot, NEW y \in senders \cap senders' PROVE y.bot
    <3>1. y \in kept
      BY <2>12, <2>16
    <3>2. ~Outranks(x, y)
      BY <2>13, <2>14, <3>1
    <3> QED BY <2>17, <3>2 DEF Outranks
  <2> QED BY <2>15, <2>17
<1> QED
  BY <1>1, PokesInOrder, PTL DEF Spec, RoomIsMadeByPeople

----------------------------------------------------------------------------
(* Putting places in an order. *)

Orders(I, earlier) ==
    /\ \A i \in I : <<i, i>> \notin earlier
    /\ \A i, j \in I : i # j => <<i, j>> \in earlier \/ <<j, i>> \in earlier
    /\ \A i, j, k \in I : <<i, j>> \in earlier /\ <<j, k>> \in earlier => <<i, k>> \in earlier

Ahead(I, earlier, i) == {j \in I : <<j, i>> \in earlier}

LEMMA AheadGrows ==
    ASSUME NEW I, IsFiniteSet(I), NEW earlier, Orders(I, earlier), NEW i \in I
    PROVE  /\ Cardinality(I) \in Nat
           /\ Cardinality(Ahead(I, earlier, i)) \in Nat
           /\ Cardinality(Ahead(I, earlier, i)) < Cardinality(I)
           /\ \A k \in I : <<i, k>> \in earlier =>
                 Cardinality(Ahead(I, earlier, i)) < Cardinality(Ahead(I, earlier, k))
<1> DEFINE A == Ahead(I, earlier, i)
<1>1. /\ IsFiniteSet(A) /\ Cardinality(A) \in Nat /\ Cardinality(I) \in Nat
      /\ A \subseteq I
  BY FS_Subset, FS_CardinalityType DEF Ahead
<1>2. i \notin A
  BY DEF Ahead, Orders
<1>3. Cardinality(A \cup {i}) = Cardinality(A) + 1
  BY <1>1, <1>2, FS_AddElement
<1>4. Cardinality(A \cup {i}) <= Cardinality(I)
  <2>1. A \cup {i} \subseteq I
    BY <1>1
  <2> QED BY <2>1, FS_Subset
<1>5. ASSUME NEW k \in I, <<i, k>> \in earlier
      PROVE  Cardinality(A) < Cardinality(Ahead(I, earlier, k))
  <2> DEFINE B == Ahead(I, earlier, k)
  <2>1. A \cup {i} \subseteq B
    BY <1>5 DEF Ahead, Orders
  <2>2. IsFiniteSet(B) /\ Cardinality(B) \in Nat
    BY FS_Subset, FS_CardinalityType DEF Ahead
  <2>3. Cardinality(A \cup {i}) <= Cardinality(B)
    BY <2>1, <2>2, FS_Subset
  <2> QED BY <1>1, <1>3, <2>2, <2>3
<1>6. Cardinality(A) < Cardinality(I)
  BY <1>1, <1>3, <1>4
<1> QED BY <1>1, <1>5, <1>6

\* So many places are ahead of one, and of no other.
LEMMA EveryPlaceHasANumber ==
    ASSUME NEW I, IsFiniteSet(I), NEW earlier, Orders(I, earlier), NEW n \in 1 .. Cardinality(I)
    PROVE  \E i \in I : Cardinality(Ahead(I, earlier, i)) = n - 1
<1> DEFINE number == [i \in I |-> Cardinality(Ahead(I, earlier, i))]
<1>1. PICK size \in Nat : size = Cardinality(I)
  BY FS_CardinalityType
<1>2. PICK last \in Int : last = size - 1
  OBVIOUS
<1>3. IsFiniteSet(0 .. last) /\ Cardinality(0 .. last) = size
  <2>1. IsFiniteSet(0 .. last) /\ Cardinality(0 .. last) = IF 0 > last THEN 0 ELSE last - 0 + 1
    BY FS_Interval
  <2> QED BY <1>2, <2>1
<1>4. \A i \in I : number[i] \in 0 .. last
  BY <1>1, <1>2, AheadGrows
<1>5. \A i, j \in I : number[i] = number[j] => i = j
  <2>1. SUFFICES ASSUME NEW i \in I, NEW j \in I, number[i] = number[j], i # j PROVE FALSE
    OBVIOUS
  <2>2. number[i] < number[j] \/ number[j] < number[i]
    BY <2>1, AheadGrows DEF Orders
  <2>3. number[i] \in Int
    BY <1>4
  <2> QED BY <2>1, <2>2, <2>3
<1>6. number \in Injection(I, 0 .. last)
  BY <1>4, <1>5 DEF Injection, IsInjective
<1>7. number \in Surjection(I, 0 .. last)
  BY <1>1, <1>3, <1>6, FS_Injection
<1>8. n - 1 \in 0 .. last
  BY <1>1, <1>2
<1> QED BY <1>7, <1>8 DEF Surjection

LEMMA LeastOf ==
    ASSUME NEW N \in SUBSET Nat, N # {}
    PROVE  \E n \in N : \A k \in N : n <= k
<1>1. \E n \in N : \A k \in N : <<k, n>> \notin OpToRel(<, Nat)
  BY NatLessThanWellFounded, WFMin, Zenon
<1>2. PICK n \in N : \A k \in N : <<k, n>> \notin OpToRel(<, Nat)
  BY <1>1
<1>3. \A k \in N : k \in Nat
  OBVIOUS
<1>4. \A k \in N : ~(k < n)
  BY <1>2, <1>3 DEF OpToRel
<1>5. \A k \in N : n <= k
  BY <1>3, <1>4
<1> QED BY <1>5

LEMMA OneOfThem == ASSUME NEW S, NEW x \in S PROVE <<x>> \in Seq(S)
OBVIOUS

LEMMA SequenceIs ==
    ASSUME NEW S, NEW n \in Nat, NEW t \in [1 .. n -> S]
    PROVE  t \in Seq(S) /\ Len(t) = n /\ DOMAIN t = 1 .. n
OBVIOUS

\* What arranging yields: all that s holds at those places and nothing else, in their order.
Holds(t, s, I, earlier) ==
    /\ \A i \in I : \E n \in DOMAIN t : t[n] = s[i]
    /\ \A n \in DOMAIN t : \E i \in I : t[n] = s[i]
    /\ \A m, n \in DOMAIN t : m < n =>
          \E i, j \in I : <<i, j>> \in earlier /\ t[m] = s[i] /\ t[n] = s[j]

LEMMA ArrangedIs ==
    ASSUME NEW S, NEW s \in Seq(S), NEW I \in SUBSET DOMAIN s, NEW earlier, Orders(I, earlier)
    PROVE  arranged(s, I, earlier) \in Seq(S) /\ Holds(arranged(s, I, earlier), s, I, earlier)
<1> DEFINE place(n) == CHOOSE i \in I : Cardinality(Ahead(I, earlier, i)) = n - 1
<1>1. IsFiniteSet(I)
  <2>1. DOMAIN s = 1 .. Len(s) /\ Len(s) \in Nat
    OBVIOUS
  <2>2. IsFiniteSet(DOMAIN s)
    BY <2>1, FS_Interval
  <2> QED BY <2>2, FS_Subset
<1>2. Cardinality(I) \in Nat
  BY <1>1, FS_CardinalityType
<1>3. \A n \in 1 .. Cardinality(I) :
         place(n) \in I /\ Cardinality(Ahead(I, earlier, place(n))) = n - 1
  BY <1>1, EveryPlaceHasANumber
<1>4. arranged(s, I, earlier) = [n \in 1 .. Cardinality(I) |-> s[place(n)]]
  BY DEF arranged, Ahead
<1>5. PICK at : at = [n \in 1 .. Cardinality(I) |-> place(n)]
  OBVIOUS
<1>6. /\ \A n \in 1 .. Cardinality(I) : at[n] \in I
      /\ \A n \in 1 .. Cardinality(I) : Cardinality(Ahead(I, earlier, at[n])) = n - 1
  BY <1>3, <1>5
<1>7. PICK t : t = arranged(s, I, earlier)
  OBVIOUS
<1>8. t = [n \in 1 .. Cardinality(I) |-> s[at[n]]]
  BY <1>4, <1>5, <1>7
<1> HIDE DEF place
<1>9. \A i \in I : s[i] \in S
  OBVIOUS
<1>10. t \in [1 .. Cardinality(I) -> S]
  BY <1>6, <1>8, <1>9
<1>11. t \in Seq(S) /\ DOMAIN t = 1 .. Cardinality(I)
  BY <1>2, <1>10, SequenceIs
<1>12. ASSUME NEW i \in I PROVE \E n \in DOMAIN t : t[n] = s[i]
  <2>1. PICK n \in Nat : n = Cardinality(Ahead(I, earlier, i)) + 1
    BY <1>1, AheadGrows
  <2>2. n \in 1 .. Cardinality(I) /\ Cardinality(Ahead(I, earlier, i)) = n - 1
    BY <1>1, <1>2, <2>1, AheadGrows
  <2>3. at[n] = i
    <3>1. SUFFICES ASSUME at[n] # i PROVE FALSE
      OBVIOUS
    <3>2. at[n] \in I /\ Cardinality(Ahead(I, earlier, at[n])) = Cardinality(Ahead(I, earlier, i))
      BY <1>6, <2>2
    <3>3. <<at[n], i>> \in earlier \/ <<i, at[n]>> \in earlier
      BY <3>1, <3>2 DEF Orders
    <3>4. \/ Cardinality(Ahead(I, earlier, at[n])) < Cardinality(Ahead(I, earlier, i))
          \/ Cardinality(Ahead(I, earlier, i)) < Cardinality(Ahead(I, earlier, at[n]))
      BY <1>1, <3>2, <3>3, AheadGrows
    <3>5. Cardinality(Ahead(I, earlier, i)) \in Nat
      BY <1>1, AheadGrows
    <3> QED BY <3>2, <3>4, <3>5
  <2> QED BY <1>8, <1>11, <2>2, <2>3
<1>13. \A n \in DOMAIN t : \E i \in I : t[n] = s[i]
  BY <1>6, <1>8, <1>11
<1>14. ASSUME NEW m \in DOMAIN t, NEW n \in DOMAIN t, m < n
       PROVE  \E i, j \in I : <<i, j>> \in earlier /\ t[m] = s[i] /\ t[n] = s[j]
  <2>1. /\ at[m] \in I /\ at[n] \in I /\ t[m] = s[at[m]] /\ t[n] = s[at[n]]
        /\ Cardinality(Ahead(I, earlier, at[m])) = m - 1
        /\ Cardinality(Ahead(I, earlier, at[n])) = n - 1
        /\ m \in Nat /\ n \in Nat
    BY <1>6, <1>8, <1>11
  <2>2. at[m] # at[n]
    BY <1>14, <2>1
  <2>3. <<at[n], at[m]>> \notin earlier
    <3>1. SUFFICES ASSUME <<at[n], at[m]>> \in earlier PROVE FALSE
      OBVIOUS
    <3>2. Cardinality(Ahead(I, earlier, at[n])) < Cardinality(Ahead(I, earlier, at[m]))
      BY <1>1, <2>1, <3>1, AheadGrows
    <3> QED BY <1>14, <2>1, <3>2
  <2>4. <<at[m], at[n]>> \in earlier
    BY <2>1, <2>2, <2>3 DEF Orders
  <2> QED BY <2>1, <2>4
<1>15. \A i \in I : \E n \in DOMAIN t : t[n] = s[i]
  BY <1>12
<1>16. \A m, n \in DOMAIN t : m < n =>
          \E i, j \in I : <<i, j>> \in earlier /\ t[m] = s[i] /\ t[n] = s[j]
  BY <1>14
<1>17. Holds(t, s, I, earlier)
  BY <1>13, <1>15, <1>16 DEF Holds
<1> QED BY <1>7, <1>11, <1>17

LEMMA SequenceOf ==
    ASSUME NEW S, NEW s \in Seq(S)
    PROVE  /\ DOMAIN s = 1 .. Len(s) /\ Len(s) \in Nat /\ s = [i \in 1 .. Len(s) |-> s[i]]
           /\ \A i \in DOMAIN s : s[i] \in S /\ i \in Nat
           /\ IsFiniteSet(DOMAIN s)
<1>1. DOMAIN s = 1 .. Len(s) /\ Len(s) \in Nat
  OBVIOUS
<1>2. IsFiniteSet(DOMAIN s)
  BY <1>1, FS_Interval
<1> QED BY <1>1, <1>2

InPlace(I) == {pair \in I \X I : pair[1] < pair[2]}

LEMMA InPlaceIs ==
    ASSUME NEW I, NEW i \in I, NEW j \in I PROVE <<i, j>> \in InPlace(I) <=> i < j
BY DEF InPlace

LEMMA PlacesAreOrdered == ASSUME NEW I \in SUBSET Nat PROVE Orders(I, InPlace(I))
BY DEF Orders, InPlace

\* A filter keeps what it is to keep, and nothing else, in the order it was in.
KeptOf(t, s, I) ==
    /\ \A i \in I : \E n \in DOMAIN t : t[n] = s[i]
    /\ \A n \in DOMAIN t : \E i \in I : t[n] = s[i]
    /\ \A m, n \in DOMAIN t : m < n => \E i, j \in I : i < j /\ t[m] = s[i] /\ t[n] = s[j]

LEMMA FilteredIs ==
    ASSUME NEW S, NEW s \in Seq(S), NEW I \in SUBSET DOMAIN s
    PROVE  filtered(s, I) \in Seq(S) /\ KeptOf(filtered(s, I), s, I)
<1>1. I \in SUBSET Nat
  BY SequenceOf
<1>2. Orders(I, InPlace(I))
  BY <1>1, PlacesAreOrdered
<1>3. filtered(s, I) = arranged(s, I, InPlace(I))
  BY DEF filtered, InPlace
<1>4. PICK t : t = filtered(s, I)
  OBVIOUS
<1>5. t \in Seq(S) /\ Holds(t, s, I, InPlace(I))
  BY <1>2, <1>3, <1>4, ArrangedIs
<1>6. \A i, j \in I : <<i, j>> \in InPlace(I) <=> i < j
  BY InPlaceIs
<1>7. KeptOf(t, s, I)
  <2>1. ASSUME NEW m \in DOMAIN t, NEW n \in DOMAIN t, m < n
        PROVE  \E i, j \in I : i < j /\ t[m] = s[i] /\ t[n] = s[j]
    <3>1. PICK i \in I, j \in I : <<i, j>> \in InPlace(I) /\ t[m] = s[i] /\ t[n] = s[j]
      BY <1>5, <2>1 DEF Holds
    <3> QED BY <1>6, <3>1
  <2>2. \A m, n \in DOMAIN t : m < n => \E i, j \in I : i < j /\ t[m] = s[i] /\ t[n] = s[j]
    BY <2>1
  <2> QED BY <1>5, <2>2 DEF Holds, KeptOf
<1> QED BY <1>4, <1>5, <1>7

\* One that keeps everything changes nothing, and one that keeps nothing leaves nothing.
LEMMA FilteredAll ==
    ASSUME NEW S, NEW s \in Seq(S)
    PROVE  filtered(s, DOMAIN s) = s /\ filtered(s, {}) = <<>>
<1> DEFINE D == DOMAIN s
           ahead(i) == {j \in D : <<j, i>> \in InPlace(D)}
<1>1. D = 1 .. Len(s) /\ Len(s) \in Nat /\ s = [i \in 1 .. Len(s) |-> s[i]]
  BY SequenceOf
<1>2. \A i \in D : Cardinality(ahead(i)) = i - 1
  <2>1. SUFFICES ASSUME NEW i \in D PROVE Cardinality(ahead(i)) = i - 1
    OBVIOUS
  <2>2. PICK last \in Int : last = i - 1
    BY <1>1
  <2>3. ahead(i) = 1 .. last
    BY <1>1, <2>2 DEF InPlace
  <2>4. Cardinality(1 .. last) = IF 1 > last THEN 0 ELSE last - 1 + 1
    BY FS_Interval
  <2>5. last \in Nat
    BY <1>1, <2>2
  <2>6. Cardinality(1 .. last) = last
    BY <2>4, <2>5
  <2> QED BY <2>2, <2>3, <2>6
<1>3. Cardinality(D) = Len(s)
  <2>1. PICK size \in Int : size = Len(s)
    BY <1>1
  <2>2. Cardinality(1 .. size) = IF 1 > size THEN 0 ELSE size - 1 + 1
    BY FS_Interval
  <2> QED BY <1>1, <2>1, <2>2
<1>4. filtered(s, D) = [n \in 1 .. Len(s) |-> s[CHOOSE i \in D : Cardinality(ahead(i)) = n - 1]]
  BY <1>3 DEF filtered, arranged, InPlace
<1>5. \A n \in 1 .. Len(s) : (CHOOSE i \in D : Cardinality(ahead(i)) = n - 1) = n
  BY <1>1, <1>2
<1> HIDE DEF ahead
<1>6. filtered(s, D) = [n \in 1 .. Len(s) |-> s[n]]
  BY <1>4, <1>5
<1>7. filtered(s, {}) \in Seq(S) /\ KeptOf(filtered(s, {}), s, {})
  BY FilteredIs
<1>8. PICK t : t = filtered(s, {})
  OBVIOUS
<1>9. t = <<>>
  <2>1. t \in Seq(S) /\ DOMAIN t = {}
    BY <1>7, <1>8 DEF KeptOf
  <2> QED BY <2>1
<1> QED BY <1>1, <1>6, <1>8, <1>9

----------------------------------------------------------------------------
(* Names and lists of them. *)

LEMMA LowerIs ==
    ASSUME NEW name \in Names
    PROVE  /\ toLowerCase(name) \in Names
           /\ toLowerCase(name).of = name.of /\ toLowerCase(name).capitals = FALSE
           /\ toLowerCase(toLowerCase(name)) = toLowerCase(name)
BY DEF Names, toLowerCase

LEMMA NameIs == ASSUME NEW name \in Names PROVE name = [of |-> name.of, capitals |-> name.capitals]
BY DEF Names

LEMMA EqualNames ==
    ASSUME NEW a \in Names, NEW b \in Names PROVE a = b <=> a.of = b.of /\ a.capitals = b.capitals
BY NameIs, Zenon

LEMMA SameName ==
    ASSUME NEW a \in Names, NEW b \in Names PROVE toLowerCase(a) = toLowerCase(b) <=> a.of = b.of
<1>1. /\ toLowerCase(a) \in Names /\ toLowerCase(b) \in Names
      /\ toLowerCase(a).of = a.of /\ toLowerCase(b).of = b.of
      /\ toLowerCase(a).capitals = toLowerCase(b).capitals
  BY LowerIs
<1> QED BY <1>1, EqualNames

LEMMA NamelessIs ==
    /\ Nameless \in Names /\ Nameless.of = "" /\ toLowerCase(Nameless) = Nameless
    /\ \A name \in Names : toLowerCase(name) = Nameless <=> name.of = ""
<1>1. "" \in Words /\ FALSE \in BOOLEAN
  BY WordsAssumption
<1>2. Nameless \in Names
  BY <1>1, Zenon DEF Nameless, Names
<1>3. Nameless.of = "" /\ Nameless.capitals = FALSE
  BY DEF Nameless
<1>4. /\ toLowerCase(Nameless) \in Names
      /\ toLowerCase(Nameless).of = "" /\ toLowerCase(Nameless).capitals = FALSE
  BY <1>2, <1>3, LowerIs
<1>5. toLowerCase(Nameless) = Nameless
  BY <1>2, <1>3, <1>4, EqualNames
<1>6. \A name \in Names : toLowerCase(name) = toLowerCase(Nameless) <=> name.of = ""
  BY <1>2, <1>3, SameName
<1> QED BY <1>2, <1>3, <1>5, <1>6

LEMMA ContainsIs ==
    ASSUME NEW S, NEW s \in Seq(S), NEW x
    PROVE  Contains(s, x) <=> \E i \in DOMAIN s : s[i] = x
BY DEF Contains

\* A list as it is kept: each name once, in lower case, and none that is empty.
Tidy(list) ==
    /\ list \in Seq(Names)
    /\ \A i \in DOMAIN list : toLowerCase(list[i]) = list[i] /\ list[i] # Nameless
    /\ \A i, j \in DOMAIN list : list[i] = list[j] => i = j

First(list) == {i \in DOMAIN list : \A j \in DOMAIN list : j < i => list[j] # list[i]}

LEMMA TidyStays == ASSUME NEW list, Tidy(list) PROVE normalizeFilterList(list) = list
<1> DEFINE lower == [i \in DOMAIN list |-> toLowerCase(list[i])]
<1>1. list \in Seq(Names) /\ DOMAIN list = 1 .. Len(list) /\ Len(list) \in Nat
      /\ list = [i \in DOMAIN list |-> list[i]]
  BY SequenceOf DEF Tidy
<1>2. lower = list
  BY <1>1 DEF Tidy
<1>3. {i \in First(list) : list[i] # Nameless} = DOMAIN list
  BY <1>1 DEF Tidy, First
<1>4. normalizeFilterList(list) = filtered(list, {i \in First(list) : list[i] # Nameless})
  BY <1>2 DEF normalizeFilterList, First
<1> QED BY <1>1, <1>3, <1>4, FilteredAll

LEMMA FirstOfEach ==
    ASSUME NEW list, NEW size \in Nat, DOMAIN list = 1 .. size, NEW i \in DOMAIN list
    PROVE  \E j \in First(list) : list[j] = list[i]
<1> DEFINE N == {j \in DOMAIN list : list[j] = list[i]}
<1>1. N \in SUBSET Nat /\ N # {}
  OBVIOUS
<1>2. PICK j \in N : \A k \in N : j <= k
  BY <1>1, LeastOf
<1>3. j \in First(list)
  <2>1. SUFFICES ASSUME NEW k \in DOMAIN list, k < j, list[k] = list[j] PROVE FALSE
    BY DEF First
  <2>2. k \in N
    BY <2>1, <1>2
  <2> QED BY <1>1, <1>2, <2>1, <2>2
<1> QED BY <1>2, <1>3

\* Whatever a list held, it is tidy when it was normalized, and of the same names.
LEMMA NormalIsTidy ==
    ASSUME NEW list \in Seq(Names)
    PROVE  /\ Tidy(normalizeFilterList(list))
           /\ \A name : Contains(normalizeFilterList(list), name) <=>
                 name # Nameless /\ \E i \in DOMAIN list : toLowerCase(list[i]) = name
<1> DEFINE mapped == [i \in DOMAIN list |-> toLowerCase(list[i])]
<1>1. PICK lower : lower = mapped
  OBVIOUS
<1>2. DOMAIN list = 1 .. Len(list) /\ Len(list) \in Nat /\ \A i \in DOMAIN list : list[i] \in Names
  BY SequenceOf
<1>3. lower \in [1 .. Len(list) -> Names]
  BY <1>1, <1>2, LowerIs
<1>4. lower \in Seq(Names) /\ DOMAIN lower = 1 .. Len(list)
  BY <1>2, <1>3, SequenceIs
<1>5. \A i \in DOMAIN lower : toLowerCase(lower[i]) = lower[i]
  BY <1>1, <1>2, <1>4, LowerIs
<1> DEFINE I == {i \in First(lower) : lower[i] # Nameless}
<1>6. PICK t : t = normalizeFilterList(list)
  OBVIOUS
<1>7. t = filtered(lower, I)
  BY <1>1, <1>6 DEF normalizeFilterList, First
<1>8. I \in SUBSET DOMAIN lower
  BY DEF First
<1>9. t \in Seq(Names) /\ KeptOf(t, lower, I)
  BY <1>4, <1>7, <1>8, FilteredIs
<1>10. DOMAIN t = 1 .. Len(t) /\ Len(t) \in Nat
  BY <1>9
<1>11. \A i \in DOMAIN t : toLowerCase(t[i]) = t[i] /\ t[i] # Nameless
  BY <1>5, <1>8, <1>9 DEF KeptOf
<1>12. \A m, n \in DOMAIN t : m < n => t[m] # t[n]
  <2>1. SUFFICES ASSUME NEW m \in DOMAIN t, NEW n \in DOMAIN t, m < n PROVE t[m] # t[n]
    OBVIOUS
  <2>2. PICK i \in I, j \in I : i < j /\ t[m] = lower[i] /\ t[n] = lower[j]
    BY <1>9, <2>1 DEF KeptOf
  <2> QED BY <2>2 DEF First
<1>13. \A m, n \in DOMAIN t : t[m] = t[n] => m = n
  BY <1>10, <1>12
<1>14. Tidy(t)
  BY <1>9, <1>11, <1>13 DEF Tidy
<1>15. ASSUME NEW name
       PROVE  Contains(t, name) <=> name # Nameless /\ \E i \in DOMAIN list : toLowerCase(list[i]) = name
  <2>1. Contains(t, name) <=> \E n \in DOMAIN t : t[n] = name
    BY <1>9, ContainsIs
  <2>2. ASSUME NEW n \in DOMAIN t, t[n] = name
        PROVE  name # Nameless /\ \E i \in DOMAIN list : toLowerCase(list[i]) = name
    BY <2>2, <1>1, <1>8, <1>9, <1>11 DEF KeptOf
  <2>3. ASSUME name # Nameless, NEW i \in DOMAIN list, toLowerCase(list[i]) = name
        PROVE  \E n \in DOMAIN t : t[n] = name
    <3>1. i \in DOMAIN lower /\ lower[i] = name
      BY <2>3, <1>1
    <3>2. PICK j \in First(lower) : lower[j] = name
      BY <1>2, <1>4, <3>1, FirstOfEach
    <3>3. j \in I
      BY <2>3, <3>2
    <3> QED BY <1>9, <3>2, <3>3 DEF KeptOf
  <2> QED BY <2>1, <2>2, <2>3
<1> QED BY <1>6, <1>14, <1>15

----------------------------------------------------------------------------
(* Sets of filters, and the forms they travel in. *)

FilterNames == {"includeApproved", "recentDrafts", "separateTeam", "separateBots", "excludedTeams", "ignoredAuthors"}

LEMMA DefaultsAre ==
    /\ DOMAIN DEFAULT_INBOX_FILTERS = FilterNames
    /\ DEFAULT_INBOX_FILTERS["includeApproved"] = FALSE /\ DEFAULT_INBOX_FILTERS["recentDrafts"] = "1d"
    /\ DEFAULT_INBOX_FILTERS["separateTeam"] = TRUE /\ DEFAULT_INBOX_FILTERS["separateBots"] = TRUE
    /\ DEFAULT_INBOX_FILTERS["excludedTeams"] = <<>> /\ DEFAULT_INBOX_FILTERS["ignoredAuthors"] = <<>>
BY DEF DEFAULT_INBOX_FILTERS, FilterNames, DEFAULT_RECENT_DRAFT_WINDOW

LEMMA WindowsAre ==
    /\ RECENT_DRAFTS_VALUES = {"off", "6h", "12h", "1d", "3d", "7d"}
    /\ DOMAIN RECENT_DRAFT_WINDOW_MS = {"6h", "12h", "1d", "3d", "7d"}
    /\ \A w \in DOMAIN RECENT_DRAFT_WINDOW_MS : RECENT_DRAFT_WINDOW_MS[w] \in 1 .. 168
BY DEF RECENT_DRAFTS_VALUES, RECENT_DRAFT_WINDOW_MS

\* What a row may hold, and what it is read as.
Legible(stored) ==
    /\ \A name \in DOMAIN stored \cap Lists : stored[name] \in Seq(Names)
    /\ \A name \in DOMAIN stored \cap {"includeApproved", "separateTeam", "separateBots"} :
          stored[name] \in BOOLEAN

Normal(f) ==
    /\ f = [name \in FilterNames |-> f[name]]
    /\ f["includeApproved"] \in BOOLEAN /\ f["separateTeam"] \in BOOLEAN /\ f["separateBots"] \in BOOLEAN
    /\ f["recentDrafts"] \in RECENT_DRAFTS_VALUES
    /\ Tidy(f["excludedTeams"]) /\ Tidy(f["ignoredAuthors"])

LEMMA NothingIsTidy == Tidy(<<>>) /\ <<>> \in Seq(Names)
BY DEF Tidy

LEMMA NormalizedIs ==
    ASSUME NEW stored, Legible(stored) PROVE Normal(normalizeInboxSettings(stored))
<1> DEFINE f == normalizeInboxSettings(stored)
<1>1. \A name \in Lists : Filled(stored, name) \in Seq(Names)
  BY DefaultsAre, NothingIsTidy DEF Filled, Legible, Lists
<1>2. \A name \in {"includeApproved", "separateTeam", "separateBots"} : Filled(stored, name) \in BOOLEAN
  BY DefaultsAre DEF Filled, Legible
<1>3. f = [name \in FilterNames |->
             IF name \in Lists THEN normalizeFilterList(Filled(stored, name))
             ELSE IF name = "recentDrafts" /\ Filled(stored, name) \notin RECENT_DRAFTS_VALUES
                  THEN DEFAULT_RECENT_DRAFT_WINDOW
                  ELSE Filled(stored, name)]
  BY DefaultsAre DEF normalizeInboxSettings
<1>4. f["excludedTeams"] = normalizeFilterList(Filled(stored, "excludedTeams"))
  BY <1>3 DEF FilterNames, Lists
<1>5. f["ignoredAuthors"] = normalizeFilterList(Filled(stored, "ignoredAuthors"))
  BY <1>3 DEF FilterNames, Lists
<1>6. Tidy(f["excludedTeams"]) /\ Tidy(f["ignoredAuthors"])
  BY <1>1, <1>4, <1>5, NormalIsTidy DEF Lists
<1>7. \A name \in {"includeApproved", "separateTeam", "separateBots"} : f[name] = Filled(stored, name)
  BY <1>3 DEF FilterNames, Lists
<1>8. f["recentDrafts"] \in RECENT_DRAFTS_VALUES
  BY <1>3, WindowsAre DEF FilterNames, Lists, DEFAULT_RECENT_DRAFT_WINDOW
<1>9. f = [name \in FilterNames |-> f[name]]
  BY <1>3
<1> QED BY <1>2, <1>6, <1>7, <1>8, <1>9 DEF Normal

LEMMA NormalIsLegible == ASSUME NEW f, Normal(f) PROVE Legible(f)
BY DEF Normal, Legible, Tidy, Lists

\* A query says what it was made of.
LEMMA QuerySays ==
    ASSUME NEW f, Normal(f)
    PROVE  /\ normalizeInboxSettings(f) = f
           /\ toInboxFilters(f) = f /\ toInboxFilters(filterParams(f)) = f
<1>1. DOMAIN f = FilterNames /\ \A name \in Lists : Tidy(f[name])
  BY DEF Normal, Lists
<1>2. \A name \in FilterNames : Filled(f, name) = f[name]
  BY <1>1 DEF Filled
<1>3. \A name \in Lists : normalizeFilterList(f[name]) = f[name] /\ name \in FilterNames
  BY <1>1, TidyStays DEF Lists, FilterNames
<1>4. \A name \in Lists : toList(f[name]) = f[name]
  <2>1. SUFFICES ASSUME NEW name \in Lists PROVE toList(f[name]) = f[name]
    OBVIOUS
  <2>2. f[name] \in Seq(Names) /\ {i \in DOMAIN f[name] : f[name][i] # Nameless} = DOMAIN f[name]
    BY <1>1 DEF Tidy
  <2> QED BY <2>2, FilteredAll DEF toList
<1>5. toList(<<Nameless>>) = <<>>
  <2>1. PICK q : q = <<Nameless>>
    OBVIOUS
  <2>2. q \in Seq(Names)
    BY <2>1, NamelessIs, OneOfThem
  <2>3. DOMAIN q = {1} /\ q[1] = Nameless
    BY <2>1
  <2>4. {i \in DOMAIN q : q[i] # Nameless} = {}
    BY <2>3
  <2>5. filtered(q, {}) = <<>>
    BY <2>2, FilteredAll
  <2>6. toList(q) = <<>>
    BY <2>4, <2>5 DEF toList
  <2> QED BY <2>1, <2>6
<1>6. normalizeInboxSettings(f) = f
  <2>1. normalizeInboxSettings(f) = [name \in FilterNames |-> f[name]]
    BY <1>2, <1>3, DefaultsAre DEF normalizeInboxSettings, Normal
  <2> QED BY <2>1 DEF Normal
<1>7. toInboxFilters(f) = f
  <2>1. toInboxFilters(f) = [name \in FilterNames |-> f[name]]
    BY <1>2, <1>3, <1>4, DefaultsAre DEF toInboxFilters
  <2> QED BY <2>1 DEF Normal
<1>8. toInboxFilters(filterParams(f)) = f
  <2> DEFINE made == [name \in FilterNames |->
                         IF name \in Lists /\ f[name] = <<>> THEN <<Nameless>> ELSE f[name]]
  <2>1. PICK q : q = made
    OBVIOUS
  <2>2. filterParams(f) = q
    BY <1>1, <2>1 DEF filterParams
  <2>3. \A name \in FilterNames : Filled(q, name) = IF name \in Lists /\ f[name] = <<>> THEN <<Nameless>> ELSE f[name]
    BY <2>1 DEF Filled
  <2>4. \A name \in Lists : normalizeFilterList(toList(Filled(q, name))) = f[name]
    <3>1. SUFFICES ASSUME NEW name \in Lists PROVE normalizeFilterList(toList(Filled(q, name))) = f[name]
      OBVIOUS
    <3>2. toList(Filled(q, name)) = f[name]
      BY <1>3, <1>4, <1>5, <2>3
    <3> QED BY <1>3, <3>2
  <2>5. \A name \in FilterNames \ Lists : Filled(q, name) = f[name]
    BY <2>3
  <2>6. toInboxFilters(q) = [name \in FilterNames |-> f[name]]
    BY <2>4, <2>5, DefaultsAre DEF toInboxFilters
  <2> QED BY <2>2, <2>6 DEF Normal
<1> QED BY <1>6, <1>7, <1>8

----------------------------------------------------------------------------
(* What GitHub said. *)

LEMMA ToSetIs ==
    ASSUME NEW s, NEW x PROVE x \in ToSet(s) <=> \E i \in DOMAIN s : s[i] = x
BY DEF ToSet

LEMMA NodeIs ==
    ASSUME NEW node \in Nodes
    PROVE  /\ node.id \in Int /\ node.number \in Int
           /\ node.by \in Names /\ node.machine \in BOOLEAN /\ node.isDraft \in BOOLEAN
           /\ node.hasUnresolvedThreads \in BOOLEAN
           /\ node.updatedAt \in (Nat \ {0}) \cup {Unread} /\ node.mergedAt \in (Nat \ {0}) \cup {Unread}
BY DEF Nodes

LEMMA EpochIs ==
    ASSUME NEW a \in (Nat \ {0}) \cup {Unread}, NEW b \in (Nat \ {0}) \cup {Unread}
    PROVE  epochMs(a) \in Nat /\ (epochMs(a) >= epochMs(b) <=> a >= b)
BY DEF epochMs, Unread

\* Everything GitHub named whole in a half is a node of it, once.
HalfFine(half) ==
    /\ normalizeSearch(facts[half]) \in Seq(Nodes)
    /\ WholeIn(half) \subseteq Nodes
    /\ \A a, b \in WholeIn(half) : a.id = b.id => a = b

GithubSaid == \E side \in Githubs : facts = side.facts /\ answer = side.answer

LEMMA SaidAtMostOnce ==
    ASSUME NEW S, NEW said \in Seq(S), Len(said) <= 1, said # Refused
    PROVE  said[1] \in S /\ said = Said(said[1])
BY DEF Refused, Said

LEMMA HalvesAreFine ==
    ASSUME GithubSaid
    PROVE  /\ \A half \in Halves : HalfFine(half)
           /\ \A a \in WholeIn("yours"), b \in WholeIn("merged") : a.id # b.id
<1>1. PICK side \in Githubs : facts = side.facts /\ answer = side.answer
  BY DEF GithubSaid
<1>2. /\ facts \in [Halves -> Seq(Seq(Nodes))]
      /\ \A half \in Halves : Len(facts[half]) <= 1
      /\ \A half \in Halves : facts[half] # Refused =>
              \A i, j \in DOMAIN facts[half][1] : facts[half][1][i].id = facts[half][1][j].id => i = j
      /\ facts.yours # Refused /\ facts.merged # Refused =>
              \A i \in DOMAIN facts.yours[1], j \in DOMAIN facts.merged[1] :
                 facts.yours[1][i].id # facts.merged[1][j].id
  BY <1>1, GithubsAssumption
<1>3. ASSUME NEW half \in Halves
      PROVE  /\ HalfFine(half)
             /\ facts[half] = Refused => WholeIn(half) = {}
             /\ \A x \in WholeIn(half) : facts[half] # Refused /\ \E i \in DOMAIN facts[half][1] : facts[half][1][i] = x
  <2>1. CASE facts[half] = Refused
    <3>1. normalizeSearch(facts[half]) = <<>>
      BY <2>1 DEF normalizeSearch
    <3>2. WholeIn(half) = {}
      BY <3>1 DEF WholeIn, ToSet
    <3> QED BY <3>1, <3>2, <2>1 DEF HalfFine
  <2>2. CASE facts[half] # Refused
    <3>1. PICK nodes \in Seq(Nodes) : nodes = facts[half][1]
      BY <1>2, <2>2, SaidAtMostOnce
    <3>2. PICK N : N = normalizeSearch(facts[half])
      OBVIOUS
    <3> DEFINE I == {i \in DOMAIN nodes : nodes[i].whole}
    <3>3. N = filtered(nodes, I)
      BY <2>2, <3>1, <3>2 DEF normalizeSearch
    <3>4. N \in Seq(Nodes) /\ KeptOf(N, nodes, I)
      BY <3>3, FilteredIs
    <3>5. \A x \in WholeIn(half) : \E n \in DOMAIN N : N[n] = x
      BY <3>2 DEF WholeIn, ToSet
    <3>6. \A x \in WholeIn(half) : x \in Nodes
      BY <3>4, <3>5
    <3>7. \A x \in WholeIn(half) : \E i \in DOMAIN nodes : nodes[i] = x
      BY <3>4, <3>5 DEF KeptOf
    <3>8. \A i, j \in DOMAIN nodes : nodes[i].id = nodes[j].id => i = j
      BY <1>2, <2>2, <3>1
    <3>9. \A a, b \in WholeIn(half) : a.id = b.id => a = b
      BY <3>7, <3>8
    <3> QED BY <2>2, <3>1, <3>2, <3>4, <3>6, <3>7, <3>9 DEF HalfFine
  <2> QED BY <2>1, <2>2
<1>4. ASSUME NEW a \in WholeIn("yours"), NEW b \in WholeIn("merged") PROVE a.id # b.id
  <2>1. facts["yours"] # Refused /\ \E i \in DOMAIN facts["yours"][1] : facts["yours"][1][i] = a
    BY <1>3 DEF Halves
  <2>2. facts["merged"] # Refused /\ \E i \in DOMAIN facts["merged"][1] : facts["merged"][1][i] = b
    BY <1>3 DEF Halves
  <2> QED BY <1>2, <2>1, <2>2
<1> QED BY <1>3, <1>4

\* Newest first, whatever the timestamps are.
LEMMA NewestIs ==
    ASSUME NEW nodes \in Seq(Nodes), NEW timestamp \in [DOMAIN nodes -> Int]
    PROVE  /\ Newest(nodes, timestamp) \in Seq(Nodes)
           /\ \A i \in DOMAIN nodes : \E n \in DOMAIN Newest(nodes, timestamp) : Newest(nodes, timestamp)[n] = nodes[i]
           /\ \A n \in DOMAIN Newest(nodes, timestamp) : \E i \in DOMAIN nodes : Newest(nodes, timestamp)[n] = nodes[i]
           /\ \A m, n \in DOMAIN Newest(nodes, timestamp) : m < n =>
                 \E i, j \in DOMAIN nodes : /\ timestamp[i] >= timestamp[j]
                                            /\ Newest(nodes, timestamp)[m] = nodes[i]
                                            /\ Newest(nodes, timestamp)[n] = nodes[j]
<1> DEFINE P == DOMAIN nodes
           sooner(a, b) ==
            \/ timestamp[a] > timestamp[b]
            \/ timestamp[a] = timestamp[b] /\ nodes[a].number > nodes[b].number
            \/ timestamp[a] = timestamp[b] /\ nodes[a].number = nodes[b].number /\ a < b
           earlier == {pair \in P \X P : sooner(pair[1], pair[2])}
<1>1. \A i \in P : timestamp[i] \in Int /\ nodes[i].number \in Int /\ i \in Nat
  BY SequenceOf, NodeIs
<1>2. \A i, j \in P : <<i, j>> \in earlier <=> sooner(i, j)
  OBVIOUS
<1>3. \A i \in P : ~sooner(i, i)
  BY <1>1
<1>4. \A i, j \in P : i # j => sooner(i, j) \/ sooner(j, i)
  BY <1>1
<1>5. \A i, j, k \in P : sooner(i, j) /\ sooner(j, k) => sooner(i, k)
  BY <1>1
<1>6. \A i, j \in P : sooner(i, j) => timestamp[i] >= timestamp[j]
  BY <1>1
<1>7. PICK t : t = Newest(nodes, timestamp)
  OBVIOUS
<1>8. t = arranged(nodes, P, earlier)
  BY <1>7 DEF Newest
<1> HIDE DEF sooner
<1>9. PICK e : e = earlier
  OBVIOUS
<1>10. \A i, j \in P : <<i, j>> \in e <=> sooner(i, j)
  BY <1>2, <1>9
<1>11. Orders(P, e)
  BY <1>3, <1>4, <1>5, <1>10 DEF Orders
<1>12. t \in Seq(Nodes) /\ Holds(t, nodes, P, e)
  BY <1>8, <1>9, <1>11, ArrangedIs
<1>13. \A m, n \in DOMAIN t : m < n =>
                 \E i, j \in P : timestamp[i] >= timestamp[j] /\ t[m] = nodes[i] /\ t[n] = nodes[j]
  <2>1. SUFFICES ASSUME NEW m \in DOMAIN t, NEW n \in DOMAIN t, m < n
                 PROVE  \E i, j \in P : timestamp[i] >= timestamp[j] /\ t[m] = nodes[i] /\ t[n] = nodes[j]
    OBVIOUS
  <2>2. PICK i \in P, j \in P : <<i, j>> \in e /\ t[m] = nodes[i] /\ t[n] = nodes[j]
    BY <1>12, <2>1 DEF Holds
  <2> QED BY <1>6, <1>10, <2>2
<1>14. /\ \A i \in P : \E n \in DOMAIN t : t[n] = nodes[i]
       /\ \A n \in DOMAIN t : \E i \in P : t[n] = nodes[i]
  BY <1>12 DEF Holds
<1> QED BY <1>7, <1>12, <1>13, <1>14

----------------------------------------------------------------------------
(* What a snapshot holds. *)

LEMMA IdsAre ==
    ASSUME NEW S, NEW rows \in Seq(S), \A x \in S : x.id \in Int
    PROVE  /\ Ids(rows) \in Seq(Int) /\ DOMAIN Ids(rows) = DOMAIN rows
           /\ \A i \in DOMAIN rows : Ids(rows)[i] = rows[i].id
           /\ \A id : Contains(Ids(rows), id) <=> \E i \in DOMAIN rows : rows[i].id = id
<1>1. DOMAIN rows = 1 .. Len(rows) /\ Len(rows) \in Nat /\ \A i \in DOMAIN rows : rows[i] \in S
  BY SequenceOf
<1>2. PICK ids : ids = Ids(rows)
  OBVIOUS
<1>3. ids = [i \in DOMAIN rows |-> rows[i].id]
  BY <1>2 DEF Ids
<1>4. ids \in [1 .. Len(rows) -> Int]
  BY <1>1, <1>3
<1>5. ids \in Seq(Int) /\ DOMAIN ids = DOMAIN rows
  BY <1>1, <1>4, SequenceIs
<1>6. \A id : Contains(ids, id) <=> \E i \in DOMAIN ids : ids[i] = id
  BY <1>5, ContainsIs
<1> QED BY <1>2, <1>3, <1>5, <1>6

LEMMA RecencyIs ==
    ASSUME NEW nodes \in Seq(Nodes)
    PROVE  /\ byRecency(nodes) \in Seq(Nodes)
           /\ \A i \in DOMAIN nodes : \E n \in DOMAIN byRecency(nodes) : byRecency(nodes)[n] = nodes[i]
           /\ \A n \in DOMAIN byRecency(nodes) : \E i \in DOMAIN nodes : byRecency(nodes)[n] = nodes[i]
           /\ \A m, n \in DOMAIN byRecency(nodes) : m < n =>
                 byRecency(nodes)[m].updatedAt >= byRecency(nodes)[n].updatedAt
<1> DEFINE stamps == [i \in DOMAIN nodes |-> epochMs(nodes[i].updatedAt)]
<1>1. PICK timestamp : timestamp = stamps
  OBVIOUS
<1>2. \A i \in DOMAIN nodes : nodes[i] \in Nodes /\ nodes[i].updatedAt \in (Nat \ {0}) \cup {Unread}
  BY SequenceOf, NodeIs
<1>3. \A i \in DOMAIN nodes : timestamp[i] = epochMs(nodes[i].updatedAt) /\ timestamp[i] \in Nat
  BY <1>1, <1>2, EpochIs
<1>4. timestamp \in [DOMAIN nodes -> Int]
  BY <1>1, <1>3
<1>5. PICK t : t = Newest(nodes, timestamp)
  OBVIOUS
<1>6. t = byRecency(nodes)
  BY <1>1, <1>5 DEF byRecency
<1>7. /\ t \in Seq(Nodes)
      /\ \A i \in DOMAIN nodes : \E n \in DOMAIN t : t[n] = nodes[i]
      /\ \A n \in DOMAIN t : \E i \in DOMAIN nodes : t[n] = nodes[i]
      /\ \A m, n \in DOMAIN t : m < n =>
            \E i, j \in DOMAIN nodes : timestamp[i] >= timestamp[j] /\ t[m] = nodes[i] /\ t[n] = nodes[j]
  BY <1>4, <1>5, NewestIs
<1>8. \A m, n \in DOMAIN t : m < n => t[m].updatedAt >= t[n].updatedAt
  <2>1. SUFFICES ASSUME NEW m \in DOMAIN t, NEW n \in DOMAIN t, m < n PROVE t[m].updatedAt >= t[n].updatedAt
    OBVIOUS
  <2>2. PICK i \in DOMAIN nodes, j \in DOMAIN nodes :
            timestamp[i] >= timestamp[j] /\ t[m] = nodes[i] /\ t[n] = nodes[j]
    BY <1>7, <2>1
  <2>3. epochMs(nodes[i].updatedAt) >= epochMs(nodes[j].updatedAt)
    BY <1>3, <2>2
  <2>4. nodes[i].updatedAt >= nodes[j].updatedAt
    BY <1>2, <2>3, EpochIs
  <2> QED BY <2>2, <2>4
<1> QED BY <1>6, <1>7, <1>8

LEMMA MergedRecencyIs ==
    ASSUME NEW nodes \in Seq(Nodes)
    PROVE  /\ byMergedRecency(nodes) \in Seq(Nodes)
           /\ \A i \in DOMAIN nodes : \E n \in DOMAIN byMergedRecency(nodes) : byMergedRecency(nodes)[n] = nodes[i]
           /\ \A n \in DOMAIN byMergedRecency(nodes) : \E i \in DOMAIN nodes : byMergedRecency(nodes)[n] = nodes[i]
<1> DEFINE stamps == [i \in DOMAIN nodes |-> epochMs(nodes[i].mergedAt)]
<1>1. PICK timestamp : timestamp = stamps
  OBVIOUS
<1>2. \A i \in DOMAIN nodes : nodes[i] \in Nodes /\ nodes[i].mergedAt \in (Nat \ {0}) \cup {Unread}
  BY SequenceOf, NodeIs
<1>3. \A i \in DOMAIN nodes : timestamp[i] \in Nat
  BY <1>1, <1>2, EpochIs
<1>4. timestamp \in [DOMAIN nodes -> Int]
  BY <1>1, <1>3
<1>5. PICK t : t = Newest(nodes, timestamp)
  OBVIOUS
<1>6. t = byMergedRecency(nodes)
  BY <1>1, <1>5 DEF byMergedRecency
<1>7. /\ t \in Seq(Nodes)
      /\ \A i \in DOMAIN nodes : \E n \in DOMAIN t : t[n] = nodes[i]
      /\ \A n \in DOMAIN t : \E i \in DOMAIN nodes : t[n] = nodes[i]
  BY <1>4, <1>5, NewestIs
<1> QED BY <1>6, <1>7

\* A heading holds the pull requests of its section, the one that moved last first.
Heading(g, nodes, f, key) ==
    /\ g \in Seq(Int)
    /\ \A id : Contains(g, id) <=> \E i \in DOMAIN nodes : nodes[i].id = id /\ yoursSection(nodes[i], f) = key
    /\ \A m, n \in DOMAIN g : m < n =>
          \E i, j \in DOMAIN nodes : nodes[i].id = g[m] /\ nodes[j].id = g[n] /\ nodes[i].updatedAt >= nodes[j].updatedAt

LEMMA GroupIs ==
    ASSUME NEW nodes \in Seq(Nodes), NEW f, NEW key \in YOURS_SECTIONS
    PROVE  Heading(group(nodes, f)[key], nodes, f, key)
<1> DEFINE I == {i \in DOMAIN nodes : yoursSection(nodes[i], f) = key}
<1>1. PICK k : k = filtered(nodes, I)
  OBVIOUS
<1>2. k \in Seq(Nodes) /\ KeptOf(k, nodes, I)
  BY <1>1, FilteredIs
<1>3. PICK t : t = byRecency(k)
  OBVIOUS
<1>4. /\ t \in Seq(Nodes)
      /\ \A i \in DOMAIN k : \E n \in DOMAIN t : t[n] = k[i]
      /\ \A n \in DOMAIN t : \E i \in DOMAIN k : t[n] = k[i]
      /\ \A m, n \in DOMAIN t : m < n => t[m].updatedAt >= t[n].updatedAt
  BY <1>2, <1>3, RecencyIs
<1>5. PICK g : g = Ids(t)
  OBVIOUS
<1>6. /\ g \in Seq(Int) /\ DOMAIN g = DOMAIN t
      /\ \A i \in DOMAIN t : g[i] = t[i].id
      /\ \A id : Contains(g, id) <=> \E i \in DOMAIN t : t[i].id = id
  <2>1. \A x \in Nodes : x.id \in Int
    BY NodeIs
  <2> QED BY <1>4, <1>5, <2>1, IdsAre
<1>7. group(nodes, f)[key] = g
  BY <1>1, <1>3, <1>5 DEF group
<1>8. \A n \in DOMAIN t : \E i \in I : t[n] = nodes[i]
  BY <1>2, <1>4 DEF KeptOf
<1>9. \A i \in I : \E n \in DOMAIN t : t[n] = nodes[i]
  BY <1>2, <1>4 DEF KeptOf
<1>10. \A id : Contains(g, id) <=> \E i \in DOMAIN nodes : nodes[i].id = id /\ yoursSection(nodes[i], f) = key
  BY <1>6, <1>8, <1>9
<1>11. \A m, n \in DOMAIN g : m < n =>
          \E i, j \in DOMAIN nodes : nodes[i].id = g[m] /\ nodes[j].id = g[n] /\ nodes[i].updatedAt >= nodes[j].updatedAt
  <2>1. SUFFICES ASSUME NEW m \in DOMAIN g, NEW n \in DOMAIN g, m < n
                 PROVE  \E i, j \in DOMAIN nodes : nodes[i].id = g[m] /\ nodes[j].id = g[n] /\ nodes[i].updatedAt >= nodes[j].updatedAt
    OBVIOUS
  <2>2. PICK i \in I : t[m] = nodes[i]
    BY <1>6, <1>8
  <2>3. PICK j \in I : t[n] = nodes[j]
    BY <1>6, <1>8
  <2>4. nodes[i].id = g[m] /\ nodes[j].id = g[n] /\ nodes[i].updatedAt >= nodes[j].updatedAt
    BY <1>4, <1>6, <2>1, <2>2, <2>3
  <2> QED BY <2>4
<1>12. Heading(g, nodes, f, key)
  BY <1>6, <1>10, <1>11 DEF Heading
<1> QED BY <1>7, <1>12

----------------------------------------------------------------------------
(* Teams, and who is in them. *)

\* Teams are as they are drawn: named by GitHub, with the members it listed.
TeamsFine(teams) ==
    teams # Refused =>
        /\ teams[1] \in Seq(Names)
        /\ \A team \in ToSet(teams[1]) :
              team \in DOMAIN answer.members /\ team \in Names /\ answer.members[team][1] \in SUBSET Names

LEMMA TeamsOfAnswer ==
    ASSUME GithubSaid
    PROVE  /\ answer.named \in Seq(Seq(Names)) /\ Len(answer.named) <= 1
           /\ \A team \in DOMAIN answer.members :
                 team \in Names /\ team.of # "" /\ answer.members[team] \in Seq(SUBSET Names)
           /\ answer.named # Refused => ToSet(answer.named[1]) \subseteq DOMAIN answer.members
<1>1. PICK side \in Githubs : facts = side.facts /\ answer = side.answer
  BY DEF GithubSaid
<1> QED BY <1>1, GithubsAssumption

LEMMA LoadIs ==
    ASSUME GithubSaid
    PROVE  /\ TeamsFine(load(answer))
           /\ answer.named \notin {Refused, Said(<<>>)} => load(answer) # Said(<<>>)
<1>1. PICK gave : gave = answer
  OBVIOUS
<1>2. /\ gave.named \in Seq(Seq(Names)) /\ Len(gave.named) <= 1
      /\ \A team \in DOMAIN gave.members :
            team \in Names /\ team.of # "" /\ gave.members[team] \in Seq(SUBSET Names)
      /\ gave.named # Refused => ToSet(gave.named[1]) \subseteq DOMAIN gave.members
  BY <1>1, TeamsOfAnswer
<1>3. Refused # Said(<<>>)
  BY DEF Refused, Said
<1>4. CASE gave.named = Refused
  <2>1. load(gave) = Refused
    BY <1>4 DEF load
  <2> QED BY <1>1, <1>3, <2>1 DEF TeamsFine
<1>5. CASE gave.named # Refused
  <2>1. PICK named \in Seq(Names) : named = gave.named[1] /\ gave.named = Said(named)
    BY <1>2, <1>5, SaidAtMostOnce
  <2> DEFINE asked    == {i \in DOMAIN named : i <= MaxTeams}
             resolved == {i \in asked : gave.members[named[i]] # Refused}
  <2>2. PICK l : l = filtered(named, resolved)
    OBVIOUS
  <2>3. l \in Seq(Names) /\ KeptOf(l, named, resolved)
    <3>1. resolved \in SUBSET DOMAIN named
      OBVIOUS
    <3> QED BY <2>2, <3>1, FilteredIs
  <2>4. load(gave) = IF asked # {} /\ resolved = {} THEN Refused ELSE Said(l)
    BY <1>5, <2>1, <2>2 DEF load
  <2>5. Said(l)[1] = l /\ \A k : Said(l) = Said(k) => l = k
    BY DEF Said
  <2>6. \A team \in ToSet(l) : team \in DOMAIN gave.members /\ gave.members[team] # Refused
    <3>1. SUFFICES ASSUME NEW team \in ToSet(l) PROVE team \in DOMAIN gave.members /\ gave.members[team] # Refused
      OBVIOUS
    <3>2. PICK i \in resolved : team = named[i]
      BY <2>3, ToSetIs DEF KeptOf
    <3>3. team \in ToSet(named)
      BY <3>2, ToSetIs
    <3> QED BY <1>2, <1>5, <2>1, <3>2, <3>3
  <2>7. \A team \in ToSet(l) : gave.members[team][1] \in SUBSET Names /\ team \in Names
    <3>1. SUFFICES ASSUME NEW team \in ToSet(l) PROVE gave.members[team][1] \in SUBSET Names /\ team \in Names
      OBVIOUS
    <3>2. PICK who \in Seq(SUBSET Names) : who = gave.members[team] /\ who # <<>>
      BY <1>2, <2>6 DEF Refused
    <3>3. who[1] \in SUBSET Names
      BY <3>2
    <3> QED BY <1>2, <2>6, <3>2, <3>3
  <2>8. TeamsFine(load(gave))
    BY <1>1, <2>3, <2>4, <2>5, <2>6, <2>7 DEF TeamsFine
  <2>9. ASSUME gave.named # Said(<<>>), load(gave) = Said(<<>>) PROVE FALSE
    <3>1. named # <<>>
      BY <2>1, <2>9
    <3>2. 1 \in asked
      BY <2>1, <3>1, BoundsAssumption
    <3>3. Said(l) = Said(<<>>) /\ resolved # {}
      BY <1>3, <2>4, <2>9, <3>2
    <3>4. l = <<>>
      BY <2>5, <3>3
    <3> QED BY <2>3, <3>3, <3>4 DEF KeptOf
  <2> QED BY <1>1, <2>8, <2>9
<1> QED BY <1>4, <1>5

LEMMA AuthorIs == ASSUME NEW node \in Nodes PROVE authorLogin(node) \in Names
<1>1. "ghost" \in Words /\ FALSE \in BOOLEAN
  BY WordsAssumption
<1>2. [of |-> "ghost", capitals |-> FALSE] \in Names
  BY <1>1, Zenon DEF Names
<1> QED BY <1>2, NodeIs DEF authorLogin

LEMMA TeamsByMemberAre ==
    ASSUME NEW teams, TeamsFine(teams), NEW login \in Names
    PROVE  /\ teamsByMember(teams, login) \in SUBSET Names
           /\ \A key : key \in teamsByMember(teams, login) <=>
                 /\ teams # Refused
                 /\ \E team \in ToSet(teams[1]) :
                       key = KeyOf(team) /\ \E member \in answer.members[team][1] : member.of = login.of
<1>1. CASE teams = Refused
  BY <1>1 DEF teamsByMember
<1>2. CASE teams # Refused
  <2>1. \A team \in ToSet(teams[1]) :
           /\ KeyOf(team) \in Names
           /\ \A member \in answer.members[team][1] : toLowerCase(login) = toLowerCase(member) <=> member.of = login.of
    <3>1. SUFFICES ASSUME NEW team \in ToSet(teams[1])
                   PROVE  /\ KeyOf(team) \in Names
                          /\ \A member \in answer.members[team][1] :
                                toLowerCase(login) = toLowerCase(member) <=> member.of = login.of
      OBVIOUS
    <3>2. team \in Names /\ answer.members[team][1] \in SUBSET Names
      BY <1>2, <3>1 DEF TeamsFine
    <3>3. KeyOf(team) \in Names
      BY <3>2, LowerIs DEF KeyOf
    <3>4. \A member \in answer.members[team][1] : toLowerCase(login) = toLowerCase(member) <=> login.of = member.of
      BY <3>2, SameName
    <3> QED BY <3>3, <3>4
  <2>2. \A team \in ToSet(teams[1]) :
           toLowerCase(login) \in {toLowerCase(member) : member \in answer.members[team][1]} <=>
              \E member \in answer.members[team][1] : member.of = login.of
    BY <2>1
  <2>3. \A key : key \in teamsByMember(teams, login) <=>
           \E team \in ToSet(teams[1]) :
              key = KeyOf(team) /\ \E member \in answer.members[team][1] : member.of = login.of
    BY <1>2, <2>2 DEF teamsByMember
  <2> QED BY <1>2, <2>1, <2>3
<1> QED BY <1>1, <1>2

----------------------------------------------------------------------------
(* A snapshot that was built under some filters is sorted by them. *)

StoredRows == [id : Int, author : Names, authorIsBot : BOOLEAN, authorTeams : SUBSET Names]

YoursSorted(yours, f) ==
    /\ DOMAIN yours = YOURS_SECTIONS
    /\ \A key \in YOURS_SECTIONS : yours[key] \in Seq(Int)
    /\ \A key \in YOURS_SECTIONS \ {"merged"}, id \in Int :
          Contains(yours[key], id) <=> \E node \in WholeIn("yours") : node.id = id /\ yoursSection(node, f) = key
    /\ \A id \in Int : Contains(yours["merged"], id) <=> \E node \in WholeIn("merged") : node.id = id
    /\ \A key \in YOURS_SECTIONS \ {"merged"} :
          \A m, n \in DOMAIN yours[key] : m < n =>
             \E a, b \in WholeIn("yours") :
                a.id = yours[key][m] /\ b.id = yours[key][n] /\ a.updatedAt >= b.updatedAt

WaitingSorted(rows, teams, f) ==
    /\ rows \in Seq(StoredRows)
    /\ \A i \in DOMAIN rows : \E node \in WholeIn("waitingOnYou") :
          isWaitingOnYou(node, f) /\ rows[i] = toStoredPullRequest(node, teams)
    /\ \A node \in WholeIn("waitingOnYou") : isWaitingOnYou(node, f) =>
          \E i \in DOMAIN rows : rows[i] = toStoredPullRequest(node, teams)

SortedBy(snapshot, f) ==
    /\ snapshot # NoSnapshot
    /\ TeamsFine(snapshot.teams)
    /\ answer.named \notin {Refused, Said(<<>>)} => snapshot.teams # Said(<<>>)
    /\ YoursSorted(snapshot.yours, f)
    /\ WaitingSorted(snapshot.waitingOnYou, snapshot.teams, f)

LEMMA StoredRowIs ==
    ASSUME NEW node \in Nodes, NEW teams, TeamsFine(teams)
    PROVE  /\ toStoredPullRequest(node, teams) \in StoredRows
           /\ toStoredPullRequest(node, teams).id = node.id
           /\ toStoredPullRequest(node, teams).author = authorLogin(node)
           /\ toStoredPullRequest(node, teams).authorIsBot = authorIsBot(node)
           /\ toStoredPullRequest(node, teams).authorTeams = teamsByMember(teams, authorLogin(node))
<1>1. authorLogin(node) \in Names /\ authorIsBot(node) \in BOOLEAN
  BY AuthorIs, NodeIs DEF authorIsBot
<1>2. teamsByMember(teams, authorLogin(node)) \in SUBSET Names
  BY <1>1, TeamsByMemberAre
<1> QED BY <1>1, <1>2, NodeIs DEF toStoredPullRequest, StoredRows

LEMMA WholeOfHalf ==
    ASSUME NEW half, HalfFine(half)
    PROVE  /\ \A node \in WholeIn(half) : node \in Nodes /\
                 \E i \in DOMAIN normalizeSearch(facts[half]) : normalizeSearch(facts[half])[i] = node
           /\ \A i \in DOMAIN normalizeSearch(facts[half]) : normalizeSearch(facts[half])[i] \in WholeIn(half)
BY ToSetIs DEF WholeIn, HalfFine

LEMMA YoursAreSorted ==
    ASSUME GithubSaid, NEW f
    PROVE  YoursSorted(classify(f).yours, f)
<1>1. HalfFine("yours") /\ HalfFine("merged")
  BY HalvesAreFine DEF Halves
<1>2. PICK mine : mine = normalizeSearch(facts["yours"])
  OBVIOUS
<1>3. PICK merged : merged = normalizeSearch(facts["merged"])
  OBVIOUS
<1>4. mine \in Seq(Nodes) /\ merged \in Seq(Nodes)
  BY <1>1, <1>2, <1>3 DEF HalfFine
<1>5. PICK g : g = group(mine, f)
  OBVIOUS
<1>6. PICK m : m = Ids(byMergedRecency(merged))
  OBVIOUS
<1>7. DOMAIN g = YOURS_SECTIONS
  BY <1>5 DEF group
<1>8. PICK yours : yours = classify(f).yours
  OBVIOUS
<1>9. yours = [g EXCEPT !["merged"] = m]
  BY <1>2, <1>3, <1>5, <1>6, <1>8 DEF classify
<1>10. /\ DOMAIN yours = YOURS_SECTIONS /\ yours["merged"] = m
       /\ \A key \in YOURS_SECTIONS \ {"merged"} : yours[key] = g[key]
  BY <1>7, <1>9 DEF YOURS_SECTIONS
<1>11. /\ \A node \in WholeIn("yours") : \E i \in DOMAIN mine : mine[i] = node
       /\ \A i \in DOMAIN mine : mine[i] \in WholeIn("yours")
       /\ \A node \in WholeIn("merged") : \E i \in DOMAIN merged : merged[i] = node
       /\ \A i \in DOMAIN merged : merged[i] \in WholeIn("merged")
  BY <1>1, <1>2, <1>3, WholeOfHalf
<1>12. m \in Seq(Int) /\ \A id \in Int : Contains(m, id) <=> \E node \in WholeIn("merged") : node.id = id
  <2>1. PICK t : t = byMergedRecency(merged)
    OBVIOUS
  <2>2. /\ t \in Seq(Nodes)
        /\ \A i \in DOMAIN merged : \E n \in DOMAIN t : t[n] = merged[i]
        /\ \A n \in DOMAIN t : \E i \in DOMAIN merged : t[n] = merged[i]
    BY <1>4, <2>1, MergedRecencyIs
  <2>3. \A x \in Nodes : x.id \in Int
    BY NodeIs
  <2>4. m \in Seq(Int) /\ \A id : Contains(m, id) <=> \E i \in DOMAIN t : t[i].id = id
    BY <1>6, <2>1, <2>2, <2>3, IdsAre
  <2> QED BY <1>11, <2>2, <2>4
<1>13. ASSUME NEW key \in YOURS_SECTIONS \ {"merged"}
       PROVE  /\ yours[key] \in Seq(Int)
              /\ \A id \in Int : Contains(yours[key], id) <=>
                    \E node \in WholeIn("yours") : node.id = id /\ yoursSection(node, f) = key
              /\ \A i, j \in DOMAIN yours[key] : i < j =>
                    \E a, b \in WholeIn("yours") :
                       a.id = yours[key][i] /\ b.id = yours[key][j] /\ a.updatedAt >= b.updatedAt
  <2>1. PICK h : h = group(mine, f)[key]
    OBVIOUS
  <2>5. key \in YOURS_SECTIONS /\ h = g[key]
    BY <1>5, <1>13, <2>1
  <2>2. Heading(h, mine, f, key)
    BY <1>4, <2>1, <2>5, GroupIs
  <2>3. \A id \in Int : Contains(h, id) <=>
           \E node \in WholeIn("yours") : node.id = id /\ yoursSection(node, f) = key
    BY <1>11, <2>2 DEF Heading
  <2>4. \A i, j \in DOMAIN h : i < j =>
           \E a, b \in WholeIn("yours") : a.id = h[i] /\ b.id = h[j] /\ a.updatedAt >= b.updatedAt
    BY <1>11, <2>2 DEF Heading
  <2> QED BY <1>10, <2>2, <2>3, <2>4, <2>5 DEF Heading
<1>14. \A key \in YOURS_SECTIONS : yours[key] \in Seq(Int)
  BY <1>10, <1>12, <1>13
<1>15. YoursSorted(yours, f)
  BY <1>10, <1>12, <1>13, <1>14 DEF YoursSorted
<1> QED BY <1>8, <1>15

LEMMA WaitingIsSorted ==
    ASSUME GithubSaid, NEW f
    PROVE  WaitingSorted(classify(f).waitingOnYou, load(answer), f)
<1>1. HalfFine("waitingOnYou")
  BY HalvesAreFine DEF Halves
<1>2. PICK others \in Seq(Nodes) : others = normalizeSearch(facts["waitingOnYou"])
  BY <1>1 DEF HalfFine
<1>3. PICK teams : teams = load(answer) /\ TeamsFine(teams)
  BY LoadIs
<1> DEFINE I == {i \in DOMAIN others : isWaitingOnYou(others[i], f)}
<1>4. PICK k : k = filtered(others, I)
  OBVIOUS
<1>5. k \in Seq(Nodes) /\ KeptOf(k, others, I)
  BY <1>4, FilteredIs
<1>6. PICK t : t = byRecency(k)
  OBVIOUS
<1>7. /\ t \in Seq(Nodes)
      /\ \A i \in DOMAIN k : \E n \in DOMAIN t : t[n] = k[i]
      /\ \A n \in DOMAIN t : \E i \in DOMAIN k : t[n] = k[i]
  BY <1>5, <1>6, RecencyIs
<1>8. PICK rows : rows = classify(f).waitingOnYou
  OBVIOUS
<1>9. rows = [i \in DOMAIN t |-> toStoredPullRequest(t[i], teams)]
  BY <1>2, <1>3, <1>4, <1>6, <1>8 DEF classify
<1>10. rows \in Seq(StoredRows) /\ DOMAIN rows = DOMAIN t
  <2>1. DOMAIN t = 1 .. Len(t) /\ Len(t) \in Nat /\ \A i \in DOMAIN t : t[i] \in Nodes
    BY <1>7, SequenceOf
  <2>2. \A i \in DOMAIN t : toStoredPullRequest(t[i], teams) \in StoredRows
    BY <1>3, <2>1, StoredRowIs
  <2>3. rows \in [1 .. Len(t) -> StoredRows]
    BY <1>9, <2>1, <2>2
  <2> QED BY <2>1, <2>3, SequenceIs
<1>11. /\ \A node \in WholeIn("waitingOnYou") : \E i \in DOMAIN others : others[i] = node
       /\ \A i \in DOMAIN others : others[i] \in WholeIn("waitingOnYou")
  BY <1>1, <1>2, WholeOfHalf
<1>12. \A n \in DOMAIN t : \E i \in I : t[n] = others[i]
  BY <1>5, <1>7 DEF KeptOf
<1>13. \A i \in I : \E n \in DOMAIN t : t[n] = others[i]
  BY <1>5, <1>7 DEF KeptOf
<1>14. \A i \in DOMAIN rows : \E node \in WholeIn("waitingOnYou") :
          isWaitingOnYou(node, f) /\ rows[i] = toStoredPullRequest(node, teams)
  BY <1>9, <1>10, <1>11, <1>12
<1>15. \A node \in WholeIn("waitingOnYou") : isWaitingOnYou(node, f) =>
          \E i \in DOMAIN rows : rows[i] = toStoredPullRequest(node, teams)
  <2>1. SUFFICES ASSUME NEW node \in WholeIn("waitingOnYou"), isWaitingOnYou(node, f)
                 PROVE  \E i \in DOMAIN rows : rows[i] = toStoredPullRequest(node, teams)
    OBVIOUS
  <2>2. PICK i \in I : others[i] = node
    BY <1>11, <2>1
  <2>3. PICK n \in DOMAIN t : t[n] = node
    BY <1>13, <2>2
  <2> QED BY <1>9, <1>10, <2>3
<1>16. WaitingSorted(rows, teams, f)
  BY <1>10, <1>14, <1>15 DEF WaitingSorted
<1> QED BY <1>3, <1>8, <1>16

LEMMA ClassifySorts ==
    ASSUME GithubSaid, NEW f
    PROVE  SortedBy(classify(f), f)
<1>1. classify(f).teams = load(answer) /\ classify(f).at = "filed"
  BY DEF classify
<1>2. classify(f) # NoSnapshot
  BY <1>1 DEF NoSnapshot
<1> QED BY <1>1, <1>2, LoadIs, YoursAreSorted, WaitingIsSorted DEF SortedBy

\* Only the filters of the key have a say in it.
LEMMA KeyDecides ==
    ASSUME NEW f, NEW g, inboxFiltersKey(f) = inboxFiltersKey(g), NEW snapshot, SortedBy(snapshot, f)
    PROVE  SortedBy(snapshot, g)
<1>1. f.includeApproved = g.includeApproved /\ f.recentDrafts = g.recentDrafts
  BY DEF inboxFiltersKey
<1>2. \A node : yoursSection(node, f) = yoursSection(node, g)
  BY <1>1 DEF yoursSection
<1>3. \A node : isWaitingOnYou(node, f) <=> isWaitingOnYou(node, g)
  BY <1>1 DEF isWaitingOnYou
<1>4. YoursSorted(snapshot.yours, g)
  BY <1>2 DEF SortedBy, YoursSorted
<1>5. WaitingSorted(snapshot.waitingOnYou, snapshot.teams, g)
  BY <1>3 DEF SortedBy, WaitingSorted
<1> QED BY <1>4, <1>5 DEF SortedBy

----------------------------------------------------------------------------
(* A press. *)

LEMMA FilterNamesAre == Lists \subseteq FilterNames
BY DEF Lists, FilterNames

Allowed(key, value) ==
    /\ key \in FilterNames
    /\ key \in {"includeApproved", "separateTeam", "separateBots"} => value \in BOOLEAN
    /\ key = "recentDrafts" => value \in RECENT_DRAFTS_VALUES
    /\ key \in Lists => Tidy(value)

With(f, key, value, g) ==
    Normal(g) /\ g[key] = value /\ \A name \in FilterNames \ {key} : g[name] = f[name]

LEMMA WithIsNormal ==
    ASSUME NEW f, Normal(f), NEW key, NEW value, Allowed(key, value)
    PROVE  With(f, key, value, [f EXCEPT ![key] = value])
<1>1. PICK g : g = [f EXCEPT ![key] = value]
  OBVIOUS
<1>2. DOMAIN f = FilterNames
  BY DEF Normal
<1>3. /\ g = [name \in FilterNames |-> g[name]] /\ g[key] = value
      /\ \A name \in FilterNames \ {key} : g[name] = f[name]
  BY <1>1, <1>2 DEF Allowed
<1>4. \A name \in FilterNames :
         /\ name \in {"includeApproved", "separateTeam", "separateBots"} => g[name] \in BOOLEAN
         /\ name = "recentDrafts" => g[name] \in RECENT_DRAFTS_VALUES
         /\ name \in {"excludedTeams", "ignoredAuthors"} => Tidy(g[name])
  BY <1>3 DEF Normal, Allowed, Lists
<1>5. Normal(g)
  BY <1>3, <1>4 DEF Normal, FilterNames
<1> QED BY <1>1, <1>3, <1>5 DEF With

\* What a save leaves, and what the page is then shown under.
LEMMA SaveLeaves ==
    ASSUME NEW key, NEW value, Normal(filters), Allowed(key, value), Saves(key, value)
    PROVE  /\ Normal(inboxSettings') /\ filters' = inboxSettings'
           /\ filters'[key] = value
           /\ \A name \in FilterNames \ {key} : filters'[name] = filters[name]
           /\ UNCHANGED <<facts, answer, snapshots>>
<1>1. PICK g : g = [filters EXCEPT ![key] = value]
  OBVIOUS
<1>0. With(filters, key, value, g)
  BY <1>1, WithIsNormal, Zenon
<1>2. Normal(g) /\ g[key] = value /\ \A name \in FilterNames \ {key} : g[name] = filters[name]
  BY <1>0 DEF With
<1>3. inboxSettings' = toInboxFilters(g) /\ UNCHANGED <<facts, answer, snapshots>>
  BY <1>1 DEF Saves
<1>4. inboxSettings' = g
  BY <1>2, <1>3, QuerySays
<1>5. filters' = normalizeInboxSettings(inboxSettings')
  BY DEF filters
<1>6. filters' = g
  BY <1>2, <1>4, <1>5, QuerySays
<1> QED BY <1>2, <1>3, <1>4, <1>6

LEMMA AppendTidy ==
    ASSUME NEW list, Tidy(list), NEW name \in Names, toLowerCase(name) = name, name # Nameless,
           ~Contains(list, name)
    PROVE  Tidy(Append(list, name)) /\ Append(list, name) # list
<1>1. list \in Seq(Names) /\ DOMAIN list = 1 .. Len(list) /\ Len(list) \in Nat
  BY SequenceOf DEF Tidy
<1>2. PICK more : more = Append(list, name)
  OBVIOUS
<1>3. /\ more \in Seq(Names) /\ DOMAIN more = 1 .. (Len(list) + 1) /\ more[Len(list) + 1] = name
      /\ \A i \in DOMAIN list : more[i] = list[i]
      /\ Len(more) = Len(list) + 1
  BY <1>1, <1>2
<1>4. \A i \in DOMAIN list : list[i] # name
  BY <1>1, ContainsIs
<1>5. \A i \in DOMAIN more : i \in DOMAIN list \/ i = Len(list) + 1
  BY <1>1, <1>3
<1>6. \A i \in DOMAIN more : toLowerCase(more[i]) = more[i] /\ more[i] # Nameless
  BY <1>3, <1>5 DEF Tidy
<1>7. \A i, j \in DOMAIN more : more[i] = more[j] => i = j
  BY <1>3, <1>4, <1>5 DEF Tidy
<1>8. Tidy(more)
  BY <1>3, <1>6, <1>7 DEF Tidy
<1>9. more # list
  BY <1>1, <1>3
<1> QED BY <1>2, <1>8, <1>9

LEMMA WithoutTidy ==
    ASSUME NEW list, Tidy(list), NEW name
    PROVE  Tidy(Without(list, name)) /\ (Contains(list, name) => Without(list, name) # list)
<1> DEFINE I == {i \in DOMAIN list : list[i] # name}
<1>1. list \in Seq(Names)
  BY DEF Tidy
<1>2. PICK t : t = Without(list, name)
  OBVIOUS
<1>3. t = filtered(list, I)
  BY <1>2 DEF Without
<1>4. t \in Seq(Names) /\ KeptOf(t, list, I)
  BY <1>1, <1>3, FilteredIs
<1>5. DOMAIN t = 1 .. Len(t) /\ Len(t) \in Nat
  BY <1>4, SequenceOf
<1>6. \A n \in DOMAIN t : toLowerCase(t[n]) = t[n] /\ t[n] # Nameless /\ t[n] # name
  BY <1>4 DEF KeptOf, Tidy
<1>7. \A m, n \in DOMAIN t : m < n => t[m] # t[n]
  <2>1. SUFFICES ASSUME NEW m \in DOMAIN t, NEW n \in DOMAIN t, m < n PROVE t[m] # t[n]
    OBVIOUS
  <2>2. PICK i \in I, j \in I : i < j /\ t[m] = list[i] /\ t[n] = list[j]
    BY <1>4, <2>1 DEF KeptOf
  <2>3. i # j /\ i \in DOMAIN list /\ j \in DOMAIN list
    BY <1>1, <2>2
  <2> QED BY <2>2, <2>3 DEF Tidy
<1>8. \A m, n \in DOMAIN t : t[m] = t[n] => m = n
  BY <1>5, <1>7
<1>9. Tidy(t)
  BY <1>4, <1>6, <1>8 DEF Tidy
<1>10. Contains(list, name) => t # list
  BY <1>1, <1>6, ContainsIs
<1> QED BY <1>2, <1>9, <1>10

\* Every press sets one filter to something else that it may be.
Moves(key, value) == Allowed(key, value) /\ value # filters[key] /\ Saves(key, value)

LEMMA LowerOfTeam ==
    ASSUME GithubSaid, NEW team \in DOMAIN answer.members
    PROVE  KeyOf(team) \in Names /\ toLowerCase(KeyOf(team)) = KeyOf(team) /\ KeyOf(team) # Nameless
<1>1. team \in Names /\ team.of # ""
  BY TeamsOfAnswer
<1> QED BY <1>1, LowerIs, NamelessIs DEF KeyOf

LEMMA LowerOfTyped ==
    ASSUME NEW login \in Typed
    PROVE  toLowerCase(login) \in Names /\ toLowerCase(toLowerCase(login)) = toLowerCase(login)
           /\ toLowerCase(login) # Nameless
<1>1. login \in Names /\ login.of # ""
  BY TypedAssumption
<1> QED BY <1>1, LowerIs, NamelessIs

LEMMA PressMoves ==
    ASSUME GithubSaid, Normal(filters), RowsNext
    PROVE  Refreshes \/ \E key, value : Moves(key, value)
<1>1. /\ filters["includeApproved"] \in BOOLEAN /\ filters["separateTeam"] \in BOOLEAN
      /\ filters["separateBots"] \in BOOLEAN /\ filters["recentDrafts"] \in RECENT_DRAFTS_VALUES
      /\ Tidy(filters["excludedTeams"]) /\ Tidy(filters["ignoredAuthors"])
  BY DEF Normal
<1>2. ASSUME NEW key \in {"includeApproved", "separateBots"}, SwitchFilter(key) PROVE \E value : Moves(key, value)
  <2>1. PICK value : value = valueWhenPressed(key, switchPosition(key))
    OBVIOUS
  <2>2. Saves(key, value)
    BY <1>2, <2>1 DEF SwitchFilter
  <2>3. value \in BOOLEAN /\ value # filters[key]
    <3>1. CASE key = "includeApproved"
      BY <1>1, <2>1, <3>1 DEF valueWhenPressed, switchPosition, inverted
    <3>2. CASE key = "separateBots"
      BY <1>1, <2>1, <3>2 DEF valueWhenPressed, switchPosition, inverted
    <3> QED BY <1>2, <3>1, <3>2
  <2> QED BY <2>2, <2>3 DEF Moves, Allowed, FilterNames, Lists
<1>3. ASSUME WindowFilter PROVE \E value : Moves("recentDrafts", value)
  <2>1. PICK value : value = IF switchPosition("recentDrafts") THEN "off" ELSE DEFAULT_RECENT_DRAFT_WINDOW
    OBVIOUS
  <2>2. Saves("recentDrafts", value)
    BY <1>3, <2>1 DEF WindowFilter
  <2>3. value \in RECENT_DRAFTS_VALUES /\ value # filters["recentDrafts"]
    BY <2>1, WindowsAre DEF switchPosition, DEFAULT_RECENT_DRAFT_WINDOW
  <2> QED BY <2>2, <2>3 DEF Moves, Allowed, FilterNames, Lists
<1>4. ASSUME NEW choice \in DOMAIN RECENT_DRAFT_WINDOW_MS, WindowChoice(choice)
      PROVE  Moves("recentDrafts", choice)
  BY <1>4, WindowsAre DEF WindowChoice, Moves, Allowed, FilterNames, Lists
<1>5. ASSUME TeamsFilter PROVE \E value : Moves("separateTeam", value)
  <2>1. PICK value \in BOOLEAN : value = ~filters["separateTeam"] /\ value # filters["separateTeam"]
    BY <1>1
  <2> QED BY <1>5, <2>1 DEF TeamsFilter, Moves, Allowed, FilterNames, Lists
<1>6. ASSUME NEW team \in DOMAIN answer.members, TeamRow(KeyOf(team))
      PROVE  \E value : Moves("excludedTeams", value)
  <2>1. PICK list : list = filters["excludedTeams"]
    OBVIOUS
  <2>2. PICK key \in Names : key = KeyOf(team) /\ toLowerCase(key) = key /\ key # Nameless
    BY LowerOfTeam
  <2>3. PICK value : value = IF Contains(list, key) THEN Without(list, key) ELSE Append(list, key)
    OBVIOUS
  <2>4. Saves("excludedTeams", value)
    BY <1>6, <2>1, <2>2, <2>3 DEF TeamRow
  <2>5. Tidy(value) /\ value # list
    BY <1>1, <2>1, <2>2, <2>3, AppendTidy, WithoutTidy
  <2> QED BY <2>1, <2>4, <2>5 DEF Moves, Allowed, FilterNames, Lists
<1>7. ASSUME NEW login \in Typed, AuthorCommitted(login) \/ AuthorRemoved(toLowerCase(login))
      PROVE  \E value : Moves("ignoredAuthors", value)
  <2>1. PICK list : list = filters["ignoredAuthors"]
    OBVIOUS
  <2>2. PICK name \in Names : name = toLowerCase(login) /\ toLowerCase(name) = name /\ name # Nameless
    BY LowerOfTyped
  <2>3. PICK value : value = IF Contains(list, name) THEN Without(list, name) ELSE Append(list, name)
    OBVIOUS
  <2>4. Saves("ignoredAuthors", value)
    BY <1>7, <2>1, <2>2, <2>3 DEF AuthorCommitted, AuthorRemoved
  <2>5. Tidy(value) /\ value # list
    BY <1>1, <2>1, <2>2, <2>3, AppendTidy, WithoutTidy
  <2> QED BY <2>1, <2>4, <2>5 DEF Moves, Allowed, FilterNames, Lists
<1> QED BY <1>2, <1>3, <1>4, <1>5, <1>6, <1>7 DEF RowsNext

----------------------------------------------------------------------------
(* The inductive invariant: whatever was pressed, the row can be read, and each snapshot *)
(* is sorted by the filters it is filed under.                                            *)

RowsInv ==
    /\ GithubSaid
    /\ Legible(inboxSettings)
    /\ DOMAIN snapshots = BuildKeys
    /\ \A key \in BuildKeys : snapshots[key] = NoSnapshot \/ SortedBy(snapshots[key], BuildHalf(key[1], key[2]))

LEMMA KeyIs ==
    /\ \A f : inboxFiltersKey(f) = <<f["includeApproved"], f["recentDrafts"]>>
    /\ \A i, r : inboxFiltersKey(BuildHalf(i, r)) = <<i, r>>
    /\ BuildKeys = BOOLEAN \X RECENT_DRAFTS_VALUES
    /\ \A f : Normal(f) => inboxFiltersKey(f) \in BuildKeys
<1>1. \A f : inboxFiltersKey(f) = <<f["includeApproved"], f["recentDrafts"]>>
  BY DEF inboxFiltersKey
<1>2. ASSUME NEW i, NEW r PROVE inboxFiltersKey(BuildHalf(i, r)) = <<i, r>>
  <2>1. PICK f : f = BuildHalf(i, r)
    OBVIOUS
  <2>2. f["includeApproved"] = i /\ f["recentDrafts"] = r
    BY <2>1, DefaultsAre DEF BuildHalf, FilterNames
  <2> QED BY <1>1, <2>1, <2>2
<1>3. BuildKeys = BOOLEAN \X RECENT_DRAFTS_VALUES
  BY <1>2 DEF BuildKeys
<1> QED BY <1>1, <1>2, <1>3 DEF Normal

LEMMA RowsInitInv == RowsInit => RowsInv
<1> SUFFICES ASSUME RowsInit PROVE RowsInv
  OBVIOUS
<1>1. GithubSaid
  BY DEF RowsInit, GithubSaid
<1>2. Legible(inboxSettings)
  BY RowsAssumption DEF RowsInit, Legible
<1>3. snapshots = [key \in BuildKeys |-> NoSnapshot]
  BY DEF RowsInit
<1> QED BY <1>1, <1>2, <1>3 DEF RowsInv

LEMMA RowsNextInv == RowsInv /\ [RowsNext]_rowsVars => RowsInv'
<1> SUFFICES ASSUME RowsInv, [RowsNext]_rowsVars PROVE RowsInv'
  OBVIOUS
<1>1. Normal(filters)
  BY NormalizedIs DEF RowsInv, filters
<1>2. ASSUME UNCHANGED <<facts, answer>>, Legible(inboxSettings'), DOMAIN snapshots' = BuildKeys,
             \A key \in BuildKeys : snapshots'[key] = NoSnapshot \/ SortedBy(snapshots'[key], BuildHalf(key[1], key[2]))
      PROVE  RowsInv'
  <2>1. GithubSaid'
    BY <1>2 DEF RowsInv, GithubSaid
  <2>2. \A s, f : SortedBy(s, f)' <=> SortedBy(s', f')
    BY <1>2 DEF SortedBy, TeamsFine, YoursSorted, WaitingSorted, WholeIn, toStoredPullRequest, teamsByMember, Legible
  <2> QED BY <1>2, <2>1, <2>2 DEF RowsInv
<1>3. CASE Refreshes
  <2>1. PICK k \in BuildKeys : k = inboxFiltersKey(filters)
    BY <1>1, KeyIs
  <2>2. snapshots' = [snapshots EXCEPT ![k] = classify(filters)] /\ UNCHANGED <<facts, answer, inboxSettings>>
    BY <1>3, <2>1 DEF Refreshes
  <2>3. SortedBy(classify(filters), filters)
    BY ClassifySorts DEF RowsInv
  <2>4. inboxFiltersKey(filters) = inboxFiltersKey(BuildHalf(k[1], k[2]))
    BY <2>1, KeyIs
  <2>5. SortedBy(classify(filters), BuildHalf(k[1], k[2]))
    BY <2>3, <2>4, KeyDecides
  <2>6. \A key \in BuildKeys : snapshots'[key] = NoSnapshot \/ SortedBy(snapshots'[key], BuildHalf(key[1], key[2]))
    BY <2>2, <2>5 DEF RowsInv
  <2> QED BY <1>2, <2>2, <2>6 DEF RowsInv
<1>4. ASSUME NEW key, NEW value, Moves(key, value) PROVE RowsInv'
  <2>1. Normal(inboxSettings') /\ UNCHANGED <<facts, answer, snapshots>>
    BY <1>1, <1>4, SaveLeaves DEF Moves
  <2> QED BY <1>2, <2>1, NormalIsLegible DEF RowsInv
<1>5. CASE UNCHANGED rowsVars
  BY <1>2, <1>5 DEF rowsVars, RowsInv
<1> QED BY <1>1, <1>3, <1>4, <1>5, PressMoves DEF RowsInv

THEOREM RowsInvariance == RowsSpec => []RowsInv
<1> QED BY RowsInitInv, RowsNextInv, PTL DEF RowsSpec

LEMMA SwitchesOf ==
    ASSUME NEW f, f = filters
    PROVE  Positions = [key \in {"includeApproved", "recentDrafts", "separateTeam", "separateBots"} |->
              IF key = "recentDrafts" THEN f["recentDrafts"] # "off"
              ELSE IF key = "includeApproved" THEN ~f["includeApproved"] ELSE f[key]]
BY DEF Positions, switchPosition, inverted

LEMMA MovesMoveOne ==
    ASSUME Normal(filters), NEW key, NEW value, Moves(key, value)
    PROVE  MovesASwitch \/ MovesOneOther
<1> DEFINE Switches == {"includeApproved", "recentDrafts", "separateTeam", "separateBots"}
           Shown(f) == [k \in Switches |->
              IF k = "recentDrafts" THEN f["recentDrafts"] # "off"
              ELSE IF k = "includeApproved" THEN ~f["includeApproved"] ELSE f[k]]
<1>1. PICK f : f = filters
  OBVIOUS
<1>2. PICK g : g = filters'
  OBVIOUS
<1>3. Normal(f) /\ Normal(g) /\ g[key] = value /\ value # f[key] /\ key \in FilterNames
      /\ \A name \in FilterNames \ {key} : g[name] = f[name]
  BY <1>1, <1>2, SaveLeaves DEF Moves, Allowed
<1>4. Positions = Shown(f)
  BY <1>1, SwitchesOf
<1>5. Positions' = Shown(g)
  BY <1>2 DEF Positions, switchPosition, inverted
<1>6. CASE key \in {"includeApproved", "separateTeam", "separateBots"}
  <2>1. f[key] \in BOOLEAN /\ g[key] \in BOOLEAN /\ g[key] # f[key]
    BY <1>3, <1>6 DEF Normal
  <2>2. Shown(g) = [Shown(f) EXCEPT ![key] = ~@]
    BY <1>3, <1>6, <2>1 DEF FilterNames
  <2>3. \A list \in Lists : g[list] = f[list]
    BY <1>3, <1>6 DEF Lists, FilterNames
  <2>4. key \in DOMAIN Positions
    BY <1>4, <1>6
  <2> QED BY <1>1, <1>2, <1>4, <1>5, <2>2, <2>3, <2>4 DEF MovesASwitch
<1>7. CASE key = "recentDrafts" /\ (f[key] = "off" \/ g[key] = "off")
  <2>1. Shown(g) = [Shown(f) EXCEPT ![key] = ~@]
    BY <1>3, <1>7 DEF FilterNames
  <2>2. \A list \in Lists : g[list] = f[list]
    BY <1>3, <1>7 DEF Lists, FilterNames
  <2>3. key \in DOMAIN Positions
    BY <1>4, <1>7
  <2> QED BY <1>1, <1>2, <1>4, <1>5, <2>1, <2>2, <2>3 DEF MovesASwitch
<1>8. CASE key \in Lists \/ (key = "recentDrafts" /\ f[key] # "off" /\ g[key] # "off")
  <2>1. Shown(g) = Shown(f)
    BY <1>3, <1>8 DEF FilterNames, Lists
  <2>2. DOMAIN f = FilterNames
    BY <1>3 DEF Normal
  <2>3. {name \in DOMAIN f : g[name] # f[name]} = {key}
    BY <1>3, <2>2
  <2>4. Cardinality({key}) = 1
    BY FS_Singleton
  <2> QED BY <1>1, <1>2, <1>4, <1>5, <2>1, <2>3, <2>4 DEF MovesOneOther
<1> QED BY <1>3, <1>6, <1>7, <1>8 DEF FilterNames, Lists

\* A press on the filters moves the switch that was pressed and no other filter, or sets one
\* filter that is no switch, whatever the row held before (FilterControls, updateSettings).
THEOREM APressMovesOne == RowsSpec => PressMovesOne
<1>1. RowsInv /\ [RowsNext]_rowsVars => [presses' # presses => MovesASwitch \/ MovesOneOther]_rowsVars
  <2> SUFFICES ASSUME RowsInv, RowsNext, presses' # presses PROVE MovesASwitch \/ MovesOneOther
    OBVIOUS
  <2>1. Normal(filters)
    BY NormalizedIs DEF RowsInv, filters
  <2>2. ~Refreshes
    BY DEF Refreshes
  <2> QED BY <2>1, <2>2, PressMoves, MovesMoveOne DEF RowsInv
<1> QED BY <1>1, RowsInvariance, PTL DEF RowsSpec, PressMovesOne

----------------------------------------------------------------------------
(* What is on screen. *)

LEMMA WhatIsServed ==
    ASSUME RowsInv, Answered
    PROVE  /\ Normal(filters) /\ GithubSaid /\ SortedBy(Snapshot, filters)
           /\ Response = respond(Snapshot, filters)
<1>1. Normal(filters)
  BY NormalizedIs DEF RowsInv, filters
<1>2. PICK key : key = inboxFiltersKey(filters)
  OBVIOUS
<1>3. key \in BuildKeys /\ Snapshot = snapshots[key]
  BY <1>1, <1>2, KeyIs DEF Snapshot
<1>4. SortedBy(Snapshot, BuildHalf(key[1], key[2]))
  BY <1>3 DEF RowsInv, Answered
<1>5. inboxFiltersKey(BuildHalf(key[1], key[2])) = inboxFiltersKey(filters)
  BY <1>2, <1>3, KeyIs
<1>6. SortedBy(Snapshot, filters)
  BY <1>4, <1>5, KeyDecides
<1>7. Response = respond(Snapshot, filters)
  BY <1>1, QuerySays DEF Response
<1> QED BY <1>1, <1>6, <1>7 DEF RowsInv

LEMMA SpelledIs ==
    ASSUME NEW list, Tidy(list), NEW name \in Names
    PROVE  Contains(list, toLowerCase(name)) <=> SpelledIn(list, name)
<1>1. list \in Seq(Names) /\ \A i \in DOMAIN list : list[i] \in Names /\ toLowerCase(list[i]) = list[i]
  BY SequenceOf DEF Tidy
<1>2. \A i \in DOMAIN list : list[i] = toLowerCase(name) <=> list[i].of = name.of
  BY <1>1, SameName
<1>3. Contains(list, toLowerCase(name)) <=> \E i \in DOMAIN list : list[i] = toLowerCase(name)
  BY <1>1, ContainsIs
<1> QED BY <1>2, <1>3 DEF SpelledIn

Ignored(pr, f) == Contains(f["ignoredAuthors"], toLowerCase(pr.author))

LEMMA HeadingsServed ==
    ASSUME NEW rows \in Seq(StoredRows), NEW f, NEW key \in WAITING_SECTIONS
    PROVE  \A id : Contains(groupWaitingOnYou(rows, f)[key], id) <=>
              \E i \in DOMAIN rows : ~Ignored(rows[i], f) /\ waitingSection(rows[i], f) = key /\ rows[i].id = id
<1> DEFINE kept == {i \in DOMAIN rows : ~Contains(f.ignoredAuthors, toLowerCase(rows[i].author))}
           I == {i \in kept : waitingSection(rows[i], f) = key}
<1>1. PICK t : t = filtered(rows, I)
  OBVIOUS
<1>2. t \in Seq(StoredRows) /\ KeptOf(t, rows, I)
  <2>1. I \in SUBSET DOMAIN rows
    OBVIOUS
  <2> QED BY <1>1, <2>1, FilteredIs
<1>3. groupWaitingOnYou(rows, f)[key] = Ids(t)
  BY <1>1 DEF groupWaitingOnYou
<1>4. \A x \in StoredRows : x.id \in Int
  BY DEF StoredRows
<1>5. \A id : Contains(Ids(t), id) <=> \E n \in DOMAIN t : t[n].id = id
  BY <1>2, <1>4, IdsAre
<1>6. /\ \A n \in DOMAIN t : \E i \in I : t[n] = rows[i]
      /\ \A i \in I : \E n \in DOMAIN t : t[n] = rows[i]
  BY <1>2 DEF KeptOf
<1>7. \A i : i \in I <=> i \in DOMAIN rows /\ ~Ignored(rows[i], f) /\ waitingSection(rows[i], f) = key
  BY DEF Ignored
<1> HIDE DEF I
<1> QED BY <1>3, <1>5, <1>6, <1>7

LEMMA SectionIs ==
    ASSUME NEW pr, NEW f PROVE waitingSection(pr, f) \in WAITING_SECTIONS
BY DEF waitingSection, WAITING_SECTIONS

\* Who waits, and where.
LEMMA WaitingUnder ==
    ASSUME GithubSaid, NEW rows, NEW teams, TeamsFine(teams), NEW f, WaitingSorted(rows, teams, f),
           NEW node \in WholeIn("waitingOnYou")
    PROVE  Under(groupWaitingOnYou(rows, f), node.id) =
              IF isWaitingOnYou(node, f) /\ ~Contains(f["ignoredAuthors"], toLowerCase(authorLogin(node)))
              THEN {waitingSection(toStoredPullRequest(node, teams), f)} ELSE {}
<1>1. /\ node \in Nodes
      /\ \A a \in WholeIn("waitingOnYou") : a \in Nodes /\ (a.id = node.id => a = node)
  BY HalvesAreFine DEF Halves, HalfFine
<1>2. PICK pr \in StoredRows : /\ pr = toStoredPullRequest(node, teams)
                                /\ pr.id = node.id /\ pr.author = authorLogin(node)
  BY <1>1, StoredRowIs
<1>3. \A i \in DOMAIN rows : rows[i].id = node.id => rows[i] = pr /\ isWaitingOnYou(node, f)
  <2>1. SUFFICES ASSUME NEW i \in DOMAIN rows, rows[i].id = node.id PROVE rows[i] = pr /\ isWaitingOnYou(node, f)
    OBVIOUS
  <2>2. PICK a \in WholeIn("waitingOnYou") : isWaitingOnYou(a, f) /\ rows[i] = toStoredPullRequest(a, teams)
    BY DEF WaitingSorted
  <2>3. rows[i].id = a.id
    BY <1>1, <2>2, StoredRowIs
  <2>4. a = node
    BY <1>1, <2>1, <2>3
  <2> QED BY <1>2, <2>2, <2>4
<1>4. isWaitingOnYou(node, f) => \E i \in DOMAIN rows : rows[i] = pr
  BY <1>2 DEF WaitingSorted
<1>5. PICK served : served = groupWaitingOnYou(rows, f)
  OBVIOUS
<1>6. DOMAIN served = WAITING_SECTIONS
  BY <1>5 DEF groupWaitingOnYou
<1>7. \A key \in WAITING_SECTIONS : Contains(served[key], node.id) <=>
         \E i \in DOMAIN rows : ~Ignored(rows[i], f) /\ waitingSection(rows[i], f) = key /\ rows[i].id = node.id
  <2>1. rows \in Seq(StoredRows)
    BY DEF WaitingSorted
  <2>2. SUFFICES ASSUME NEW key \in WAITING_SECTIONS
                 PROVE  Contains(served[key], node.id) <=>
                           \E i \in DOMAIN rows : ~Ignored(rows[i], f) /\ waitingSection(rows[i], f) = key /\ rows[i].id = node.id
    OBVIOUS
  <2>3. \A id : Contains(groupWaitingOnYou(rows, f)[key], id) <=>
           \E i \in DOMAIN rows : ~Ignored(rows[i], f) /\ waitingSection(rows[i], f) = key /\ rows[i].id = id
    BY <2>1, HeadingsServed
  <2> QED BY <1>5, <2>3
<1>8. \A key \in WAITING_SECTIONS : Contains(served[key], node.id) <=>
         isWaitingOnYou(node, f) /\ ~Ignored(pr, f) /\ waitingSection(pr, f) = key
  BY <1>2, <1>3, <1>4, <1>7
<1>9. Under(served, node.id) = IF isWaitingOnYou(node, f) /\ ~Ignored(pr, f) THEN {waitingSection(pr, f)} ELSE {}
  BY <1>6, <1>8, SectionIs DEF Under
<1> QED BY <1>2, <1>5, <1>9 DEF Ignored

LEMMA UnwantedIs ==
    ASSUME NEW node \in Nodes, NEW f, Normal(f)
    PROVE  isWaitingOnYou(node, f) /\ ~Contains(f["ignoredAuthors"], toLowerCase(authorLogin(node))) <=>
              ~ (\/ authorLogin(node).of = Viewer
                 \/ SpelledIn(f["ignoredAuthors"], authorLogin(node))
                 \/ node.reviewDecision = "APPROVED" /\ ~f["includeApproved"])
<1>1. authorLogin(node) \in Names
  BY AuthorIs
<1>2. toLowerCase(authorLogin(node)).of = authorLogin(node).of
  BY <1>1, LowerIs
<1>3. Contains(f["ignoredAuthors"], toLowerCase(authorLogin(node))) <=> SpelledIn(f["ignoredAuthors"], authorLogin(node))
  BY <1>1, SpelledIs DEF Normal
<1>4. isWaitingOnYou(node, f) <=>
         authorLogin(node).of # Viewer /\ ~(node.reviewDecision = "APPROVED" /\ ~f["includeApproved"])
  BY <1>2 DEF isWaitingOnYou, Normal
<1> QED BY <1>3, <1>4

LEMMA NothingMissing == ASSUME RowsInv PROVE NothingGoesMissing
<1> SUFFICES ASSUME Answered PROVE NothingGoesMissing
  BY DEF NothingGoesMissing
<1>1. PICK f : f = filters
  OBVIOUS
<1>2. PICK s : s = Snapshot
  OBVIOUS
<1>3. Normal(f) /\ GithubSaid /\ SortedBy(s, f) /\ Response = respond(s, f)
  BY <1>1, <1>2, WhatIsServed
<1>4. Response.yours = s.yours /\ Response.waitingOnYou = groupWaitingOnYou(s.waitingOnYou, f)
  BY <1>3 DEF respond
<1>5. PICK yours : yours = s.yours
  OBVIOUS
<1>6. YoursSorted(yours, f) /\ TeamsFine(s.teams) /\ WaitingSorted(s.waitingOnYou, s.teams, f)
  BY <1>3, <1>5 DEF SortedBy
<1>7. /\ \A half \in Halves : HalfFine(half)
      /\ \A a \in WholeIn("yours"), b \in WholeIn("merged") : a.id # b.id
  BY <1>3, HalvesAreFine
<1>8. ASSUME NEW node \in WholeIn("yours") PROVE Cardinality(Under(yours, node.id)) = 1
  <2>1. node \in Nodes /\ node.id \in Int /\ \A a \in WholeIn("yours") : a.id = node.id => a = node
    BY <1>7, NodeIs DEF Halves, HalfFine
  <2>2. yoursSection(node, f) \in YOURS_SECTIONS \ {"merged"}
    BY DEF yoursSection, YOURS_SECTIONS
  <2>3. \A key \in YOURS_SECTIONS \ {"merged"} : Contains(yours[key], node.id) <=> yoursSection(node, f) = key
    BY <1>6, <2>1 DEF YoursSorted
  <2>4. ~Contains(yours["merged"], node.id)
    BY <1>6, <1>7, <2>1 DEF YoursSorted
  <2>5. Under(yours, node.id) = {yoursSection(node, f)}
    BY <1>6, <2>2, <2>3, <2>4 DEF Under, YoursSorted
  <2> QED BY <2>5, FS_Singleton
<1>9. ASSUME NEW node \in WholeIn("merged") PROVE Cardinality(Under(yours, node.id)) = 1
  <2>1. node \in Nodes /\ node.id \in Int
    BY <1>7, NodeIs DEF Halves, HalfFine
  <2>2. \A key \in YOURS_SECTIONS \ {"merged"} : ~Contains(yours[key], node.id)
    BY <1>6, <1>7, <2>1 DEF YoursSorted
  <2>3. Contains(yours["merged"], node.id) /\ "merged" \in YOURS_SECTIONS
    BY <1>6, <2>1 DEF YoursSorted, YOURS_SECTIONS
  <2>4. Under(yours, node.id) = {"merged"}
    BY <1>6, <2>2, <2>3 DEF Under, YoursSorted
  <2> QED BY <2>4, FS_Singleton
<1>10. ASSUME NEW node \in WholeIn("waitingOnYou")
       PROVE  LET unwanted == \/ authorLogin(node).of = Viewer
                              \/ SpelledIn(filters.ignoredAuthors, authorLogin(node))
                              \/ node.reviewDecision = "APPROVED" /\ ~filters.includeApproved
              IN  Cardinality(Under(Response.waitingOnYou, node.id)) = IF unwanted THEN 0 ELSE 1
  <2>1. node \in Nodes
    BY <1>7 DEF Halves, HalfFine
  <2>2. PICK under : under = Under(Response.waitingOnYou, node.id)
    OBVIOUS
  <2>3. PICK wanted \in BOOLEAN : wanted <=>
           isWaitingOnYou(node, f) /\ ~Contains(f["ignoredAuthors"], toLowerCase(authorLogin(node)))
    OBVIOUS
  <2>4. under = IF wanted THEN {waitingSection(toStoredPullRequest(node, s.teams), f)} ELSE {}
    BY <1>3, <1>4, <1>6, <2>2, <2>3, WaitingUnder
  <2>5. Cardinality(under) = IF wanted THEN 1 ELSE 0
    BY <2>4, FS_Singleton, FS_EmptySet
  <2>6. wanted <=> ~ (\/ authorLogin(node).of = Viewer
                      \/ SpelledIn(f["ignoredAuthors"], authorLogin(node))
                      \/ node.reviewDecision = "APPROVED" /\ ~f["includeApproved"])
    BY <1>3, <2>1, <2>3, UnwantedIs
  <2> QED BY <1>1, <2>2, <2>5, <2>6
<1> QED BY <1>4, <1>5, <1>8, <1>9, <1>10 DEF NothingGoesMissing

\* A team heading is what the panel ticks.
LEMMA TeamIsTicked == ASSUME RowsInv PROVE TeamMeansWhatIsTicked
<1> SUFFICES ASSUME Answered PROVE TeamMeansWhatIsTicked
  BY DEF TeamMeansWhatIsTicked
<1>1. PICK f : f = filters
  OBVIOUS
<1>2. PICK s : s = Snapshot
  OBVIOUS
<1>3. Normal(f) /\ GithubSaid /\ SortedBy(s, f) /\ Response = respond(s, f)
  BY <1>1, <1>2, WhatIsServed
<1>4. Response.teams = s.teams /\ Response.waitingOnYou = groupWaitingOnYou(s.waitingOnYou, f)
  BY <1>3 DEF respond
<1>5. PICK teams : teams = s.teams
  OBVIOUS
<1>6. /\ TeamsFine(teams) /\ WaitingSorted(s.waitingOnYou, teams, f)
      /\ answer.named \notin {Refused, Said(<<>>)} => teams # Said(<<>>)
  BY <1>3, <1>5 DEF SortedBy
<1>7. HalfFine("waitingOnYou")
  BY <1>3, HalvesAreFine DEF Halves
<1>8. ASSUME NEW node \in WholeIn("waitingOnYou")
      PROVE  LET drawn == IF Response.teams = Refused THEN {} ELSE ToSet(Response.teams[1])
                 mates == UNION {answer.members[team][1] : team \in {t \in drawn : ~SpelledIn(filters.excludedTeams, t)}}
             IN  Under(Response.waitingOnYou, node.id) \cap {"team"} # {} <=>
                    /\ Under(Response.waitingOnYou, node.id) # {}
                    /\ filters.separateTeam /\ ~authorIsBot(node)
                    /\ \E member \in mates : member.of = authorLogin(node).of
  <2>1. node \in Nodes /\ authorLogin(node) \in Names
    BY <1>7, AuthorIs DEF HalfFine
  <2>2. PICK under : under = Under(Response.waitingOnYou, node.id)
    OBVIOUS
  <2>3. PICK pr : pr = toStoredPullRequest(node, teams)
    OBVIOUS
  <2>4. /\ pr.author = authorLogin(node) /\ pr.authorIsBot = authorIsBot(node)
        /\ pr.authorTeams = teamsByMember(teams, authorLogin(node))
    BY <1>6, <2>1, <2>3, StoredRowIs
  <2>5. under = {waitingSection(pr, f)} \/ under = {}
    BY <1>3, <1>4, <1>5, <1>6, <2>2, <2>3, WaitingUnder
  <2>6. \A key : key \in pr.authorTeams <=>
                 /\ teams # Refused
                 /\ \E team \in ToSet(teams[1]) :
                       key = KeyOf(team) /\ \E member \in answer.members[team][1] : member.of = authorLogin(node).of
    BY <1>6, <2>1, <2>4, TeamsByMemberAre
  <2>7. teams # Refused => \A team \in ToSet(teams[1]) :
           Contains(f["excludedTeams"], KeyOf(team)) <=> SpelledIn(f["excludedTeams"], team)
    BY <1>3, <1>6, SpelledIs DEF TeamsFine, Normal, KeyOf
  <2>8. sharesTeam(pr, f["excludedTeams"]) <=>
           /\ teams # Refused
           /\ \E team \in ToSet(teams[1]) :
                 ~SpelledIn(f["excludedTeams"], team) /\ \E member \in answer.members[team][1] : member.of = authorLogin(node).of
    BY <2>6, <2>7 DEF sharesTeam
  <2>9. waitingSection(pr, f) = "team" <=>
           f["separateTeam"] /\ ~authorIsBot(node) /\ sharesTeam(pr, f["excludedTeams"])
    BY <1>3, <2>4 DEF waitingSection, Normal
  <2> DEFINE drawn == IF teams = Refused THEN {} ELSE ToSet(teams[1])
             mates == UNION {answer.members[team][1] : team \in {t \in drawn : ~SpelledIn(f["excludedTeams"], t)}}
  <2>10. \A member : member \in mates <=>
            /\ teams # Refused
            /\ \E team \in ToSet(teams[1]) : ~SpelledIn(f["excludedTeams"], team) /\ member \in answer.members[team][1]
    OBVIOUS
  <2>11. (\E member \in mates : member.of = authorLogin(node).of) <=> sharesTeam(pr, f["excludedTeams"])
    BY <2>8, <2>10
  <2> HIDE DEF mates
  <2>12. under \cap {"team"} # {} <=>
            under # {} /\ f["separateTeam"] /\ ~authorIsBot(node) /\ \E member \in mates : member.of = authorLogin(node).of
    BY <2>5, <2>9, <2>11
  <2> QED BY <1>1, <1>4, <1>5, <2>2, <2>12 DEF mates
<1> QED BY <1>4, <1>5, <1>6, <1>8 DEF TeamMeansWhatIsTicked

\* What is on screen was sorted under the settings that are set.
LEMMA AllSorted == ASSUME RowsInv PROVE SortedAsSet
<1> SUFFICES ASSUME Answered PROVE SortedAsSet
  BY DEF SortedAsSet
<1>1. PICK f : f = filters
  OBVIOUS
<1>2. PICK s : s = Snapshot
  OBVIOUS
<1>3. Normal(f) /\ GithubSaid /\ SortedBy(s, f) /\ Response = respond(s, f)
  BY <1>1, <1>2, WhatIsServed
<1>4. PICK yours : yours = Response.yours
  OBVIOUS
<1>5. YoursSorted(yours, f)
  BY <1>3, <1>4 DEF SortedBy, respond
<1>6. HalfFine("yours")
  BY <1>3, HalvesAreFine DEF Halves
<1>7. ASSUME NEW node \in WholeIn("yours")
      PROVE  Contains(yours["recent-drafts"], node.id) <=>
                 /\ node.isDraft /\ f["recentDrafts"] # "off" /\ node.updatedAt # Unread
                 /\ Now - node.updatedAt < RECENT_DRAFT_WINDOW_MS[f["recentDrafts"]]
  <2>1. node \in Nodes /\ node.id \in Int /\ \A a \in WholeIn("yours") : a.id = node.id => a = node
    BY <1>6, NodeIs DEF HalfFine
  <2>2. node.updatedAt \in (Nat \ {0}) \cup {Unread} /\ node.isDraft \in BOOLEAN
    BY <2>1, NodeIs
  <2>3. Contains(yours["recent-drafts"], node.id) <=> yoursSection(node, f) = "recent-drafts"
    BY <1>5, <2>1 DEF YoursSorted, YOURS_SECTIONS
  <2>4. yoursSection(node, f) = "recent-drafts" <=>
           node.isDraft /\ f["recentDrafts"] # "off" /\ Now - epochMs(node.updatedAt) < RECENT_DRAFT_WINDOW_MS[f["recentDrafts"]]
    BY <2>2 DEF yoursSection
  <2>5. f["recentDrafts"] # "off" => RECENT_DRAFT_WINDOW_MS[f["recentDrafts"]] \in 1 .. 168
    BY <1>3, WindowsAre DEF Normal
  <2>6. f["recentDrafts"] # "off" =>
           (Now - epochMs(node.updatedAt) < RECENT_DRAFT_WINDOW_MS[f["recentDrafts"]] <=>
              node.updatedAt # Unread /\ Now - node.updatedAt < RECENT_DRAFT_WINDOW_MS[f["recentDrafts"]])
    BY <2>2, <2>5 DEF epochMs, Now, Unread
  <2> QED BY <2>3, <2>4, <2>6
<1>8. ASSUME NEW key \in YOURS_SECTIONS \ {"merged"}, NEW i \in DOMAIN yours[key], NEW j \in DOMAIN yours[key]
      PROVE  LET at(n) == CHOOSE node \in WholeIn("yours") : node.id = yours[key][n]
             IN  i < j => at(i).updatedAt >= at(j).updatedAt
  <2> SUFFICES ASSUME i < j
               PROVE  LET at(n) == CHOOSE node \in WholeIn("yours") : node.id = yours[key][n]
                      IN  at(i).updatedAt >= at(j).updatedAt
    OBVIOUS
  <2>1. PICK a \in WholeIn("yours"), b \in WholeIn("yours") :
           a.id = yours[key][i] /\ b.id = yours[key][j] /\ a.updatedAt >= b.updatedAt
    BY <1>5 DEF YoursSorted
  <2>2. \A x, y \in WholeIn("yours") : x.id = y.id => x = y
    BY <1>6 DEF HalfFine
  <2>3. (CHOOSE node \in WholeIn("yours") : node.id = yours[key][i]) = a
    BY <2>1, <2>2
  <2>4. (CHOOSE node \in WholeIn("yours") : node.id = yours[key][j]) = b
    BY <2>1, <2>2
  <2> QED BY <2>1, <2>3, <2>4
<1> QED BY <1>1, <1>4, <1>7, <1>8 DEF SortedAsSet

\* Every row of the inbox is where the settings in force put it, whatever GitHub said, whatever
\* the row held and was made to hold since, and whichever snapshots were filed before
\* (classify, groupWaitingOnYou, inboxFiltersKey).
THEOREM EveryRowWhereItBelongs == RowsSpec => []RowsWhereTheyBelong
<1>1. RowsInv => RowsWhereTheyBelong
  BY NothingMissing, TeamIsTicked, AllSorted DEF RowsWhereTheyBelong
<1> QED BY <1>1, RowsInvariance, PTL

----------------------------------------------------------------------------
(* The pages side by side. *)

LEMMA PagesKeepToThemselves == DashboardSpec => ConnectionsSpec /\ RowsSpec /\ Spec
<1>1. DashboardInit => ConnectionsInit /\ RowsInit /\ Init
  BY DEF DashboardInit
<1>2. [DashboardNext]_dashboardVars => [ConnectionsNext]_connectionsVars
  BY DEF DashboardNext, dashboardVars
<1>3. [DashboardNext]_dashboardVars => [RowsNext]_rowsVars
  BY DEF DashboardNext, dashboardVars
<1>4. [DashboardNext]_dashboardVars => [Next]_vars
  BY DEF DashboardNext, dashboardVars
<1> QED BY <1>1, <1>2, <1>3, <1>4, PTL DEF DashboardSpec, ConnectionsSpec, RowsSpec, Spec

\* Whatever is saved on a page of the dashboard, it is what was pressed and nothing else: a chosen
\* opt-in stays chosen, one filter moves, an older tab leaves what it does not know, and the answer is
\* what is then stored (updatePreferences, updateSettings, FilterControls).
THEOREM EachSaveTouchesItsOwn == DashboardSpec => SavesTouchTheirOwn
  BY PagesKeepToThemselves, WhatWasChosenStays, APressMovesOne, SavesAreAnswered, OlderTabsLeaveTheRest, PTL
     DEF SavesTouchTheirOwn

=============================================================================
