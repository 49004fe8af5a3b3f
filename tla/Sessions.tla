------------------------------ MODULE Sessions ------------------------------
(***************************************************************************)
(* A person's sessions, from the tabs of one browser to the rows behind them.    *)
(* A session is an access token, a signature that nothing calls back, and a        *)
(* refresh token, the key to a row that can be deleted.  Each tab keeps a copy       *)
(* of both in memory, read from local storage when the page loads, renews them on     *)
(* a clock, before a request and after a 401 (session.ts), and forgets them when it    *)
(* is signed out (authLogic).                                                            *)
(*                                                                           *)
(* A token is the session it belongs to and the time it has left.  Requests of one     *)
(* tab that wait on one renewal resume together, as they do in one turn of the           *)
(* event loop.                                                                         *)
(***************************************************************************)
EXTENDS Integers

CONSTANTS
    Tabs, Requests,   \* the tabs of the browser, and the requests a tab may have under way
    Sessions,         \* refresh tokens, numbered in the order they are issued
    AccessTtl,        \* accessTokenTtlSeconds
    RefreshTtl,       \* refreshTokenTtlMs
    Margin,           \* RENEW_WHEN_REMAINING_MS
    Worlds            \* how long a behaviour lasts, how much is asked, and what may go wrong

ASSUME TtlAssumption ==
    Margin \in Nat /\ AccessTtl \in Nat /\ RefreshTtl \in Nat /\ Margin < AccessTtl /\ RefreshTtl > 0
ASSUME SessionsAssumption == Sessions \subseteq Nat \ {0}
ASSUME WorldsAssumption ==
    Worlds \subseteq [ticks : Nat, asks : Nat, logouts : Nat, pages : Nat, logins : SUBSET Sessions,
                      faults : SUBSET {"network", "clock", "refuses"}]

None == 0

VARIABLES
    world,       \* what may still happen
    row,         \* the refresh tokens' rows: how long each has left, 0 where there is none
    dead,        \* history: how long ago a row went, counted to AccessTtl
    over,        \* history: the sessions that lapsed or were signed out of
    tab,         \* each tab's copy of its session: the token, or session None when signed out
    storage,     \* local storage's
    renewal,     \* refreshInFlight, per tab
    req,         \* the requests under way: the token each carries, and whether it was retried
    revoking,    \* sign-outs on their way to the server
    ended        \* history: how each tab's last session ended, by its user or by a 401

vars == <<world, row, dead, over, tab, storage, renewal, req, revoking, ended>>

Blank   == [session |-> None, left |-> 0]
Resting == [at |-> "idle", token |-> Blank, retried |-> FALSE]
NoRenewal == [at |-> "none", token |-> Blank]
Fresh(s) == [session |-> s, left |-> AccessTtl]

Fault(f) == f \in world.faults

Init ==
    /\ world \in Worlds
    /\ row = [s \in Sessions |-> 0] /\ dead = [s \in Sessions |-> 0] /\ over = {}
    /\ tab = [t \in Tabs |-> Blank] /\ storage = Blank
    /\ renewal = [t \in Tabs |-> NoRenewal]
    /\ req = [t \in Tabs |-> [q \in Requests |-> Resting]]
    /\ revoking = {} /\ ended = [t \in Tabs |-> "no"]

----------------------------------------------------------------------------
\* The server.

\* AuthGuard: a signature that has not expired, and nothing else.
accepts(token) == token.left > 0 /\ ~Fault("refuses")

\* RefreshTokenService.issue, at a login.
issue(s) == row' = [row EXCEPT ![s] = RefreshTtl]

answers(t, token) == renewal' = [renewal EXCEPT ![t] = [at |-> "answered", token |-> token]]

\* Mutant of redeem: the token is rotated, so that whoever else holds it holds nothing.
redeem_Rotates(t, s) ==
    LET n == CHOOSE m \in Sessions : \A o \in Sessions : o <= m
    IN  /\ row' = IF row[s] > 0 THEN [row EXCEPT ![s] = 0, ![n] = RefreshTtl] ELSE row
        /\ answers(t, IF row[s] > 0 THEN Fresh(n) ELSE Blank)

\* Mutant of redeem: a row the sweep has not removed yet is taken although it has lapsed.
redeem_Lapsed(t, s) == row' = row /\ answers(t, Fresh(s))

\* AuthSessionService.refresh: the expiry is pushed out by the update that matches it, the refresh
\* token stays the same, and a new access token is signed.
redeem(t, s) ==
    /\ row' = IF row[s] > 0 THEN [row EXCEPT ![s] = RefreshTtl] ELSE row
    /\ answers(t, IF row[s] > 0 THEN Fresh(s) ELSE Blank)

refresh(t) ==
    /\ renewal[t].at = "sent"
    /\ redeem(t, renewal[t].token.session)
    /\ UNCHANGED <<world, dead, over, tab, storage, req, revoking, ended>>

\* The logout route: the row goes, whether or not it was live.
revoke ==
    \E s \in revoking :
       /\ revoking' = revoking \ {s}
       /\ row' = [row EXCEPT ![s] = 0] /\ over' = over \cup {s}
       /\ UNCHANGED <<world, dead, tab, storage, renewal, req, ended>>

\* Time.  Tokens in hand and in storage expire, and so do rows.  A tick is longer than
\* any call takes, which is what RENEW_WHEN_REMAINING_MS assumes; only a sign-out may take any time.
aged(token) == [token EXCEPT !.left = IF @ > 0 THEN @ - 1 ELSE 0]

Tick ==
    /\ world.ticks > 0 /\ world' = [world EXCEPT !.ticks = @ - 1]
    /\ \A t \in Tabs : renewal[t].at = "none" /\ \A q \in Requests : req[t][q].at = "idle"
    /\ over' = over \cup {s \in Sessions : row[s] = 1}
    /\ row' = [s \in Sessions |-> IF row[s] > 0 THEN row[s] - 1 ELSE 0]
    /\ dead' = [s \in Sessions |-> IF s \in over /\ dead[s] < AccessTtl THEN dead[s] + 1 ELSE dead[s]]
    /\ tab' = [t \in Tabs |-> aged(tab[t])] /\ storage' = aged(storage)
    /\ UNCHANGED <<renewal, req, revoking, ended>>

----------------------------------------------------------------------------
\* A tab.

clearSession(t) == tab' = [tab EXCEPT ![t] = Blank] /\ storage' = Blank

\* authLogic's logout: forget first, then tell the server, which may never hear of it.
logout(t, how) ==
    /\ clearSession(t)
    /\ revoking' = IF tab[t].session = None THEN revoking ELSE revoking \cup {tab[t].session}
    /\ ended' = IF tab[t].session = None THEN ended ELSE [ended EXCEPT ![t] = how]

staysSignedIn == UNCHANGED <<tab, storage, revoking, ended>>

\* What the tab's renewal is after it was asked for now: the one under way, or a new one.
refreshSession(t) ==
    IF renewal[t].at # "none" THEN renewal
    ELSE [renewal EXCEPT ![t] = [at |-> "sent", token |-> tab[t]]]

\* ensureFreshAccessToken: whether it renews first.  A clock that is wrong may say either.
stale(t) ==
    IF tab[t].session = None THEN {FALSE}
    ELSE IF Fault("clock") THEN BOOLEAN ELSE {tab[t].left <= Margin}

\* The clock, the window's focus, or the network coming back.
renewIfNeeded(t) ==
    /\ TRUE \in stale(t) /\ renewal[t].at = "none"
    /\ renewal' = refreshSession(t)
    /\ staysSignedIn /\ UNCHANGED <<world, row, dead, over, req>>

\* The request interceptor, for a request that speaks for somebody.
ask(t, q) ==
    /\ world.asks > 0 /\ world' = [world EXCEPT !.asks = @ - 1]
    /\ req[t][q].at = "idle" /\ tab[t].session # None
    /\ \E renews \in stale(t) :
          /\ req' = [req EXCEPT ![t][q] = [Resting EXCEPT !.at = IF renews THEN "waiting" ELSE "sent",
                                                         !.token = tab[t]]]
          /\ renewal' = IF renews THEN refreshSession(t) ELSE renewal
    /\ staysSignedIn /\ UNCHANGED <<row, dead, over>>

\* The request reaches the server.
answered(t, q) ==
    /\ req[t][q].at = "sent"
    /\ req' = [req EXCEPT ![t][q] = IF accepts(@.token) THEN Resting ELSE [@ EXCEPT !.at = "refused"]]
    /\ staysSignedIn /\ UNCHANGED <<world, row, dead, over, renewal>>

\* The response interceptor's first 401: renew and retry, or end where there is nothing to renew with.
firstRefusal(t, q) ==
    /\ req[t][q].at = "refused" /\ ~req[t][q].retried
    /\ \/ /\ tab[t].session = None /\ renewal[t].at = "none"
          /\ req' = [req EXCEPT ![t][q] = Resting]
          /\ logout(t, "forced") /\ UNCHANGED renewal
       \/ /\ tab[t].session # None \/ renewal[t].at # "none"
          /\ req' = [req EXCEPT ![t][q].at = "again"]
          /\ renewal' = refreshSession(t)
          /\ staysSignedIn
    /\ UNCHANGED <<world, row, dead, over>>

\* The second: this is not about the token.
secondRefusal(t, q) ==
    /\ req[t][q].at = "refused" /\ req[t][q].retried
    /\ req' = [req EXCEPT ![t][q] = Resting]
    /\ logout(t, "forced")
    /\ UNCHANGED <<world, row, dead, over, renewal>>

\* Mutant of resumed: the mark is lost when the request is rebuilt for its retry.
resumed_Unmarked(r, token) ==
    CASE r.at = "waiting" -> [r EXCEPT !.at = "sent", !.token = IF token = Blank THEN @ ELSE token]
      [] r.at = "again" ->
           IF token = Blank THEN Resting ELSE [r EXCEPT !.at = "sent", !.token = token]
      [] OTHER -> r

\* What becomes of a request that waited for a renewal: it goes out, the first time with the old
\* token where the renewal failed; after a 401 it goes out once more, or is over.
resumed(r, token) ==
    CASE r.at = "waiting" -> [r EXCEPT !.at = "sent", !.token = IF token = Blank THEN @ ELSE token]
      [] r.at = "again" ->
           IF token = Blank THEN Resting ELSE [at |-> "sent", token |-> token, retried |-> TRUE]
      [] OTHER -> r

resume(t, token) ==
    /\ req' = [req EXCEPT ![t] = [q \in Requests |-> resumed(@[q], token)]]
    /\ renewal' = [renewal EXCEPT ![t] = NoRenewal]

\* The renewal succeeded: setSession, whatever the tab holds by now.
setSession(t) ==
    /\ renewal[t].at = "answered" /\ renewal[t].token # Blank
    /\ tab' = [tab EXCEPT ![t] = renewal[t].token] /\ storage' = renewal[t].token
    /\ resume(t, renewal[t].token)
    /\ UNCHANGED <<world, row, dead, over, revoking, ended>>

\* It failed, which only a request that was refused turns into a sign-out.
renewalFailed(t) ==
    /\ \/ renewal[t].at = "answered" /\ renewal[t].token = Blank
       \/ renewal[t].at \in {"sent", "answered"} /\ Fault("network")
    /\ resume(t, Blank)
    /\ IF \E q \in Requests : req[t][q].at = "again" THEN logout(t, "forced") ELSE staysSignedIn
    /\ UNCHANGED <<world, row, dead, over>>

signOut(t) ==
    /\ world.logouts > 0 /\ world' = [world EXCEPT !.logouts = @ - 1]
    /\ tab[t].session # None
    /\ logout(t, "user")
    /\ UNCHANGED <<row, dead, over, renewal, req>>

\* A page load: whatever the tab was doing is gone, and it holds what storage says.
load(t, session) ==
    /\ tab' = [tab EXCEPT ![t] = session] /\ storage' = session
    /\ renewal' = [renewal EXCEPT ![t] = NoRenewal]
    /\ req' = [req EXCEPT ![t] = [q \in Requests |-> Resting]]
    /\ ended' = [ended EXCEPT ![t] = "no"]
    /\ UNCHANGED <<dead, over, revoking>>

open(t) ==
    /\ world.pages > 0 /\ world' = [world EXCEPT !.pages = @ - 1]
    /\ load(t, storage) /\ UNCHANGED row

\* GithubCallbackPage, back from GitHub with a code the server takes.
login(t) ==
    \E s \in world.logins :
       /\ tab[t].session = None /\ \A o \in world.logins : s <= o
       /\ world' = [world EXCEPT !.logins = @ \ {s}]
       /\ issue(s) /\ load(t, Fresh(s))

\* Best-effort: the sign-out never reaches the server.
signOutLost ==
    /\ Fault("network")
    /\ \E s \in revoking : revoking' = revoking \ {s}
    /\ UNCHANGED <<world, row, dead, over, tab, storage, renewal, req, ended>>

request(t) == \E q \in Requests : answered(t, q) \/ firstRefusal(t, q) \/ secondRefusal(t, q)
renewed(t) == setSession(t) \/ renewalFailed(t)

Next ==
    \/ revoke \/ signOutLost \/ Tick
    \/ \E t \in Tabs :
          \/ refresh(t) \/ request(t) \/ renewed(t)
          \/ \E q \in Requests : ask(t, q)
          \/ renewIfNeeded(t) \/ signOut(t) \/ open(t) \/ login(t)

\* Whatever was sent is answered in the end.  Nothing makes anyone ask, sign out or come back.
Fairness ==
    /\ WF_vars(revoke)
    /\ \A t \in Tabs : WF_vars(refresh(t)) /\ WF_vars(renewed(t)) /\ WF_vars(request(t))

Spec == Init /\ [][Next]_vars
FairSpec == Spec /\ Fairness

----------------------------------------------------------------------------
\* Properties.

Tokens == [session : Sessions \cup {None}, left : 0 .. AccessTtl]

\* Type correctness.
TypeOK ==
    /\ row \in [Sessions -> 0 .. RefreshTtl] /\ dead \in [Sessions -> Nat] /\ over \subseteq Sessions
    /\ tab \in [Tabs -> Tokens] /\ storage \in Tokens
    /\ renewal \in [Tabs -> [at : {"none", "sent", "answered"}, token : Tokens]]
    /\ req \in [Tabs -> [Requests -> [at : {"idle", "waiting", "sent", "refused", "again"},
                                      token : Tokens, retried : BOOLEAN]]]
    /\ revoking \subseteq Sessions /\ ended \in [Tabs -> {"no", "user", "forced"}]

\* Every copy of an access token, wherever it is.
copies == {tab[t] : t \in Tabs} \cup {storage} \cup {renewal[t].token : t \in Tabs}
          \cup {req[t][q].token : t \in Tabs, q \in Requests}

\* No access token outlives its session by more than its own time to live, however many tabs renew
\* it while it is being revoked: why accessTokenTtlSeconds is an hour (AuthSessionService.revoke).
OutlivesByATtl ==
    \A k \in copies : k.session \in over /\ k.left > 0 =>
        k.left + dead[k.session] <= AccessTtl

\* Nobody is signed out of a tab by a 401 while the session it holds could still be renewed, whatever
\* the other tabs do: the comment above redeem.  Only a network or a server that fails may do it.
KeptSignedIn ==
    [][\A t \in Tabs :
         ended[t] # "forced" /\ ended'[t] = "forced" /\ world.faults \subseteq {"clock"} =>
            tab[t].session \in over]_vars

\* Every request comes to an end, even where the server refuses every token: no 401 loop forms.
EveryRequestEnds == []<>(\A t \in Tabs, q \in Requests : req[t][q].at = "idle")

=============================================================================
