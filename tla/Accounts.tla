------------------------------ MODULE Accounts ------------------------------
(***************************************************************************)
(* The rows that say who somebody is, and everything keyed to them.  A login     *)
(* reads a person's profile at GitHub, finds their row by the id GitHub never      *)
(* reuses, takes their handle off every other row and writes it, with the new        *)
(* token, to theirs (GithubAuthLoginService, UserWriteService).  A refused token       *)
(* is cleared by whoever was refused.  An account is deleted collection by              *)
(* collection, the row last (UserDeletionService), while requests and webhooks that       *)
(* read the row earlier may still write what is keyed to it.                                *)
(*                                                                           *)
(* Each step is what one call does between two awaits.                           *)
(***************************************************************************)
EXTENDS Integers, FiniteSets, Sequences

CONSTANTS
    People, Handles,   \* GitHub's accounts and the names they may have
    Nobody, NoHandle,
    Ids,               \* ids of user rows, in the order they are created
    Logins, Readers, Writers,   \* the logins, the uses of a token and the writes under way
    AccountWorlds      \* how often each thing happens

ASSUME IdsAssumption == Ids \subseteq Nat \ {0} /\ IsFiniteSet(Ids)
ASSUME NobodyAssumption == Nobody \notin People /\ NoHandle \notin Handles
ASSUME SlotsAssumption == Logins \cap Readers = {}
ASSUME AccountWorldsAssumption ==
    AccountWorlds \subseteq [logins : Nat, renames : Nat, uses : Nat, writes : Nat, deletions : Nat,
                      restarts : Nat]

VARIABLES
    accountWorld,  \* what may still happen
    handle,        \* what GitHub calls each person
    granted,       \* the tokens each person was given, counted, and the last of them withdrawn
    user,          \* the rows
    keyed,         \* what is keyed to each row, by collection
    signing,       \* the logins under way
    use,           \* the requests that carry somebody's token to GitHub
    writing,       \* what is about to be written for a user read earlier
    deletion,      \* where each account's deletion has come to, 0 where none is under way
    outrun,        \* history: the logins, and the uses of a token, that a login has overtaken: it wrote
                   \* to the row, or under the name, that they read before
    named,         \* history: the handle each person's last login gave them, till another proves it or
                   \* a login that was outrun takes it
    late           \* history: what was written after a deletion had been through its collection

accountVars == <<accountWorld, handle, granted, user, keyed, signing, use, writing, deletion, outrun, named, late>>

\* The collections a deletion goes through, in its order, the row itself last.
Collections == <<"sessions", "subscriptions", "pokes", "senders", "announcements", "links", "installedBy">>
Collected == {Collections[n] : n \in DOMAIN Collections}

Absent == [who |-> Nobody, handle |-> NoHandle, token |-> 0]
NoLogin == [at |-> "idle", who |-> Nobody, handle |-> NoHandle, token |-> 0, id |-> 0]
NoUse   == [at |-> "idle", id |-> 0, who |-> Nobody, token |-> 0]
NoWrite == [id |-> 0, what |-> "sessions"]

exists(i) == user[i].who # Nobody
spent(what) == /\ accountWorld[what] > 0
               /\ accountWorld' = [accountWorld EXCEPT ![what] = @ - 1]

AccountsInit ==
    /\ accountWorld \in AccountWorlds
    /\ handle \in {h \in [People -> Handles] : \A p, q \in People : h[p] = h[q] => p = q}
    /\ granted = [p \in People |-> [last |-> 0, withdrawn |-> 0]]
    /\ user = [i \in Ids |-> Absent] /\ keyed = [i \in Ids |-> {}]
    /\ signing = [l \in Logins |-> NoLogin] /\ use = [r \in Readers |-> NoUse]
    /\ writing = [w \in Writers |-> NoWrite] /\ deletion = [i \in Ids |-> 0]
    /\ outrun = {} /\ named = [p \in People |-> NoHandle] /\ late = [i \in Ids |-> {}]

----------------------------------------------------------------------------
\* GitHub.  Somebody takes another name, which frees the one they had; or withdraws their tokens.
rename(p) ==
    /\ spent("renames")
    /\ \E h \in Handles : (\A q \in People : handle[q] # h) /\ handle' = [handle EXCEPT ![p] = h]
    /\ UNCHANGED <<granted, user, keyed, signing, use, writing, deletion, outrun, named, late>>

withdraw(p) ==
    /\ spent("renames") /\ granted[p].last > granted[p].withdrawn
    /\ granted' = [granted EXCEPT ![p] = [@ EXCEPT !.withdrawn = granted[p].last]]
    /\ UNCHANGED <<handle, user, keyed, signing, use, writing, deletion, outrun, named, late>>

----------------------------------------------------------------------------
\* A login.  getAccessToken and getGithubProfile: a new token, and the handle as it is now.
exchange(l, p) ==
    /\ signing[l].at = "idle" /\ spent("logins")
    /\ granted' = [granted EXCEPT ![p] = [@ EXCEPT !.last = granted[p].last + 1]]
    /\ signing' = [signing EXCEPT ![l] = [at |-> "profile", who |-> p, handle |-> handle[p],
                                      token |-> granted[p].last + 1, id |-> 0]]
    /\ outrun' = outrun \ {l}
    /\ UNCHANGED <<handle, user, keyed, use, writing, deletion, named, late>>

\* Mutant of rowOf: the row is looked up by the handle.
rowOf_Handle(p) == LET theirs == {i \in Ids : user[i].handle = handle[p]}
                   IN  IF theirs = {} THEN 0 ELSE CHOOSE i \in theirs : TRUE

\* Whose row it is: the one with this id, whatever it is called now; 0 where there is none.
rowOf(p) == LET theirs == {i \in Ids : user[i].who = p}
            IN  IF theirs = {} THEN 0 ELSE CHOOSE i \in theirs : TRUE

readByGithubId(l) ==
    /\ signing[l].at = "profile"
    /\ signing' = [signing EXCEPT ![l] = [@ EXCEPT !.at = "read", !.id = rowOf(signing[l].who)]]
    /\ UNCHANGED <<accountWorld, handle, granted, user, keyed, use, writing, deletion, outrun, named, late>>

\* Mutant of releases: rows that hold the handle are left alone, as update would leave them.
releases_Nobody(h, except) == {}

\* The rows that lose the handle: all that hold it but the one about to.
releases(h, except) == {i \in Ids \ {except} : user[i].handle = h}

releaseGithubLogin(l) ==
    LET h == signing[l].handle
    IN  /\ signing[l].at = "read"
        /\ user' = [i \in Ids |-> IF i \in releases(h, signing[l].id)
                                  THEN [user[i] EXCEPT !.handle = NoHandle] ELSE user[i]]
        /\ named' = [p \in People |-> IF named[p] = h /\ (p # signing[l].who \/ l \in outrun)
                                     THEN NoHandle ELSE named[p]]
        /\ signing' = [signing EXCEPT ![l] = [@ EXCEPT !.at = "released"]]
        /\ UNCHANGED <<accountWorld, handle, granted, keyed, use, writing, deletion, outrun, late>>

\* The unique indexes on githubId and githubLoginLower, of which either may refuse the write.
refusesRow(l, id) ==
    \E i \in Ids \ {id} : user[i].who = signing[l].who \/ user[i].handle = signing[l].handle

throws(l) ==
    /\ signing[l].at = "released"
    /\ IF signing[l].id = 0 THEN refusesRow(l, 0)
                          ELSE ~exists(signing[l].id) \/ refusesRow(l, signing[l].id)
    /\ signing' = [signing EXCEPT ![l] = NoLogin]
    /\ UNCHANGED <<accountWorld, handle, granted, user, keyed, use, writing, deletion, outrun, named, late>>

\* Whom the login overtakes as it writes row i: other logins of its person or under its handle, and
\* whoever carries a token they read from the row.
overtaken(l, i) ==
    {o \in Logins \ {l} : signing[o].who = signing[l].who \/ signing[o].handle = signing[l].handle}
        \cup {r \in Readers : use[r].id = i}

claims(l, i, who) ==
    /\ outrun' = outrun \cup overtaken(l, i)
    /\ user' = [user EXCEPT ![i] = [who |-> who, handle |-> signing[l].handle, token |-> signing[l].token]]
    /\ named' = [named EXCEPT ![who] = signing[l].handle]
    /\ signing' = [signing EXCEPT ![l] = [@ EXCEPT !.at = "claimed", !.id = i]]
    /\ UNCHANGED <<accountWorld, handle, granted, keyed, use, writing, deletion, late>>

update(l) ==
    /\ signing[l].at = "released" /\ signing[l].id # 0
    /\ exists(signing[l].id) /\ ~refusesRow(l, signing[l].id)
    /\ claims(l, signing[l].id, user[signing[l].id].who)

\* An id that was never used: those of deleted rows are not.
create(l) ==
    /\ signing[l].at = "released" /\ signing[l].id = 0 /\ ~refusesRow(l, 0)
    /\ \E i \in Ids : /\ \A o \in Ids : o < i => exists(o) \/ deletion[o] = -1
                      /\ ~exists(i) /\ deletion[i] # -1
                      /\ claims(l, i, signing[l].who)

\* What is written to a collection that a deletion of the account has already been through.
belated(i, what) ==
    IF deletion[i] = -1 \/ \E n \in DOMAIN Collections : n < deletion[i] /\ Collections[n] = what
    THEN {what} ELSE {}

put(i, what) ==
    /\ keyed' = [keyed EXCEPT ![i] = @ \cup {what}]
    /\ late' = [late EXCEPT ![i] = @ \cup belated(i, what)]

\* AuthSessionService.issue: a session for the row, which is the end of the login.
issueSession(l) ==
    /\ signing[l].at = "claimed"
    /\ put(signing[l].id, "sessions")
    /\ signing' = [signing EXCEPT ![l] = NoLogin]
    /\ UNCHANGED <<accountWorld, handle, granted, user, use, writing, deletion, outrun, named>>

Login == \E l \in Logins :
    \/ \E p \in People : exchange(l, p)
    \/ readByGithubId(l) \/ releaseGithubLogin(l) \/ throws(l) \/ update(l) \/ create(l) \/ issueSession(l)

----------------------------------------------------------------------------
\* A token is used: read from the row and carried to GitHub, which refuses it once it is withdrawn.
readsToken(r, i) ==
    /\ use[r].at = "idle" /\ user[i].token # 0 /\ spent("uses")
    /\ use' = [use EXCEPT ![r] = [at |-> "asked", id |-> i, who |-> user[i].who, token |-> user[i].token]]
    /\ outrun' = outrun \ {r}
    /\ UNCHANGED <<handle, granted, user, keyed, signing, writing, deletion, named, late>>

\* Mutant of unauthorized: whatever GitHub refuses, a quota or an outage, is taken for the token.
unauthorized_Any(r) == TRUE

\* GithubUnauthorizedError: a 401 and nothing else.
unauthorized(r) == use[r].token <= granted[use[r].who].withdrawn

askGithub(r) ==
    /\ use[r].at = "asked"
    /\ use' = [use EXCEPT ![r] = IF unauthorized(r) THEN [@ EXCEPT !.at = "refused"] ELSE NoUse]
    /\ UNCHANGED <<accountWorld, handle, granted, user, keyed, signing, writing, deletion, outrun, named, late>>

\* By id, whatever token is on the row by then.
clearGithubAccessToken(r) ==
    /\ use[r].at = "refused"
    /\ user' = [user EXCEPT ![use[r].id] = [@ EXCEPT !.token = 0]]
    /\ use' = [use EXCEPT ![r] = NoUse]
    /\ UNCHANGED <<accountWorld, handle, granted, keyed, signing, writing, deletion, outrun, named, late>>

Use == \E r \in Readers : (\E i \in Ids : readsToken(r, i)) \/ askGithub(r) \/ clearGithubAccessToken(r)

----------------------------------------------------------------------------
\* A subscription, a poke's row, a link: written for a user who was read, or was sent the request, a
\* while ago.
readsUser(w, i) ==
    /\ writing[w].id = 0 /\ exists(i) /\ spent("writes")
    /\ \E what \in Collected \ {"sessions"} : writing' = [writing EXCEPT ![w] = [id |-> i, what |-> what]]
    /\ UNCHANGED <<handle, granted, user, keyed, signing, use, deletion, outrun, named, late>>

writesKeyed(w) ==
    /\ writing[w].id # 0
    /\ put(writing[w].id, writing[w].what)
    /\ writing' = [writing EXCEPT ![w] = NoWrite]
    /\ UNCHANGED <<accountWorld, handle, granted, user, signing, use, deletion, outrun, named>>

Write == \E w \in Writers : (\E i \in Ids : readsUser(w, i)) \/ writesKeyed(w)

----------------------------------------------------------------------------
\* The account is deleted.  Whoever still has an access token can ask, and ask again: it is not
\* looked up.
deleteAccount(i) ==
    /\ exists(i) /\ deletion[i] = 0 /\ spent("deletions")
    /\ deletion' = [deletion EXCEPT ![i] = 1]
    /\ UNCHANGED <<handle, granted, user, keyed, signing, use, writing, outrun, named, late>>

\* Mutant of deleteForUser: one service fails and the rest of the deletion goes on.
deleteForUser_Skips(i, n) ==
    \/ /\ keyed' = [keyed EXCEPT ![i] = @ \ {Collections[n]}] /\ late' = [late EXCEPT ![i] = @ \ {Collections[n]}]
    \/ UNCHANGED <<keyed, late>>

\* One collection's deleteForUser; installedBy is only a pointer, which is unset.
deleteForUser(i, n) ==
    /\ keyed' = [keyed EXCEPT ![i] = @ \ {Collections[n]}]
    /\ late' = [late EXCEPT ![i] = @ \ {Collections[n]}]

deleteNext(i) ==
    /\ deletion[i] \in 1..Len(Collections)
    /\ deleteForUser(i, deletion[i])
    /\ deletion' = [deletion EXCEPT ![i] = @ + 1]
    /\ UNCHANGED <<accountWorld, handle, granted, user, signing, use, writing, outrun, named>>

deleteRow(i) ==
    /\ deletion[i] = Len(Collections) + 1
    /\ named' = [named EXCEPT ![user[i].who] = NoHandle]
    /\ user' = [user EXCEPT ![i] = Absent]
    /\ deletion' = [deletion EXCEPT ![i] = -1]
    /\ UNCHANGED <<accountWorld, handle, granted, keyed, signing, use, writing, outrun, late>>

Delete == \E i \in Ids : deleteAccount(i) \/ deleteNext(i) \/ deleteRow(i)

\* The process is replaced: whatever was under way stops where it was.
RestartAccounts ==
    /\ spent("restarts")
    /\ signing' = [l \in Logins |-> NoLogin] /\ use' = [r \in Readers |-> NoUse]
    /\ writing' = [w \in Writers |-> NoWrite]
    /\ deletion' = [i \in Ids |-> IF deletion[i] = -1 THEN -1 ELSE 0]
    /\ outrun' = {}
    /\ UNCHANGED <<handle, granted, user, keyed, named, late>>

GitHubAccounts == \E p \in People : rename(p) \/ withdraw(p)

AccountsNext == Login \/ Use \/ Write \/ Delete \/ GitHubAccounts \/ RestartAccounts

AccountsSpec == AccountsInit /\ [][AccountsNext]_accountVars

----------------------------------------------------------------------------
\* Somebody's row keeps the handle their last login gave it until another login proves that handle,
\* whatever names people give up and take, however logins overlap and wherever they stop: it is by the
\* handle that a mention finds them.  The one exception is a login of their own that another has
\* outrun, as the second of two first logins: it may take the handle off the row the first has
\* just created, and then be refused (releaseGithubLogin, readByGithubId).
KeepsTheHandle ==
    \A p \in People : named[p] # NoHandle =>
        \E i \in Ids : user[i].who = p /\ user[i].handle = named[p]

\* A login that GitHub has accepted is stopped only by another login of the same person, or under the same
\* handle, that wrote while it was under way, or by the deletion of the row it read: the handle is
\* released before it is claimed, so no row that was there before stands in its way (update, create).
StopsOnlyIfOutrun ==
    [][\A l \in Logins : throws(l) =>
          l \in outrun \/ (signing[l].id # 0 /\ deletion[signing[l].id] = -1)]_accountVars

\* When an account is gone nothing that was keyed to it is left, however often the deletion was cut short
\* and asked for again; but for what was written, on the strength of an earlier read, once the
\* deletion had passed (deleteAccount).
NothingStranded == \A i \in Ids : deletion[i] = -1 => ~exists(i) /\ keyed[i] \subseteq late[i]

\* A token GitHub accepts, once it is on a row, gives way only to a newer one, for as long as the row is
\* there.  Only who was outrun can do otherwise: a login that was overtaken puts its older token
\* over the newer, and a refusal of the token that was there before clears the one that is there now
\* (update, clearGithubAccessToken).
TokensStand ==
    [][\A i \in Ids :
          /\ exists(i) /\ user'[i].who # Nobody
          /\ user[i].token > granted[user[i].who].withdrawn /\ user'[i].token # user[i].token
          => \/ user'[i].token > user[i].token
             \/ \E l \in Logins \cap outrun : update(l) /\ signing[l].id = i
             \/ \E r \in Readers \cap outrun : clearGithubAccessToken(r) /\ use[r].id = i]_accountVars

\* What an account stands on: the handle mentions find it by is its own while it is there, and when it is
\* gone nothing is left of it but what was under way (releaseGithubLogin, deleteAccount).
KeepsAndLeaves == KeepsTheHandle /\ NothingStranded

\* However logins and refusals overlap, only who was outrun is stopped by what another login wrote, or
\* undoes it (update, create, clearGithubAccessToken).
LoginsStand == StopsOnlyIfOutrun /\ TokensStand
===========================================================================
