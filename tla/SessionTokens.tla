---------------------------- MODULE SessionTokens ----------------------------
(***************************************************************************)
(* Sign-in sessions: the refresh_token rows, and the requests that mint,   *)
(* rotate and revoke them.                                                 *)
(*                                                                         *)
(*   - A login starts a rotation chain; every refresh revokes the token it *)
(*     is given as "rotated" and adds a successor to the chain.  A rotated *)
(*     token is accepted again for a grace window.                         *)
(*   - A logout and a session's revocation end one chain, a password       *)
(*     change, a deactivation and a theft response all chains of a user.   *)
(*   - Requests run concurrently.  Each is one transaction that first waits *)
(*     for the session locks of its users, then reads, then writes and     *)
(*     commits; a login checks its credentials in a transaction before it. *)
(*                                                                         *)
(* Each request reads the clock when it begins, before it waits.           *)
(***************************************************************************)
EXTENDS Integers, FiniteSets

CONSTANTS
    Users,       \* user ids, numbered in the order of their session-lock keys
    Requests,    \* concurrent requests
    NoRequest,   \* a lock nobody holds
    Grace,       \* reuse_grace
    Ttl,         \* refresh_ttl
    MaxTokens,   \* bound: refresh tokens ever minted
    MaxTime,     \* bound: the clock
    MaxChanges,  \* bound: password changes per user
    MaxRequests  \* bound: requests ever served

ASSUME UsersAssumption == Users \subseteq Nat /\ IsFiniteSet(Users)
ASSUME RequestsAssumption == NoRequest \notin Requests /\ IsFiniteSet(Requests)
ASSUME TimesAssumption == Grace \in Nat /\ Ttl \in Nat /\ MaxTime \in Nat
ASSUME TokenBounds == MaxTokens \in Nat /\ MaxChanges \in Nat /\ MaxRequests \in Nat

VARIABLES
    issued,     \* tokens minted so far: the ids 1 .. issued
    owner,      \* per token: user_id
    chain,      \* per token: chain_id, named after the login's token
    bornAt,     \* per token: issued_at
    revokedAt,  \* per token: revoked_at, -1 = NULL
    reason,     \* per token: revoked_reason, "none" = NULL; "revoked" is any of family,
                \* logout and user, which nothing tells apart
    checked,    \* per token: the password its chain's login was checked against
    password,   \* per user: password_hash, as a version
    active,     \* per user: active
    rowLock,    \* per user: the request that has updated the user's row
    lock,       \* per user: the request that holds the session lock
    req,        \* per request: its operation, step and locals
    clock,      \* the time
    served,     \* requests so far
    ended       \* history: chains some request has ended

tokenVars == <<issued, owner, chain, bornAt, revokedAt, reason, checked>>
userVars == <<password, active>>
lockVars == <<rowLock, lock>>
vars == <<tokenVars, userVars, lockVars, req, clock, served, ended>>

Ids == 1 .. MaxTokens
Issued == 1 .. issued
NoToken == 0

Idle == [op |-> "none", pc |-> "idle", user |-> 0, body |-> NoToken, cookie |-> NoToken,
         seen |-> 0, now |-> 0, verdict |-> "none", fresh |-> FALSE, stray |-> FALSE]

Init ==
    /\ issued = 0
    /\ owner = [t \in Ids |-> 0]
    /\ chain = [t \in Ids |-> NoToken]
    /\ bornAt = [t \in Ids |-> 0]
    /\ revokedAt = [t \in Ids |-> -1]
    /\ reason = [t \in Ids |-> "none"]
    /\ checked = [t \in Ids |-> 0]
    /\ password = [u \in Users |-> 0]
    /\ active = [u \in Users |-> TRUE]
    /\ rowLock = [u \in Users |-> NoRequest]
    /\ lock = [u \in Users |-> NoRequest]
    /\ req = [r \in Requests |-> Idle]
    /\ clock = 0
    /\ served = 0
    /\ ended = {}

Tick ==
    /\ clock < MaxTime
    /\ clock' = clock + 1
    /\ UNCHANGED <<tokenVars, userVars, lockVars, req, served, ended>>

-----------------------------------------------------------------------------
\* Requests arrive.

Minting == {r \in Requests : req[r].op \in {"login", "refresh"}}
MayMint == issued + Cardinality(Minting) < MaxTokens

Begin(r, op, pc, u, t, k) ==
    /\ req[r] = Idle /\ served < MaxRequests
    /\ served' = served + 1
    /\ req' = [req EXCEPT ![r] =
          [op |-> op, pc |-> pc, user |-> u, body |-> t, cookie |-> k,
           seen |-> IF op \in {"login", "password"} THEN password[u] ELSE 0,
           now |-> clock, verdict |-> "none", fresh |-> FALSE, stray |-> FALSE]]
    /\ UNCHANGED <<tokenVars, userVars, lockVars, clock, ended>>

\* The token presented and the one it supersedes, if any.
Refresh(r, t, k) == MayMint /\ Begin(r, "refresh", "locking", owner[t], t, k)
Logout(r, t, k) == Begin(r, "logout", "locking", owner[IF t = NoToken THEN k ELSE t], t, k)

\* The endpoints: the body's token wins over the cookie's, which it then supersedes.  A
\* refresh of a token no row has changes nothing; a logout of one still ends the
\* cookie's session.
Presented(body, cookie) == IF body = NoToken THEN cookie ELSE body
Superseded(body, cookie) == IF body \in {NoToken, cookie} THEN NoToken ELSE cookie
\* A request is served once at a time; the inputs matter only then.
Serves(r) == req[r] = Idle /\ served < MaxRequests
refresh(r) ==
    Serves(r) /\ \E body, cookie \in Issued \cup {NoToken} :
        /\ Presented(body, cookie) # NoToken
        /\ Refresh(r, Presented(body, cookie), Superseded(body, cookie))
logout(r) ==
    /\ Serves(r)
    /\ \/ \E body, cookie \in Issued \cup {NoToken} :
           /\ Presented(body, cookie) # NoToken
           /\ Logout(r, Presented(body, cookie), Superseded(body, cookie))
       \/ \E cookie \in Issued : Logout(r, NoToken, cookie)

\* The credentials are checked in a transaction of their own.
Login(r, u) == MayMint /\ active[u] /\ Begin(r, "login", "locking", u, NoToken, NoToken)

\* RevokeSession ends the session of a token of the caller, RevokeOtherSessions spares
\* the token the caller names, if it is the caller's.
RevokeSession(r, t) == Begin(r, "revoke", "locking", owner[t], t, NoToken)
RevokeOtherSessions(r, u, t) == Begin(r, "others", "locking", u, t, NoToken)

\* ChangePassword and a deactivation update the user's row before anything else.
ChangePassword(r, u) ==
    password[u] < MaxChanges /\ Begin(r, "password", "updating", u, NoToken, NoToken)
Deactivate(r, u) == Begin(r, "disable", "updating", u, NoToken, NoToken)

\* The caller of these is authenticated: an active user.
current_user(u) == active[u]
change_password(r, u) == current_user(u) /\ ChangePassword(r, u)
revoke_session(r, u) == Serves(r) /\ current_user(u) /\ \E t \in Issued : owner[t] = u /\ RevokeSession(r, t)
revoke_other_sessions(r, u) ==
    Serves(r) /\ current_user(u) /\ \E t \in Issued \cup {NoToken} : RevokeOtherSessions(r, u, t)

\* Reactivation takes no session lock; its UPDATE waits for the row.
Reactivate(u) ==
    /\ rowLock[u] = NoRequest /\ ~active[u]
    /\ active' = [active EXCEPT ![u] = TRUE]
    /\ UNCHANGED <<tokenVars, password, lockVars, req, clock, served, ended>>

-----------------------------------------------------------------------------
\* Locks.

Finish(r) ==
    /\ req' = [req EXCEPT ![r] = Idle]
    /\ lock' = [u \in Users |-> IF lock[u] = r THEN NoRequest ELSE lock[u]]
    /\ rowLock' = [u \in Users |-> IF rowLock[u] = r THEN NoRequest ELSE rowLock[u]]

\* The row's UPDATE (a deactivation locks the row first, to the same effect).  It does
\* not wait for the FOR KEY SHARE of a token's INSERT.  A password changed meanwhile matches nothing
\* (change_password_hash); the uncommitted row is nobody else's to see.
UpdateRow(r) ==
    LET u == req[r].user
    IN /\ req[r].pc = "updating" /\ rowLock[u] = NoRequest
       /\ IF req[r].op = "password" /\ password[u] # req[r].seen
          THEN Finish(r)
          ELSE /\ rowLock' = [rowLock EXCEPT ![u] = r]
               /\ req' = [req EXCEPT ![r].pc = "locking",
                     ![r].now = IF req[r].op = "disable" THEN clock ELSE @]
               /\ UNCHANGED lock
       /\ UNCHANGED <<tokenVars, userVars, clock, served, ended>>

\* The users whose session locks r takes, and the ones it still lacks.
Needs(r) == {req[r].user} \cup
            (IF req[r].cookie = NoToken THEN {} ELSE {owner[req[r].cookie]})
Lacks(r) == {u \in Needs(r) : lock[u] # r}

\* _lock_sessions goes by ascending key.
NextLocksUnordered(r) == Lacks(r)
NextLocks(r) == {u \in Lacks(r) : \A v \in Lacks(r) : u <= v}

Readers == {"refresh", "login"}

Acquire(r, u) ==
    /\ req[r].pc = "locking"
    /\ u \in NextLocks(r)
    /\ lock[u] = NoRequest
    /\ lock' = [lock EXCEPT ![u] = r]
    /\ req' = [req EXCEPT ![r].pc = IF Lacks(r) # {u} THEN "locking"
                                    ELSE IF req[r].op \in Readers THEN "reading" ELSE "writing"]
    /\ UNCHANGED <<tokenVars, userVars, rowLock, clock, served, ended>>

-----------------------------------------------------------------------------
\* Reads, under the locks.

IsActive(t, now) == revokedAt[t] = -1 /\ bornAt[t] + Ttl > now

\* What a refresh of t at now comes to.
Graced(t, now) == reason[t] = "rotated" /\ now - revokedAt[t] <= Grace
Verdict(t, now) ==
    IF bornAt[t] + Ttl <= now \/ reason[t] = "superseded" THEN "invalid"
    ELSE IF revokedAt[t] # -1 /\ ~Graced(t, now) THEN "theft"
    ELSE "rotate"

\* Only an unrevoked token is stamped by its rotation.
Fresh(t) == revokedAt[t] = -1

\* _refusal, on the user as re-read under the lock.
AdmitsAnyway(r) == TRUE
Admits(r) == password[req[r].user] = req[r].seen /\ active[req[r].user]

ReadRefresh(r) ==
    LET t == req[r].body
        k == req[r].cookie
        now == req[r].now
    IN req' = [req EXCEPT ![r].pc = "writing",
                  ![r].verdict = Verdict(t, now),
                  ![r].fresh = Fresh(t),
                  ![r].stray = k # NoToken /\ k # t /\ IsActive(k, now)]

ReadLogin(r) ==
    req' = [req EXCEPT ![r].pc = "writing",
                       ![r].verdict = IF Admits(r) THEN "admit" ELSE "refuse"]

Read(r) ==
    /\ req[r].pc = "reading"
    /\ IF req[r].op = "refresh" THEN ReadRefresh(r) ELSE ReadLogin(r)
    /\ UNCHANGED <<tokenVars, userVars, lockVars, clock, served, ended>>

-----------------------------------------------------------------------------
\* Writes, each with its commit.

\* The rows a revocation changes: a rotated predecessor changes its reason too, so
\* that the grace cannot bring its session back.
UnrevokedOnly(t) == reason[t] = "none"
Revocable(t) == reason[t] \in {"none", "rotated"}

\* coalesce(revoked_at, now).
RevocationTime(t, now) == IF revokedAt[t] = -1 THEN now ELSE revokedAt[t]

\* revoke_chain and the revoke_all_* updates, over the tokens ts.
RevokeAll(ts, why, now) ==
    LET hit == {t \in ts : Revocable(t)}
    IN /\ reason' = [t \in Ids |-> IF t \in hit THEN why ELSE reason[t]]
       /\ revokedAt' = [t \in Ids |-> IF t \in hit THEN RevocationTime(t, now)
                                                   ELSE revokedAt[t]]

Chain(c) == {t \in Issued : chain[t] = c}
Family(u) == {t \in Issued : owner[t] = u}
ChainsOf(ts) == {chain[t] : t \in ts}

\* issue_token_pair.
Mint(u, c, now, seen) ==
    /\ issued' = issued + 1
    /\ owner' = [owner EXCEPT ![issued + 1] = u]
    /\ chain' = [chain EXCEPT ![issued + 1] = c]
    /\ bornAt' = [bornAt EXCEPT ![issued + 1] = now]
    /\ checked' = [checked EXCEPT ![issued + 1] = seen]
MintNone == UNCHANGED <<issued, owner, chain, bornAt, checked>>

WriteLogin(r) ==
    /\ req[r].op = "login"
    /\ IF req[r].verdict = "admit"
       THEN Mint(req[r].user, issued + 1, req[r].now, req[r].seen)
       ELSE MintNone
    /\ UNCHANGED <<revokedAt, reason, userVars, ended>>

\* The rotation's own stamp, then the cookie that lost precedence: alone if it is of
\* the body's session, with its whole chain otherwise.
WriteRotate(r) ==
    LET t == req[r].body
        k == req[r].cookie
        now == req[r].now
        rotated == IF req[r].fresh THEN {t} ELSE {}
        foreign == IF k # NoToken /\ chain[k] # chain[t]
                   THEN {s \in Chain(chain[k]) : Revocable(s)} ELSE {}
        retired == foreign \cup (IF req[r].stray /\ chain[k] = chain[t] THEN {k} ELSE {})
    IN /\ req[r].op = "refresh" /\ req[r].verdict = "rotate"
       /\ reason' = [s \in Ids |-> IF s \in retired THEN "superseded"
                                   ELSE IF s \in rotated THEN "rotated" ELSE reason[s]]
       /\ revokedAt' = [s \in Ids |->
             IF s \in foreign THEN RevocationTime(s, now)
             ELSE IF s \in retired \cup rotated THEN now ELSE revokedAt[s]]
       /\ Mint(owner[t], chain[t], now, checked[t])
       /\ ended' = ended \cup ChainsOf(foreign)
       /\ UNCHANGED userVars

WriteTheft(r) ==
    LET ts == Family(req[r].user)
    IN /\ req[r].op = "refresh" /\ req[r].verdict = "theft"
       /\ RevokeAll(ts, "revoked", req[r].now)
       /\ ended' = ended \cup ChainsOf(ts)
       /\ MintNone /\ UNCHANGED userVars

WriteInvalid(r) ==
    /\ req[r].op = "refresh" /\ req[r].verdict = "invalid"
    /\ UNCHANGED <<tokenVars, userVars, ended>>

WriteLogout(r) ==
    LET t0 == req[r].body
        k == req[r].cookie
        mine == IF t0 = NoToken THEN {} ELSE Chain(chain[t0])
        other == IF k = NoToken THEN {} ELSE Chain(chain[k]) \ mine
        hit == {t \in mine \cup other : Revocable(t)}
    IN /\ req[r].op = "logout"
       /\ reason' = [t \in Ids |-> IF t \in hit
             THEN IF t \in mine THEN "revoked" ELSE "superseded" ELSE reason[t]]
       /\ revokedAt' = [t \in Ids |-> IF t \in hit THEN RevocationTime(t, req[r].now)
                                                   ELSE revokedAt[t]]
       /\ ended' = ended \cup ChainsOf(mine \cup other)
       /\ MintNone /\ UNCHANGED userVars

\* revoke_by_id misses a chain that has no unrevoked token left.
WriteRevoke(r) ==
    LET ts == Chain(chain[req[r].body])
        found == \E t \in ts : reason[t] = "none"
    IN /\ req[r].op = "revoke"
       /\ IF found THEN RevokeAll(ts, "revoked", req[r].now) ELSE UNCHANGED <<reason, revokedAt>>
       /\ ended' = IF found THEN ended \cup ChainsOf(ts) ELSE ended
       /\ MintNone /\ UNCHANGED userVars

\* revoke_all_for_user_except spares one token, and so its chain.
WriteOthers(r) ==
    LET ts == Family(req[r].user) \ {req[r].body}
        spared == Family(req[r].user) \cap {req[r].body}
    IN /\ req[r].op = "others"
       /\ RevokeAll(ts, "revoked", req[r].now)
       /\ ended' = ended \cup (ChainsOf(ts) \ ChainsOf(spared))
       /\ MintNone /\ UNCHANGED userVars

\* The row's update and the revocation of every session commit together.
WriteUser(r) ==
    LET u == req[r].user
        ts == Family(u)
    IN /\ req[r].op \in {"password", "disable"}
       /\ password' = IF req[r].op = "password"
                      THEN [password EXCEPT ![u] = @ + 1] ELSE password
       /\ active' = IF req[r].op = "disable" THEN [active EXCEPT ![u] = FALSE] ELSE active
       /\ RevokeAll(ts, "revoked", req[r].now)
       /\ ended' = ended \cup ChainsOf(ts)
       /\ MintNone

Write(r) ==
    /\ req[r].pc = "writing"
    /\ \/ WriteLogin(r) \/ WriteRotate(r) \/ WriteTheft(r) \/ WriteInvalid(r)
       \/ WriteLogout(r) \/ WriteRevoke(r) \/ WriteOthers(r) \/ WriteUser(r)
    /\ Finish(r)
    /\ UNCHANGED <<clock, served>>

-----------------------------------------------------------------------------
Next ==
    \/ Tick
    \/ \E u \in Users : Reactivate(u)
    \/ \E r \in Requests :
          \/ refresh(r) \/ logout(r)
          \/ \E u \in Users :
                \/ Login(r, u) \/ change_password(r, u) \/ Deactivate(r, u) \/ Acquire(r, u)
                \/ revoke_session(r, u) \/ revoke_other_sessions(r, u)
          \/ UpdateRow(r) \/ Read(r) \/ Write(r)

Spec == Init /\ [][Next]_vars

-----------------------------------------------------------------------------
Reasons == {"none", "rotated", "superseded", "revoked"}
Ops == {"login", "refresh", "logout", "revoke", "others", "password", "disable"}
Verdicts == {"none", "rotate", "theft", "invalid", "admit", "refuse"}
Tokens == 0 .. MaxTokens
RequestRecords == {Idle} \cup
    [op : Ops, pc : {"updating", "locking", "reading", "writing"}, user : Users,
     body : Tokens, cookie : Tokens, seen : 0 .. MaxChanges, now : 0 .. MaxTime,
     verdict : Verdicts, fresh : BOOLEAN, stray : BOOLEAN]

TypeOK ==
    /\ issued \in 0 .. MaxTokens
    /\ owner \in [Ids -> Users \cup {0}]
    /\ chain \in [Ids -> Tokens]
    /\ bornAt \in [Ids -> 0 .. MaxTime]
    /\ revokedAt \in [Ids -> -1 .. MaxTime]
    /\ reason \in [Ids -> Reasons]
    /\ checked \in [Ids -> 0 .. MaxChanges]
    /\ \A t \in Ids : reason[t] = "none" <=> revokedAt[t] = -1
    /\ password \in [Users -> 0 .. MaxChanges]
    /\ active \in [Users -> BOOLEAN]
    /\ rowLock \in [Users -> Requests \cup {NoRequest}]
    /\ lock \in [Users -> Requests \cup {NoRequest}]
    /\ req \in [Requests -> RequestRecords]
    /\ clock \in 0 .. MaxTime
    /\ served \in 0 .. MaxRequests
    /\ ended \subseteq Ids

\* A session that was ended stays ended: none of its tokens is active or would be
\* accepted in the grace window, not even the successor that a refresh racing the
\* end was minting.
EndedStaysEnded ==
    \A t \in Issued : chain[t] \in ended => reason[t] \notin {"none", "rotated"}

\* No session survives the credentials it was opened with: a password change or a
\* deactivation leaves none behind, though logins and refreshes were under way.
SessionsMatchCredentials ==
    \A t \in Issued : reason[t] \in {"none", "rotated"} =>
        checked[t] = password[owner[t]] /\ active[owner[t]]

\* The grace window of a rotated token is not rolled forward by its reuse, nor any
\* time of revocation rewritten.
WindowNeverRolls ==
    [][\A t \in Issued : revokedAt[t] # -1 => revokedAt'[t] = revokedAt[t]]_vars

\* What r waits for: the holder of the lock it takes next.
WaitsFor(r) ==
    IF req[r].pc = "updating" THEN {rowLock[req[r].user]}
    ELSE IF req[r].pc = "locking" THEN {lock[u] : u \in NextLocks(r)} ELSE {}

\* Requests never wait for each other in a circle: user rows come before session locks
\* and session locks in key order, so among any waiting requests one waits for a
\* request outside them, or for nobody.
NoDeadlock ==
    \A waiting \in (SUBSET Requests) \ {{}} :
        \E r \in waiting : WaitsFor(r) \cap waiting = {}

=============================================================================
