------------------------------ MODULE AccessMC -------------------------------
(* Small instances of what guards access, for TLC: the sign-in sessions, the  *)
(* accounts, the throttling of sign-ins, a community's roles and the bodies   *)
(* of requests.  Each keeps its own tables and locks and never reads          *)
(* another's, so a behaviour is of one of them.                               *)
EXTENDS SessionTokens, TLC

CONSTANTS t1, t2, None

VARIABLES
  part,    \* the component this behaviour is of
  open, account, desk, boots,
  time, failures, signups, lockout, attempt, made, registered, overlap,
  rows, joins, used, rolePerms, grantPerms, overtaken, tx,
  request, rest, gone, received, bodyEnded, authorized, responding, held, refused,
  discarding, keeps

accountVars == <<open, account, desk, boots>>
loginVars == <<time, failures, signups, lockout, attempt, made, registered, overlap>>
communityVars == <<rows, joins, used, rolePerms, grantPerms, overtaken, tx>>
bodyVars == <<request, rest, gone, received, bodyEnded, authorized, responding, held,
  refused, discarding, keeps>>

CustomRoles == {1}
Perms == {"manage", "x"}
Txs == {t1, t2}

A == INSTANCE Accounts WITH People <- Users, Clerks <- Requests
L == INSTANCE LoginThrottle WITH Attempts <- Requests, UserThreshold <- 2,
  UserWindow <- 1, IpThreshold <- 3, IpWindow <- 1, RegThreshold <- 1, RegWindow <- 2,
  Base <- 1, Maximum <- 3, Horizon <- 4, MaxAttempts <- 4
C == INSTANCE CommunityRoles WITH Manage <- "manage", MaxJoins <- 2
B == INSTANCE RequestBodies WITH ended <- bodyEnded, max_bytes <- 3,
  EARLY_ANSWER_DISCARD_BYTES <- 2, MaxBody <- 6, MaxMessage <- 2

\* The variables of a component that is not the one at work are put aside.
AllInit ==
  /\ part \in {"sessions", "accounts", "logins", "community", "bodies"}
  /\ Init
  /\ IF part = "accounts" THEN A!Init
     ELSE open = 0 /\ account = 0 /\ desk = 0 /\ boots = 0
  /\ IF part = "logins" THEN L!Init
     ELSE time = 0 /\ failures = 0 /\ signups = 0 /\ lockout = 0 /\ attempt = 0
          /\ made = 0 /\ registered = 0 /\ overlap = 0
  /\ IF part = "community" THEN C!Init
     ELSE rows = 0 /\ joins = 0 /\ used = 0 /\ rolePerms = 0 /\ grantPerms = 0
          /\ overtaken = 0 /\ tx = 0
  /\ IF part = "bodies" THEN B!Init
     ELSE request = 0 /\ rest = 0 /\ gone = 0 /\ received = 0 /\ bodyEnded = 0
          /\ authorized = 0 /\ responding = 0 /\ held = 0 /\ refused = 0
          /\ discarding = 0 /\ keeps = 0

AllNext ==
  \/ part = "sessions" /\ Next /\ UNCHANGED <<part, accountVars, loginVars,
     communityVars, bodyVars>>
  \/ part = "accounts" /\ A!Next /\ UNCHANGED <<part, vars, loginVars, communityVars,
     bodyVars>>
  \/ part = "logins" /\ L!Next /\ UNCHANGED <<part, vars, accountVars, communityVars,
     bodyVars>>
  \/ part = "community" /\ C!Next /\ UNCHANGED <<part, vars, accountVars, loginVars,
     bodyVars>>
  \/ part = "bodies" /\ B!Next /\ UNCHANGED <<part, vars, accountVars, loginVars,
     communityVars>>

allVars == <<part, vars, accountVars, loginVars, communityVars, bodyVars>>
AllSpec == AllInit /\ [][AllNext]_allVars

Symmetry == Permutations(Requests) \cup Permutations({t1, t2})

-----------------------------------------------------------------------------
\* Once there has been an active platform admin there is one, whoever deletes,
\* demotes or deactivates whom at the same time (admin_delete_user.py,
\* set_platform_admin.py, set_user_active.py, delete_account.py); and the bootstrap
\* privilege is given once, however many first registrations overlap
\* (register_user.persist_new_user).
AdminsKept == part = "accounts" => A!AdminsKept

\* What a caller may make the API do is bounded.  No failure slips past the username
\* lockout (Login._maybe_lock); registrations of one address stay within the cap but
\* for those in flight (RegisterUser, count_ip_registrations, prune_horizon); and no
\* body is read past its route's limit, before its caller is known, or into the next
\* request of its connection (RequestBodyLimitMiddleware).
CallersBounded ==
  /\ part = "logins" => L!NoMissedLock /\ L!RegistrationsCapped
  /\ part = "bodies" => B!BodiesBounded

\* No two requests wait for each other's row locks: session and credential changes,
\* account operations (list_active_admins_for_update) and a community's role changes
\* each take theirs in one order.
LocksOrdered ==
  /\ NoDeadlock
  /\ part = "accounts" => A!NoDeadlock
  /\ part = "community" => C!NoDeadlock

\* A community's authority is neither escalated nor lost: whatever is conferred, the
\* actor holds when the conferral commits, in every order of revocations
\* (permission_ceiling.py), and two owners leaving at once never leave a community
\* without one, whatever else is requested (_guard_last_owner); run owner_orphaned has
\* the case of three requests that the guard misses.
AuthorityKept == [][part = "community" => C!NoEscalation /\ C!OwnerGuarded]_allVars
==============================================================================
