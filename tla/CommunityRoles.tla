--------------------------- MODULE CommunityRoles ---------------------------
(* Roles, assignments and grants of one community, with the row locks of the  *)
(* transactions that change them (community/application/manage_membership.py, *)
(* manage_role.py, manage_grant.py, permission_ceiling.py and                 *)
(* community/adapters/repositories.py).                                       *)
(*                                                                            *)
(* The database is a set of rows.  A statement names the rows it locks when   *)
(* it starts and takes them one at a time, waiting for a conflicting holder;  *)
(* a row deleted meanwhile is skipped.  Locks last until the transaction      *)
(* commits or rolls back.                                                     *)
EXTENDS Integers, FiniteSets, FiniteSetTheorems, TLAPS

CONSTANTS
  Users,        \* numbers; a membership's id is ordered like its user
  CustomRoles,  \* positive numbers, in id order; the preset Owner role is 0
  Perms,        \* the permissions, one of them Manage
  Manage,       \* the permission every endpoint here requires
  Txs,          \* transactions; each runs one request
  MaxJoins      \* bound on how often a user becomes a member

Owner == 0
Roles == {Owner} \cup CustomRoles

VARIABLES
  rows,        \* the rows of the community's tables
  joins,       \* how many memberships each user has had
  used,        \* the role ids used so far
  rolePerms,   \* role.permissions
  grantPerms,  \* resource_grant.permissions, of the user's grant on the one server
  overtaken,   \* history: guards behind whose statement a user was made Owner
  tx

vars == <<rows, joins, used, rolePerms, grantPerms, overtaken, tx>>
db == <<rows, joins, used, rolePerms, grantPerms, overtaken>>

Mem(u, k) == [kind |-> "mem", user |-> u, id |-> k, role |-> 0]
Asg(u, k, r) == [kind |-> "asg", user |-> u, id |-> k, role |-> r]
Grant(u, k) == [kind |-> "grant", user |-> u, id |-> k, role |-> 0]
RoleRow(r) == [kind |-> "role", user |-> 0, id |-> 0, role |-> r]
ServerRow == [kind |-> "server", user |-> 0, id |-> 0, role |-> 0]

Ops == {"assign", "unassign", "remove", "create", "update", "delete", "grant", "revoke",
        "unserve", "leave"}
Steps == {"start", "members", "resource", "actor", "roles", "assignments", "grants", "owners",
          "delete", "ready"}
NoRoles == [r \in Roles |-> {}]
Idle == [op |-> "none", actor |-> 0, user |-> 0, role |-> 0, perms |-> {}, pc |-> "idle",
         target |-> {}, want |-> {}, wantx |-> {}, shared |-> {}, excl |-> {},
         read |-> NoRoles, ceiling |-> {}]
Done == [Idle EXCEPT !.pc = "done"]

TypeOK ==
  /\ \A x \in rows: x.kind \in {"mem", "asg", "grant", "role", "server"} /\ x.role \in Roles
  /\ joins \in [Users -> 0..MaxJoins] /\ used \subseteq CustomRoles
  /\ rolePerms \in [Roles -> SUBSET Perms] /\ grantPerms \in [Users -> SUBSET Perms]
  /\ \A t \in Txs:
       /\ tx[t].op \in Ops \cup {"none"} /\ tx[t].pc \in Steps \cup {"idle", "done"}
       /\ tx[t].shared \cup tx[t].excl \subseteq rows  \* nobody deletes a locked row
       /\ tx[t].ceiling \subseteq Perms

-----------------------------------------------------------------------------
(* Reading the rows.                                                          *)

Members(S) == {x \in rows: x.kind = "mem" /\ x.user \in S}
RolesOf(ms) == {x.role: x \in {y \in rows: y.kind = "asg" /\ Mem(y.user, y.id) \in ms}}
OwnerAssignments == {x \in rows: x.kind = "asg" /\ x.role = Owner}
Dependents(x) ==
  {y \in rows: \/ x.kind = "mem" /\ y.kind \in {"asg", "grant"} /\ y.user = x.user /\ y.id = x.id
               \/ x.kind = "role" /\ y.kind = "asg" /\ y.role = x.role
               \/ x.kind = "server" /\ y.kind = "grant"}

\* RoleGrantPermissionChecker: what a user may do on the server now.
EffectivePermissions(u) ==
  UNION ({rolePerms[r]: r \in RolesOf(Members({u}))}
         \cup {grantPerms[u]: x \in {y \in rows: y.kind = "grant" /\ y.user = u}})
CommunityPermissions(u) == UNION {rolePerms[r]: r \in RolesOf(Members({u}))}

\* Provisioned with its first Owner.  Before the requests a role may have been made, with
\* every permission, and other users may have joined, with that role, with a grant, or as
\* a second Owner.
Provisioned(made, joined, owners, granted) ==
  /\ rows = {Mem(u, 1): u \in joined \cup {1}}
            \cup {RoleRow(r): r \in made \cup {Owner}} \cup {ServerRow}
            \cup {Asg(u, 1, r): u \in joined, r \in made}
            \cup {Asg(u, 1, Owner): u \in owners \cup {1}}
            \cup {Grant(u, 1): u \in granted}
  /\ joins = [u \in Users |-> IF u \in joined \cup {1} THEN 1 ELSE 0]
  /\ used = made
  /\ rolePerms = [r \in Roles |-> IF r \in made \cup {Owner} THEN Perms ELSE {}]
  /\ grantPerms = [u \in Users |-> IF u \in granted THEN Perms \ {Manage} ELSE {}]

Init ==
  /\ \E made \in SUBSET CustomRoles, joined \in SUBSET (Users \ {1}):
     \E owners \in SUBSET joined, granted \in SUBSET joined:
       Provisioned(made, joined, owners, granted)
  /\ overtaken = {}
  /\ tx = [t \in Txs |-> Idle]

-----------------------------------------------------------------------------
(* Locks and statements.                                                      *)

\* A share lock waits for an exclusive one, an exclusive lock for either.
Conflicts(t, o, x) ==
  x \in tx[o].excl \/ (x \in tx[o].shared /\ x \in tx[t].wantx)
Blockers(t, x) == {o \in Txs \ {t}: Conflicts(t, o, x)}

\* ORDER BY id; the rows of a cascade are deleted in no stated order.
Turn(t, x) ==
  tx[t].pc = "ready"
  \/ \A y \in tx[t].want: x.user < y.user \/ (x.user = y.user /\ x.role <= y.role)

\* One row of the statement in progress.
Acquire(t, x) ==
  /\ x \in tx[t].want /\ Turn(t, x)
  /\ Blockers(t, x) = {}
  /\ tx' = [tx EXCEPT ![t] =
              [tx[t] EXCEPT !.want = @ \ {x},
                            !.shared = IF x \in rows \ tx[t].wantx THEN @ \cup {x} ELSE @,
                            !.excl = IF x \in rows \cap tx[t].wantx THEN @ \cup {x} ELSE @,
                            !.read = IF x \in rows /\ x.kind = "role"
                                       THEN [tx[t].read EXCEPT ![x.role] = rolePerms[x.role]]
                                       ELSE @]]
  /\ UNCHANGED db

Mine(t) == tx[t].shared \cup tx[t].excl
Ready(t, pc) == tx[t].pc = pc /\ tx[t].want = {}

\* The next statement locks these rows, the second set of them exclusively.
Locking(t, S, X, pc) ==
  /\ tx' = [tx EXCEPT ![t] = [@ EXCEPT !.want = (S \ Mine(t)) \cup (X \ tx[t].excl),
                                    !.wantx = X, !.pc = pc]]
  /\ UNCHANGED db

\* Leaving the unit of work, with or without a commit.
Ends(t) == tx' = [tx EXCEPT ![t] = Done]
Refuse(t) == Ends(t) /\ UNCHANGED db

-----------------------------------------------------------------------------
(* The requests: each endpoint checks the permission in a transaction of its  *)
(* own before the use case opens one.  The actor counts only in a conferral.  *)

Request(t, op, a, u, r, p) ==
  /\ tx' = [tx EXCEPT ![t] = [Idle EXCEPT !.op = op, !.actor = a, !.user = u, !.role = r,
                                          !.perms = p, !.pc = "start"]]
  /\ UNCHANGED db

require_permission(a) == Manage \in CommunityPermissions(a)

assign_role(t, a, u, r) == require_permission(a) /\ Request(t, "assign", a, u, r, {})
unassign_role(t, a, u, r) == require_permission(a) /\ Request(t, "unassign", 0, u, r, {})
remove_member(t, a, u) == require_permission(a) /\ Request(t, "remove", 0, u, Owner, {})
create_role(t, a, p) ==
  /\ require_permission(a) /\ used # CustomRoles
  /\ Request(t, "create", a, 0, CHOOSE r \in CustomRoles \ used: TRUE, p)
update_role(t, a, r, p) == require_permission(a) /\ Request(t, "update", a, 0, r, p)
delete_role(t, a, r) == require_permission(a) /\ Request(t, "delete", 0, 0, r, {})
create_grant(t, a, u, p) == require_permission(a) /\ Request(t, "grant", a, u, Owner, p)
revoke_grant(t, a, u) == require_permission(a) /\ Request(t, "revoke", 0, u, Owner, {})
\* The server's own deletion, and the account's: the latter is refused to an owner, in a
\* transaction of its own.
delete_server(t, a) == require_permission(a) /\ Request(t, "unserve", 0, 0, Owner, {})
delete_account(t, u) ==
  /\ Owner \notin RolesOf(Members({u}))
  /\ Request(t, "leave", 0, u, Owner, {})

\* A deleted account's row is locked, then gone.
AccountGoing(u) ==
  \E t \in Txs: tx[t].op = "leave" /\ tx[t].user = u /\ tx[t].pc \in {"delete", "ready"}

\* AddMember is one INSERT; the unique key refuses a second membership.
AddMember(a, u) ==
  /\ ~AccountGoing(u)
  /\ require_permission(a) /\ Members({u}) = {} /\ joins[u] < MaxJoins
  /\ joins' = [joins EXCEPT ![u] = @ + 1]
  /\ rows' = rows \cup {Mem(u, joins[u] + 1)}
  /\ UNCHANGED <<used, rolePerms, grantPerms, overtaken, tx>>

-----------------------------------------------------------------------------
(* The ceiling: what the actor holds, under lock until the conferral commits. *)

Conferring == {"assign", "create", "update", "grant"}

\* hold_for_users: the recipient's and the actor's memberships, in one statement.
HoldMembers(t) ==
  /\ Ready(t, "start") /\ tx[t].op \in {"assign", "grant"}
  /\ Locking(t, Members({tx[t].user, tx[t].actor}), {}, "members")

Target(t) == {x \in Mine(t): x.kind = "mem" /\ x.user = tx[t].user}

\* The recipient is no member.
NoMember(t) ==
  /\ Ready(t, "members") /\ Target(t) = {}
  /\ Refuse(t)

\* ResourceExistence.exists: the server of a grant, held too.
LockResource(t) ==
  /\ Ready(t, "members") /\ Target(t) # {} /\ tx[t].op = "grant"
  /\ Locking(t, {ServerRow} \cap rows, {}, "resource")

NoResource(t) ==
  /\ Ready(t, "resource") /\ ServerRow \notin Mine(t)
  /\ Refuse(t)

\* lock_actor_ceiling, first statement.  A conferral of nothing skips the ceiling.
HoldActor(t) ==
  /\ \/ Ready(t, "start") /\ tx[t].op = "update"
     \/ Ready(t, "start") /\ tx[t].op = "create" /\ tx[t].perms # {}
     \/ Ready(t, "members") /\ Target(t) # {} /\ tx[t].op = "assign"
     \/ Ready(t, "resource") /\ ServerRow \in Mine(t) /\ tx[t].perms # {}
  /\ Locking(t, Members({tx[t].actor}), {}, "actor")

NothingConferred(t) ==
  /\ tx[t].perms = {}
  /\ \/ Ready(t, "start") /\ tx[t].op = "create"
     \/ Ready(t, "resource") /\ ServerRow \in Mine(t)
  /\ Locking(t, {}, {}, "ready")

Actor(t) == {x \in Mine(t): x.kind = "mem" /\ x.user = tx[t].actor}

\* lock_by_ids: the actor's roles and the one assigned shared, the one updated exclusively.
LockRoles(t) ==
  /\ Ready(t, "actor")
  /\ LET S == {RoleRow(r): r \in RolesOf(Actor(t))}
         named == {RoleRow(tx[t].role)}
     IN IF tx[t].op = "update"
          THEN Locking(t, S \ named, named, "roles")
          ELSE Locking(t, IF tx[t].op = "assign" THEN S \cup named ELSE S, {}, "roles")

HeldAssignments(t) ==
  {x \in rows: x.kind = "asg" /\ Mem(x.user, x.id) \in Actor(t) /\ RoleRow(x.role) \in Mine(t)}

\* lock_role_ids: the actor's assignments of the roles just locked, and of no other.
LockAssignments(t) ==
  /\ Ready(t, "roles")
  /\ Locking(t, HeldAssignments(t), {}, "assignments")

\* The union of the roles as read under lock and still assigned.
Ceiling(t) == UNION {tx[t].read[x.role]: x \in Mine(t) \cap HeldAssignments(t)}

OwnGrant(t) ==
  IF tx[t].op = "grant" THEN {x \in rows: x.kind = "grant" /\ x.user = tx[t].actor} ELSE {}

ReadCeiling(t) ==
  /\ Ready(t, "assignments")
  /\ tx' = [tx EXCEPT ![t] =
              [@ EXCEPT !.ceiling = Ceiling(t), !.want = OwnGrant(t), !.wantx = {},
                        !.pc = IF tx[t].op = "grant" THEN "grants" ELSE "ready"]]
  /\ UNCHANGED db

\* lock_for_user_resource: the actor's own grant counts for a grant on the same server.
AddOwnGrant(t) ==
  /\ Ready(t, "grants")
  /\ tx' = [tx EXCEPT ![t] =
              [tx[t] EXCEPT !.pc = "ready",
                            !.ceiling = @ \cup UNION {grantPerms[x.user]:
                                           x \in {y \in Mine(t): y.kind = "grant"}}]]
  /\ UNCHANGED db

-----------------------------------------------------------------------------
(* The conferring writes.                                                     *)

\* What the write confers: the role's permissions, those it gains, or those named.
Conferred(t) ==
  CASE tx[t].op = "assign" -> tx[t].read[tx[t].role]
    [] tx[t].op = "update" -> tx[t].perms \ tx[t].read[tx[t].role]
    [] OTHER -> tx[t].perms

\* check_permission_ceiling, and what else the use case refuses before it writes.
Refused(t) ==
  \/ ~(Conferred(t) \subseteq tx[t].ceiling)
  \/ tx[t].op \in {"assign", "update"} /\ RoleRow(tx[t].role) \notin Mine(t)
  \/ tx[t].op = "update" /\ tx[t].role = Owner
  \/ tx[t].op = "grant" /\ \E x \in rows: x.kind = "grant" /\ x.user = tx[t].user
  \/ tx[t].op = "create" /\ tx[t].role \in used

Rejected(t) == Ready(t, "ready") /\ tx[t].op \in Conferring /\ Refused(t) /\ Refuse(t)

\* Unassignments of Owner whose guard's statement has started and whose DELETE has not.
Unassigning ==
  {o \in Txs: tx[o].op = "unassign" /\ tx[o].role = Owner /\ tx[o].pc = "owners"}

AssignRole(t) ==
  /\ rows' = rows \cup {Asg(x.user, x.id, tx[t].role): x \in Target(t)}
  /\ overtaken' = overtaken \cup {o \in Unassigning: tx[t].role = Owner /\ rows' # rows}
  /\ UNCHANGED <<joins, used, rolePerms, grantPerms>>

CreateRole(t) ==
  /\ rows' = rows \cup {RoleRow(tx[t].role)}
  /\ used' = used \cup {tx[t].role}
  /\ rolePerms' = [rolePerms EXCEPT ![tx[t].role] = tx[t].perms]
  /\ UNCHANGED <<joins, grantPerms, overtaken>>

UpdateRole(t) ==
  /\ rolePerms' = [rolePerms EXCEPT ![tx[t].role] = tx[t].perms]
  /\ UNCHANGED <<rows, joins, used, grantPerms, overtaken>>

CreateGrant(t) ==
  /\ rows' = rows \cup {Grant(x.user, x.id): x \in Target(t)}
  /\ grantPerms' = [grantPerms EXCEPT ![tx[t].user] = tx[t].perms]
  /\ UNCHANGED <<joins, used, rolePerms, overtaken>>

Confer(t) ==
  /\ Ready(t, "ready") /\ tx[t].op \in Conferring /\ ~Refused(t)
  /\ \/ tx[t].op = "assign" /\ AssignRole(t)
     \/ tx[t].op = "create" /\ CreateRole(t)
     \/ tx[t].op = "update" /\ UpdateRole(t)
     \/ tx[t].op = "grant" /\ CreateGrant(t)
  /\ Ends(t)

-----------------------------------------------------------------------------
(* The deletions.                                                             *)

\* The rows a request is about: locked exclusively (remove), or read without a lock.
Named(t) ==
  CASE tx[t].op \in {"remove", "unassign", "leave"} -> Members({tx[t].user})
    [] tx[t].op = "delete" -> {RoleRow(tx[t].role)} \cap rows
    [] tx[t].op = "revoke" -> {x \in rows: x.kind = "grant" /\ x.user = tx[t].user}
    [] OTHER -> {ServerRow} \cap rows

\* Defect: only the removal of a member asks the guard.
GuardedRemovals(t) == tx[t].op = "remove"

\* _guard_last_owner is asked before an Owner's membership or assignment goes.
Guarded(t) == tx[t].op = "remove" \/ (tx[t].op = "unassign" /\ tx[t].role = Owner)

\* Not found, or the preset role.
NotFound(t) ==
  /\ Ready(t, "start") /\ tx[t].op \notin Conferring
  /\ \/ Named(t) = {}
     \/ tx[t].op = "delete" /\ tx[t].role = Owner
     \/ tx[t].op = "unassign" /\ RoleRow(tx[t].role) \notin rows
  /\ Refuse(t)

Find(t) ==
  /\ Ready(t, "start") /\ tx[t].op \notin Conferring /\ Named(t) # {}
  /\ ~(tx[t].op = "delete" /\ tx[t].role = Owner)
  /\ tx[t].op = "unassign" => RoleRow(tx[t].role) \in rows
  /\ tx' = [tx EXCEPT ![t] =
              [@ EXCEPT !.target = Named(t), !.pc = IF Guarded(t) THEN "members" ELSE "owners",
                        !.want = IF tx[t].op = "remove" THEN Named(t) ELSE {},
                        !.wantx = IF tx[t].op = "remove" THEN Named(t) ELSE {}]]
  /\ UNCHANGED db

\* The member to remove has gone while the request waited for it.
RemovedMeanwhile(t) ==
  /\ Ready(t, "members") /\ tx[t].op = "remove" /\ ~(tx[t].target \subseteq Mine(t))
  /\ Refuse(t)

\* _guard_last_owner locks every Owner assignment of the community.
LockOwners(t) ==
  /\ Ready(t, "members") /\ tx[t].op \notin Conferring
  /\ tx[t].op = "remove" => tx[t].target \subseteq Mine(t)
  /\ Locking(t, {}, OwnerAssignments, "owners")

\* The holders the guard's statement returned.
Holders(t) == {Mem(x.user, x.id): x \in Mine(t) \cap OwnerAssignments}

LastOwner(t) == Guarded(t) /\ tx[t].target \subseteq Holders(t) /\ Cardinality(Holders(t)) <= 1

LastOwnerRemoval(t) == Ready(t, "owners") /\ LastOwner(t) /\ Refuse(t)

\* The rows the DELETE finds when it starts.
Doomed(t) ==
  CASE tx[t].op = "unassign" -> {x \in rows: /\ x.kind = "asg" /\ x.role = tx[t].role
                                             /\ Mem(x.user, x.id) \in tx[t].target}
    [] tx[t].op = "leave" -> Members({tx[t].user})
    [] OTHER -> tx[t].target \cap rows

Delete(t) ==
  /\ Ready(t, "owners") /\ ~LastOwner(t)
  /\ tx' = [tx EXCEPT ![t] = [@ EXCEPT !.target = Doomed(t), !.want = Doomed(t) \ tx[t].excl,
                                    !.wantx = Doomed(t), !.pc = "delete"]]
  /\ UNCHANGED db

\* It deletes those it could lock, with the rows that depend on them.
Deleted(t) == tx[t].target \cap tx[t].excl
Cascaded(t) == UNION {Dependents(x): x \in Deleted(t)}

Cascade(t) ==
  /\ Ready(t, "delete")
  /\ Locking(t, {}, Cascaded(t), "ready")

CommitDelete(t) ==
  /\ Ready(t, "ready") /\ tx[t].op \notin Conferring
  /\ rows' = rows \ (Deleted(t) \cup Cascaded(t))
  /\ joins' = [u \in Users |-> IF tx[t].op = "leave" /\ u = tx[t].user THEN MaxJoins ELSE joins[u]]
  /\ Ends(t)
  /\ UNCHANGED <<used, rolePerms, grantPerms, overtaken>>

-----------------------------------------------------------------------------

Submit(t) ==
  /\ tx[t].pc = "idle"
  /\ \/ \E a, u \in Users, r \in Roles: assign_role(t, a, u, r) \/ unassign_role(t, a, u, r)
     \/ \E a \in Users, u \in Users: remove_member(t, a, u) \/ revoke_grant(t, a, u)
     \/ \E a \in Users, p \in SUBSET Perms: create_role(t, a, p)
     \/ \E a \in Users, r \in Roles, p \in SUBSET Perms: update_role(t, a, r, p)
     \/ \E a \in Users, r \in Roles: delete_role(t, a, r)
     \/ \E a \in Users, u \in Users, p \in SUBSET (Perms \ {Manage}): create_grant(t, a, u, p)
     \/ \E a \in Users: delete_server(t, a) \/ delete_account(t, a)

TxStep(t) ==
  \/ \E x \in tx[t].want: Acquire(t, x)
  \/ HoldMembers(t) \/ NoMember(t) \/ LockResource(t) \/ NoResource(t) \/ HoldActor(t)
  \/ NothingConferred(t) \/ LockRoles(t) \/ LockAssignments(t) \/ ReadCeiling(t)
  \/ AddOwnGrant(t) \/ Rejected(t) \/ Confer(t)
  \/ NotFound(t) \/ Find(t) \/ RemovedMeanwhile(t) \/ LockOwners(t) \/ LastOwnerRemoval(t)
  \/ Delete(t) \/ Cascade(t) \/ CommitDelete(t)

Next ==
  \/ \E t \in Txs: Submit(t) \/ TxStep(t)
  \/ \E a, u \in Users: AddMember(a, u)

Spec == Init /\ [][Next]_vars

-----------------------------------------------------------------------------

Confers(t) == Ready(t, "ready") /\ tx[t].op \in Conferring /\ ~Refused(t) /\ tx'[t] = Done

\* A conferral never commits after the authority it relied on was revoked: whatever a
\* role assignment, a role or a grant confers, the actor holds when it commits, in every
\* order of revocations (permission_ceiling.py).
NoEscalation ==
  \A t \in Txs: Confers(t) =>
     /\ Conferred(t) \subseteq (IF tx[t].op = "grant" THEN EffectivePermissions(tx[t].actor)
                                                     ELSE CommunityPermissions(tx[t].actor))
     /\ tx[t].op = "assign" => tx[t].read[tx[t].role] = rolePerms[tx[t].role]

OwnerStays == \E x \in rows': x.kind = "asg" /\ x.role = Owner

\* What _guard_last_owner promises: a community that has an Owner keeps one, but for the
\* deletion of an account, whose ownership check is a transaction of its own.
OwnerKept ==
  [][OwnerAssignments # {} => OwnerStays \/ \E t \in Txs: tx[t].op = "leave" /\ tx'[t] = Done]_vars

\* What it achieves: two owners leaving at once never leave a community without one, and
\* no other request does, but for an unassignment behind whose guard a user was made Owner:
\* the guard's statement does not see the new assignment, those it saw may all have gone
\* by the time it locks them, and the DELETE sees the new one.
OwnerGuarded ==
  OwnerAssignments # {} =>
    \/ OwnerStays
    \/ \E t \in Txs: /\ tx'[t] = Done
                     /\ tx[t].op = "leave" \/ (tx[t].op = "unassign" /\ t \in overtaken)

\* Bound of the run that shows OwnerKept broken: no request but assignments.
OnlyAssignments == \A t \in Txs: tx[t].op \in {"none", "assign", "unassign"}

\* The lock order keeps transactions free of a circle of waits, two of them at least.  Of
\* four, two deletions of accounts and two of roles may wait in a circle, as a cascade
\* deletes its rows in no stated order; PostgreSQL then aborts one.
NoDeadlock ==
  \A S \in SUBSET Txs: S # {} =>
     \E t \in S: \/ tx[t].want = {}
                 \/ \E x \in tx[t].want: Turn(t, x) /\ Blockers(t, x) \cap S = {}
-----------------------------------------------------------------------------
(* The inductive invariant of NoEscalation: what a conferral has read is      *)
(* locked, and nobody deletes or changes a locked row.                        *)

RolesNumbered == Owner \notin CustomRoles /\ MaxJoins \in Nat /\ 1 \in Users

RowSpace ==
  [kind: {"mem", "asg", "grant", "role", "server"}, user: Users \cup {0}, id: Nat, role: Roles]
TxRecords ==
  [op: Ops \cup {"none"}, actor: Users \cup {0}, user: Users \cup {0}, role: Roles,
   perms: SUBSET Perms, pc: Steps \cup {"idle", "done"}, target: SUBSET RowSpace,
   want: SUBSET RowSpace, wantx: SUBSET RowSpace, shared: SUBSET RowSpace,
   excl: SUBSET RowSpace, read: [Roles -> SUBSET Perms], ceiling: SUBSET Perms]

\* A row is told by its kind, and by the columns its kind has.
Canonical(x) ==
  /\ x.kind = "mem" => x = Mem(x.user, x.id)
  /\ x.kind \in {"mem", "grant"} => x.user \in Users
  /\ x.kind = "role" => x = RoleRow(x.role)
  /\ x.kind = "server" => x = ServerRow

DbTyped ==
  /\ rows \in SUBSET RowSpace /\ joins \in [Users -> Nat] /\ used \in SUBSET CustomRoles
  /\ rolePerms \in [Roles -> SUBSET Perms] /\ grantPerms \in [Users -> SUBSET Perms]
  /\ \A x \in rows: Canonical(x)
  /\ \A r \in CustomRoles: RoleRow(r) \in rows => r \in used

\* Nobody else has a row that one holds exclusively.
Apart(t, o) == tx[t].excl \cap Mine(o) = {}

\* What each statement of a conferral locks.
Past == {"resource", "actor", "roles", "assignments", "grants"}
Statements(t) ==
  /\ tx[t].pc \in {"idle", "done", "start"} => Mine(t) = {} /\ tx[t].want = {}
  /\ tx[t].pc \in Past => tx[t].op \in Conferring
  /\ tx[t].pc \in {"owners", "delete"} => tx[t].op \notin Conferring
  /\ tx[t].pc = "grants" => tx[t].op = "grant"
  /\ tx[t].op \in Conferring =>
       /\ tx[t].pc \in {"members", "actor"} => \A x \in tx[t].want: x.kind = "mem"
       /\ tx[t].pc = "resource" => tx[t].op = "grant" /\ \A x \in tx[t].want: x.kind = "server"
       /\ tx[t].pc = "roles" => \A x \in tx[t].want: x.kind = "role"
       /\ tx[t].pc = "assignments" => \A x \in tx[t].want: x.kind = "asg"
       /\ tx[t].pc = "grants" => \A x \in tx[t].want: x.kind = "grant"
       /\ tx[t].pc = "ready" => tx[t].want = {}

\* An updated role is locked exclusively, a granted server at all, and a created role
\* is a custom one.
NamedHeld(t) ==
  /\ tx[t].op = "update" =>
       /\ RoleRow(tx[t].role) \notin tx[t].shared
       /\ RoleRow(tx[t].role) \in tx[t].want => RoleRow(tx[t].role) \in tx[t].wantx
  /\ tx[t].op = "create" => tx[t].role \in CustomRoles
  /\ tx[t].op = "grant" =>
       /\ tx[t].pc \in {"actor", "roles", "assignments", "grants", "ready"} => ServerRow \in Mine(t)
       /\ \A y \in Mine(t) \cup tx[t].want: y.kind = "grant" => y.user = tx[t].actor

\* A locked role is as it was read.
Reads(t) == \A r \in Roles: RoleRow(r) \in Mine(t) => tx[t].read[r] = rolePerms[r]

\* The ceiling is what the locked rows give.
OwnGrants(t) ==
  IF tx[t].op = "grant" /\ tx[t].pc = "ready"
    THEN UNION {grantPerms[y.user]: y \in {x \in Mine(t): x.kind = "grant"}} ELSE {}
Ceilings(t) ==
  tx[t].op \in Conferring =>
    IF tx[t].pc \in {"grants", "ready"} THEN tx[t].ceiling \subseteq Ceiling(t) \cup OwnGrants(t)
    ELSE tx[t].ceiling = {}

\* A deletion has locked, or is about to, what goes with the rows it has locked.
Deletes(t) ==
  tx[t].op \notin Conferring /\ tx[t].pc = "ready" =>
    /\ tx[t].want \subseteq tx[t].wantx /\ \A x \in tx[t].want: x.kind \in {"asg", "grant"}
    /\ Cascaded(t) \subseteq tx[t].excl \cup tx[t].want

TxSound(t) == Statements(t) /\ NamedHeld(t) /\ Reads(t) /\ Ceilings(t) /\ Deletes(t)

RolesInv ==
  /\ DbTyped /\ tx \in [Txs -> TxRecords]
  /\ \A t \in Txs: Mine(t) \subseteq rows /\ TxSound(t)
  /\ \A t, o \in Txs: t # o => Apart(t, o)

-----------------------------------------------------------------------------
(* Its proof                                                                  *)

\* What another transaction does leaves a sound one sound, if it changes no row, role or
\* grant that one has locked, and adds nothing that depends on a row it deletes.
LEMMA OthersSound ==
  ASSUME NEW o \in Txs, TxSound(o), tx'[o] = tx[o],
         Mine(o) \subseteq rows, Mine(o) \subseteq rows',
         \A r \in Roles: RoleRow(r) \in Mine(o) => rolePerms'[r] = rolePerms[r],
         \A y \in Mine(o): y.kind = "grant" => grantPerms'[y.user] = grantPerms[y.user],
         \A x \in tx[o].excl: Dependents(x)' \subseteq Dependents(x)
  PROVE  TxSound(o)'
<1>1. Mine(o)' = Mine(o)
  BY DEF Mine
<1>2. Statements(o)' /\ NamedHeld(o)'
  BY <1>1 DEF TxSound, Statements, NamedHeld
<1>3. Reads(o)'
  BY <1>1 DEF TxSound, Reads
<1>4. Ceilings(o)'
  <2>1. Actor(o)' = Actor(o)
    BY <1>1 DEF Actor
  <2>2. Mine(o)' \cap HeldAssignments(o)' = Mine(o) \cap HeldAssignments(o)
    BY <1>1, <2>1 DEF HeldAssignments
  <2>3. Ceiling(o)' = Ceiling(o)
    BY <2>2 DEF Ceiling
  <2>4. OwnGrants(o)' = OwnGrants(o)
    <3> DEFINE G == {x \in Mine(o): x.kind = "grant"}
    <3>1. {grantPerms'[y.user]: y \in G} = {grantPerms[y.user]: y \in G}
      OBVIOUS
    <3> QED BY <1>1, <3>1 DEF OwnGrants
  <2> QED BY <2>3, <2>4 DEF TxSound, Ceilings
<1>5. Deletes(o)'
  <2>1. Deleted(o)' = Deleted(o) /\ Deleted(o) \subseteq tx[o].excl
    BY DEF Deleted
  <2>2. Cascaded(o)' \subseteq Cascaded(o)
    BY <2>1 DEF Cascaded
  <2> QED BY <2>2 DEF TxSound, Deletes
<1> QED BY <1>2, <1>3, <1>4, <1>5 DEF TxSound

\* A step of one transaction that leaves the database alone.
LEMMA LocalStep ==
  ASSUME RolesInv, NEW t \in Txs, UNCHANGED db, NEW r \in TxRecords, tx' = [tx EXCEPT ![t] = r],
         r.shared \cup r.excl \subseteq rows, TxSound(t)',
         \A o \in Txs \ {t}: r.excl \cap Mine(o) = {} /\ tx[o].excl \cap (r.shared \cup r.excl) = {}
  PROVE  RolesInv'
<1>1. tx' \in [Txs -> TxRecords] /\ tx'[t] = r /\ \A o \in Txs \ {t}: tx'[o] = tx[o]
  BY DEF RolesInv
<1>2. DbTyped'
  BY DEF RolesInv, DbTyped, db, Canonical
<1>3. \A o \in Txs \ {t}: Mine(o)' = Mine(o)
  BY <1>1 DEF Mine
<1>4. Mine(t)' = r.shared \cup r.excl
  BY <1>1 DEF Mine
<1>5. \A o \in Txs: Mine(o)' \subseteq rows'
  BY <1>3, <1>4 DEF RolesInv, db
<1>6. \A o \in Txs: TxSound(o)'
  <2> TAKE o \in Txs
  <2>1. CASE o = t
    BY <2>1
  <2>2. CASE o # t
    <3>1. \A x: Dependents(x)' = Dependents(x)
      BY DEF Dependents, db
    <3>2. rows' = rows /\ rolePerms' = rolePerms /\ grantPerms' = grantPerms
      BY DEF db
    <3>3. TxSound(o) /\ Mine(o) \subseteq rows /\ tx'[o] = tx[o]
      BY <1>1, <2>2 DEF RolesInv
    <3> QED BY <3>1, <3>2, <3>3, OthersSound
  <2> QED BY <2>1, <2>2
<1>7. \A p, o \in Txs: p # o => Apart(p, o)'
  <2> TAKE p, o \in Txs
  <2> HAVE p # o
  <2>1. CASE p = t
    BY <1>1, <1>3, <2>1 DEF Apart
  <2>2. CASE o = t
    BY <1>1, <1>4, <2>2 DEF Apart
  <2>3. CASE p # t /\ o # t
    BY <1>1, <1>3, <2>3 DEF Apart, RolesInv
  <2> QED BY <2>1, <2>2, <2>3
<1> QED BY <1>1, <1>2, <1>5, <1>6, <1>7 DEF RolesInv

\* A transaction that holds nothing is sound.
LEMMA EmptySound ==
  ASSUME NEW t \in Txs, tx'[t].shared = {}, tx'[t].excl = {}, tx'[t].want = {},
         tx'[t].ceiling = {}, tx'[t].pc \in {"idle", "done", "start"},
         tx'[t].op = "create" => tx'[t].role \in CustomRoles
  PROVE  TxSound(t)'
<1>1. Mine(t)' = {}
  BY DEF Mine
<1> QED BY <1>1 DEF TxSound, Statements, Past, NamedHeld, Reads, Ceilings, Deletes

LEMMA IdleTyped == ASSUME RolesNumbered PROVE Idle \in TxRecords /\ Done \in TxRecords
BY DEF RolesNumbered, Idle, Done, TxRecords, NoRoles, Roles, Owner, Steps, Ops

LEMMA RefuseSafe ==
  ASSUME RolesNumbered, RolesInv, NEW t \in Txs, Refuse(t)
  PROVE  RolesInv'
<1>1. tx' = [tx EXCEPT ![t] = Done] /\ UNCHANGED db
  BY DEF Refuse, Ends
<1>2. tx'[t] = Done
  BY <1>1 DEF RolesInv
<1>3. TxSound(t)'
  BY <1>2, EmptySound DEF Done, Idle
<1>4. Done.shared = {} /\ Done.excl = {}
  BY DEF Done, Idle
<1> QED BY <1>1, <1>3, <1>4, IdleTyped, LocalStep

\* Starting a statement: what is held stays, what it names is typed.
LEMMA LockingFacts ==
  ASSUME RolesInv, NEW t \in Txs, NEW S, NEW X, NEW pc, Locking(t, S, X, pc),
         S \cup X \subseteq RowSpace, pc \in Steps
  PROVE  /\ UNCHANGED <<rows, rolePerms, grantPerms, used, joins>>
         /\ Mine(t)' = Mine(t) /\ Ceiling(t)' = Ceiling(t) /\ tx'[t].ceiling = tx[t].ceiling
         /\ tx'[t].excl = tx[t].excl /\ tx'[t].shared = tx[t].shared
         /\ tx'[t].read = tx[t].read /\ tx'[t].op = tx[t].op /\ tx'[t].role = tx[t].role
         /\ tx'[t].actor = tx[t].actor /\ tx'[t].target = tx[t].target
         /\ tx'[t].want = (S \ Mine(t)) \cup (X \ tx[t].excl)
         /\ tx'[t].wantx = X /\ tx'[t].pc = pc
         /\ TxSound(t)' => RolesInv'
<1> DEFINE r == [tx[t] EXCEPT !.want = (S \ Mine(t)) \cup (X \ tx[t].excl), !.wantx = X, !.pc = pc]
<1>1. tx' = [tx EXCEPT ![t] = r] /\ UNCHANGED db
  BY DEF Locking
<1>2. tx[t] \in TxRecords
  BY DEF RolesInv
<1>3. r \in TxRecords
  BY <1>2 DEF TxRecords
<1>4. tx'[t] = r
  BY <1>1 DEF RolesInv
<1>5. r.shared = tx[t].shared /\ r.excl = tx[t].excl /\ r.ceiling = tx[t].ceiling
      /\ r.read = tx[t].read /\ r.op = tx[t].op /\ r.role = tx[t].role
      /\ r.actor = tx[t].actor /\ r.target = tx[t].target
      /\ r.want = (S \ Mine(t)) \cup (X \ tx[t].excl) /\ r.wantx = X /\ r.pc = pc
  BY <1>2 DEF TxRecords
<1>6. Mine(t)' = Mine(t)
  BY <1>4, <1>5 DEF Mine
<1>7. UNCHANGED <<rows, rolePerms, grantPerms, used, joins>>
  BY <1>1 DEF db
<1>8. Ceiling(t)' = Ceiling(t)
  BY <1>4, <1>5, <1>6, <1>7 DEF Ceiling, HeldAssignments, Actor
<1>9. r.shared \cup r.excl \subseteq rows
  BY <1>5 DEF RolesInv, Mine
<1>10. \A o \in Txs \ {t}: r.excl \cap Mine(o) = {} /\ tx[o].excl \cap (r.shared \cup r.excl) = {}
  BY <1>5 DEF RolesInv, Apart, Mine
<1>11. TxSound(t)' => RolesInv'
  <2> HIDE DEF r
  <2> QED BY <1>1, <1>3, <1>9, <1>10, LocalStep
<1> HIDE DEF r
<1> QED BY <1>4, <1>5, <1>6, <1>7, <1>8, <1>11

\* A statement of a conferral before its ceiling is read.
LEMMA ConferralLocks ==
  ASSUME RolesInv, NEW t \in Txs, NEW S, NEW X, NEW pc, Locking(t, S, X, pc),
         S \cup X \subseteq RowSpace, tx[t].op \in Conferring,
         tx[t].pc \in {"start", "members", "resource", "actor", "roles"},
         pc \in {"members", "resource", "actor", "roles", "assignments"},
         pc \in {"members", "actor"} => \A x \in S \cup X: x.kind = "mem",
         pc = "resource" => tx[t].op = "grant" /\ \A x \in S \cup X: x.kind = "server",
         pc = "roles" => \A x \in S \cup X: x.kind = "role",
         pc = "assignments" => \A x \in S \cup X: x.kind = "asg",
         RoleRow(tx[t].role) \in S /\ tx[t].op = "update" => RoleRow(tx[t].role) \in X,
         tx[t].op = "grant" /\ pc # "members" /\ pc # "resource" => ServerRow \in Mine(t)
  PROVE  RolesInv'
<1>1. pc \in Steps
  BY DEF Steps
<1>2. TxSound(t)
  BY DEF RolesInv
<1>3. Statements(t)'
  BY <1>1, LockingFacts DEF Statements, Past
<1>4. NamedHeld(t)'
  BY <1>1, <1>2, LockingFacts DEF TxSound, NamedHeld
<1>5. Reads(t)'
  BY <1>1, <1>2, LockingFacts DEF TxSound, Reads
<1>6. Ceilings(t)'
  BY <1>1, <1>2, LockingFacts DEF TxSound, Ceilings
<1>7. Deletes(t)'
  BY <1>1, <1>2, LockingFacts DEF TxSound, Deletes
<1> QED BY <1>1, <1>3, <1>4, <1>5, <1>6, <1>7, LockingFacts DEF TxSound
LEMMA SubmitSafe ==
  ASSUME RolesNumbered, RolesInv, NEW t \in Txs, Submit(t)
  PROVE  RolesInv'
<1>1. PICK op \in Ops, a \in Users \cup {0}, u \in Users \cup {0}, r \in Roles, p \in SUBSET Perms:
        Request(t, op, a, u, r, p) /\ (op = "create" => r \in CustomRoles)
  <2>1. CASE \E a \in Users, p \in SUBSET Perms: create_role(t, a, p)
    <3>1. PICK a \in Users, p \in SUBSET Perms: create_role(t, a, p)
      BY <2>1
    <3>2. \E r \in CustomRoles \ used: TRUE
      BY <3>1 DEF create_role, RolesInv, DbTyped
    <3>3. (CHOOSE r \in CustomRoles \ used: TRUE) \in CustomRoles
      BY <3>2
    <3>4. "create" \in Ops /\ 0 \in Users \cup {0} /\ CustomRoles \subseteq Roles
      BY DEF Ops, Roles
    <3> QED BY <3>1, <3>3, <3>4 DEF create_role
  <2>2. Owner \in Roles /\ {} \in SUBSET Perms /\ 0 \in Users \cup {0}
        /\ SUBSET (Perms \ {Manage}) \subseteq SUBSET Perms
    BY DEF Roles
  <2>3. CASE \E a, u \in Users, r \in Roles: assign_role(t, a, u, r) \/ unassign_role(t, a, u, r)
    BY <2>2, <2>3 DEF assign_role, unassign_role, Ops
  <2>4. CASE \E a \in Users, u \in Users: remove_member(t, a, u) \/ revoke_grant(t, a, u)
    BY <2>2, <2>4 DEF remove_member, revoke_grant, Ops
  <2>5. CASE \E a \in Users, r \in Roles, p \in SUBSET Perms: update_role(t, a, r, p)
    BY <2>2, <2>5 DEF update_role, Ops
  <2>6. CASE \E a \in Users, r \in Roles: delete_role(t, a, r)
    BY <2>2, <2>6 DEF delete_role, Ops
  <2>7. CASE \E a \in Users, u \in Users, p \in SUBSET (Perms \ {Manage}): create_grant(t, a, u, p)
    BY <2>2, <2>7 DEF create_grant, Ops
  <2>8. CASE \E a \in Users: delete_server(t, a) \/ delete_account(t, a)
    BY <2>2, <2>8 DEF delete_server, delete_account, Ops
  <2> QED BY <2>1, <2>3, <2>4, <2>5, <2>6, <2>7, <2>8 DEF Submit
<1> DEFINE x == [Idle EXCEPT !.op = op, !.actor = a, !.user = u, !.role = r, !.perms = p,
                             !.pc = "start"]
<1>2. tx' = [tx EXCEPT ![t] = x] /\ UNCHANGED db
  BY <1>1 DEF Request
<1>3. x \in TxRecords /\ x.shared = {} /\ x.excl = {} /\ x.want = {} /\ x.ceiling = {}
      /\ x.pc = "start" /\ x.op = op /\ x.role = r
  BY IdleTyped DEF Idle, TxRecords, Steps
<1> HIDE DEF x
<1>4. tx'[t] = x
  BY <1>2 DEF RolesInv
<1>5. TxSound(t)'
  BY <1>1, <1>3, <1>4, EmptySound
<1> QED BY <1>2, <1>3, <1>5, LocalStep

LEMMA ConferralLockingSafe ==
  ASSUME RolesInv, NEW t \in Txs,
         HoldMembers(t) \/ LockResource(t) \/ HoldActor(t) \/ LockRoles(t) \/ LockAssignments(t)
  PROVE  RolesInv'
<1>1. TxSound(t) /\ rows \subseteq RowSpace /\ tx[t] \in TxRecords
  BY DEF RolesInv, DbTyped
<1>2. CASE HoldMembers(t)
  <2> DEFINE both == Members({tx[t].user, tx[t].actor})
  <2>1. Locking(t, both, {}, "members") /\ tx[t].op \in Conferring /\ tx[t].pc = "start"
    BY <1>2 DEF HoldMembers, Ready, Conferring
  <2>2. both \subseteq RowSpace /\ \A x \in both: x.kind = "mem"
    BY <1>1 DEF Members
  <2>3. RoleRow(tx[t].role).kind = "role"
    BY DEF RoleRow
  <2>4. RoleRow(tx[t].role) \notin both
    BY <2>2, <2>3
  <2> HIDE DEF both
  <2> QED BY <2>1, <2>2, <2>4, ConferralLocks
<1>3. CASE LockResource(t)
  BY <1>1, <1>3, ConferralLocks DEF LockResource, Ready, Conferring, ServerRow
<1>4. CASE HoldActor(t)
  <2>1. tx[t].op \in Conferring /\ tx[t].pc \in {"start", "members", "resource"}
        /\ (tx[t].pc = "resource" => tx[t].op = "grant")
    BY <1>1, <1>4 DEF HoldActor, Ready, TxSound, Statements, Past, Conferring
  <2>2. tx[t].op = "grant" => ServerRow \in Mine(t)
    BY <1>4 DEF HoldActor, Ready
  <2> DEFINE own == Members({tx[t].actor})
  <2>3. Locking(t, own, {}, "actor")
    BY <1>4 DEF HoldActor
  <2>4. own \subseteq RowSpace /\ \A x \in own: x.kind = "mem"
    BY <1>1 DEF Members
  <2>5. RoleRow(tx[t].role).kind = "role"
    BY DEF RoleRow
  <2>6. RoleRow(tx[t].role) \notin own
    BY <2>4, <2>5
  <2> HIDE DEF own
  <2> QED BY <2>1, <2>2, <2>3, <2>4, <2>6, ConferralLocks
<1>5. CASE LockRoles(t)
  <2>1. tx[t].op \in Conferring /\ tx[t].pc = "actor"
    BY <1>1, <1>5 DEF LockRoles, Ready, TxSound, Statements, Past
  <2>2. tx[t].op = "grant" => ServerRow \in Mine(t)
    BY <1>1, <2>1 DEF TxSound, NamedHeld
  <2> DEFINE all == {RoleRow(r): r \in RolesOf(Actor(t))}
             named == {RoleRow(tx[t].role)}
  <2>3. RolesOf(Actor(t)) \subseteq Roles /\ tx[t].role \in Roles
    BY <1>1 DEF RolesOf, RowSpace, TxRecords
  <2>4. all \cup named \subseteq RowSpace /\ \A x \in all \cup named: x.kind = "role"
    BY <2>3 DEF RoleRow, RowSpace
  <2>5. \E S, X \in SUBSET (all \cup named):
          Locking(t, S, X, "roles") /\ (tx[t].op = "update" => RoleRow(tx[t].role) \in X)
    BY <1>5 DEF LockRoles
  <2> HIDE DEF all, named
  <2> QED BY <2>1, <2>2, <2>4, <2>5, ConferralLocks
<1>6. CASE LockAssignments(t)
  <2>1. tx[t].op \in Conferring /\ tx[t].pc = "roles"
    BY <1>1, <1>6 DEF LockAssignments, Ready, TxSound, Statements, Past
  <2>2. tx[t].op = "grant" => ServerRow \in Mine(t)
    BY <1>1, <2>1 DEF TxSound, NamedHeld
  <2>3. HeldAssignments(t) \subseteq RowSpace /\ \A x \in HeldAssignments(t): x.kind = "asg"
    BY <1>1 DEF HeldAssignments
  <2>4. RoleRow(tx[t].role).kind = "role"
    BY DEF RoleRow
  <2>5. RoleRow(tx[t].role) \notin HeldAssignments(t)
    BY <2>3, <2>4
  <2>6. Locking(t, HeldAssignments(t), {}, "assignments")
    BY <1>6 DEF LockAssignments
  <2> QED BY <2>1, <2>2, <2>3, <2>5, <2>6, ConferralLocks
<1> QED BY <1>2, <1>3, <1>4, <1>5, <1>6

LEMMA NothingConferredSafe ==
  ASSUME RolesInv, NEW t \in Txs, NothingConferred(t)
  PROVE  RolesInv'
<1>1. TxSound(t)
  BY DEF RolesInv
<1>2. tx[t].op \in {"create", "grant"} /\ tx[t].pc \in {"start", "resource"}
      /\ (tx[t].op = "grant" => ServerRow \in Mine(t))
  BY <1>1 DEF NothingConferred, Ready, TxSound, Statements, Past, Conferring
<1>3. Locking(t, {}, {}, "ready") /\ "ready" \in Steps
  BY DEF NothingConferred, Steps
<1>4. tx'[t].want = {} /\ tx'[t].pc = "ready" /\ tx'[t].op = tx[t].op /\ Mine(t)' = Mine(t)
      /\ tx'[t].role = tx[t].role /\ tx'[t].actor = tx[t].actor /\ tx'[t].read = tx[t].read
      /\ tx'[t].ceiling = tx[t].ceiling /\ rolePerms' = rolePerms /\ (TxSound(t)' => RolesInv')
  BY <1>3, LockingFacts
<1>5. tx[t].ceiling = {}
  BY <1>1, <1>2 DEF TxSound, Ceilings, Conferring
<1>6. TxSound(t)'
  BY <1>1, <1>2, <1>4, <1>5
     DEF TxSound, Statements, Past, NamedHeld, Reads, Ceilings, Deletes, Conferring
<1> QED BY <1>4, <1>6

\* A deletion before its rows are gone.
LEMMA DeletionSound ==
  ASSUME NEW t \in Txs, TxSound(t), tx[t].op \notin Conferring, tx'[t].op = tx[t].op,
         tx'[t].pc \in {"members", "owners", "delete"}, Mine(t)' = Mine(t),
         tx'[t].read = tx[t].read, rolePerms' = rolePerms
  PROVE  TxSound(t)'
BY DEF TxSound, Statements, Past, NamedHeld, Reads, Ceilings, Deletes, Conferring

LEMMA DeletionLockingSafe ==
  ASSUME RolesInv, NEW t \in Txs, LockOwners(t) \/ Cascade(t)
  PROVE  RolesInv'
<1>1. TxSound(t) /\ rows \subseteq RowSpace
  BY DEF RolesInv, DbTyped
<1>2. CASE LockOwners(t)
  <2>1. Locking(t, {}, OwnerAssignments, "owners") /\ OwnerAssignments \subseteq RowSpace
        /\ "owners" \in Steps
    BY <1>1, <1>2 DEF LockOwners, OwnerAssignments, Steps
  <2>2. TxSound(t)'
    BY <1>1, <1>2, <2>1, LockingFacts, DeletionSound DEF LockOwners
  <2> QED BY <2>1, <2>2, LockingFacts
<1>3. CASE Cascade(t)
  <2>1. Cascaded(t) \subseteq rows /\ \A x \in Cascaded(t): x.kind \in {"asg", "grant"}
    BY DEF Cascaded, Dependents
  <2>2. Locking(t, {}, Cascaded(t), "ready") /\ "ready" \in Steps
    BY <1>3 DEF Cascade, Steps
  <2>3. tx[t].op \notin Conferring
    BY <1>1, <1>3 DEF Cascade, Ready, TxSound, Statements
  <2>4. Cascaded(t) \subseteq RowSpace
    BY <1>1, <2>1
  <2>5. tx'[t].want = Cascaded(t) \ tx[t].excl /\ tx'[t].wantx = Cascaded(t)
        /\ tx'[t].pc = "ready" /\ tx'[t].op = tx[t].op /\ Mine(t)' = Mine(t)
        /\ tx'[t].excl = tx[t].excl /\ tx'[t].target = tx[t].target /\ tx'[t].read = tx[t].read
        /\ rows' = rows /\ rolePerms' = rolePerms /\ (TxSound(t)' => RolesInv')
    BY <2>2, <2>4, LockingFacts
  <2>6. Cascaded(t)' = Cascaded(t)
    BY <2>5 DEF Cascaded, Deleted, Dependents
  <2>7. Deletes(t)'
    BY <2>1, <2>5, <2>6 DEF Deletes
  <2>8. Statements(t)' /\ NamedHeld(t)' /\ Reads(t)' /\ Ceilings(t)'
    BY <1>1, <2>3, <2>5 DEF TxSound, Statements, Past, NamedHeld, Reads, Ceilings, Conferring
  <2> QED BY <2>5, <2>7, <2>8 DEF TxSound
<1> QED BY <1>2, <1>3

LEMMA ReadCeilingSafe ==
  ASSUME RolesInv, NEW t \in Txs, ReadCeiling(t) \/ AddOwnGrant(t)
  PROVE  RolesInv'
<1>1. TxSound(t) /\ rows \subseteq RowSpace /\ tx[t] \in TxRecords /\ Mine(t) \subseteq rows
      /\ rolePerms \in [Roles -> SUBSET Perms] /\ grantPerms \in [Users -> SUBSET Perms]
  BY DEF RolesInv, DbTyped
<1>2. CASE ReadCeiling(t)
  <2> DEFINE grants == OwnGrant(t)
             x == [tx[t] EXCEPT !.ceiling = Ceiling(t), !.want = grants, !.wantx = {},
                                !.pc = IF tx[t].op = "grant" THEN "grants" ELSE "ready"]
  <2>1. tx' = [tx EXCEPT ![t] = x] /\ UNCHANGED db
    BY <1>2 DEF ReadCeiling
  <2>2. tx'[t] = x
    BY <2>1 DEF RolesInv
  <2>3. tx[t].op \in Conferring /\ tx[t].pc = "assignments"
    BY <1>1, <1>2 DEF ReadCeiling, Ready, TxSound, Statements, Past
  <2>4. grants \subseteq RowSpace
        /\ \A y \in grants: tx[t].op = "grant" /\ y.kind = "grant" /\ y.user = tx[t].actor
    BY <1>1 DEF OwnGrant
  <2>5. Ceiling(t) \subseteq Perms
    <3>1. \A r \in Roles: tx[t].read[r] \subseteq Perms
      BY <1>1 DEF TxRecords
    <3>2. \A y \in Mine(t): y.role \in Roles
      BY <1>1 DEF RowSpace
    <3> QED BY <3>1, <3>2 DEF Ceiling
  <2>6. x \in TxRecords
    BY <1>1, <2>4, <2>5 DEF TxRecords, Steps
  <2>7. x.ceiling = Ceiling(t) /\ x.want = grants
        /\ x.pc = (IF tx[t].op = "grant" THEN "grants" ELSE "ready")
        /\ x.op = tx[t].op /\ x.shared = tx[t].shared /\ x.excl = tx[t].excl /\ x.read = tx[t].read
        /\ x.role = tx[t].role /\ x.actor = tx[t].actor
    BY <1>1 DEF TxRecords
  <2> HIDE DEF grants, x
  <2>8. Mine(t)' = Mine(t) /\ rolePerms' = rolePerms /\ rows' = rows
    BY <2>1, <2>2, <2>7 DEF Mine, db
  <2>9. Ceiling(t)' = Ceiling(t)
    BY <2>2, <2>7, <2>8 DEF Ceiling, HeldAssignments, Actor
  <2>10. Statements(t)' /\ Reads(t)' /\ Ceilings(t)' /\ Deletes(t)'
    BY <1>1, <2>2, <2>3, <2>4, <2>7, <2>8, <2>9
       DEF TxSound, Statements, Past, Reads, Ceilings, Deletes
  <2>11. RoleRow(tx[t].role) \notin grants
    BY <2>4 DEF RoleRow
  <2>12. NamedHeld(t)'
    BY <1>1, <2>2, <2>3, <2>4, <2>7, <2>8, <2>11 DEF TxSound, NamedHeld
  <2>13. x.shared \cup x.excl \subseteq rows
         /\ \A o \in Txs \ {t}:
              x.excl \cap Mine(o) = {} /\ tx[o].excl \cap (x.shared \cup x.excl) = {}
    BY <2>7 DEF RolesInv, Apart, Mine
  <2> QED BY <2>1, <2>6, <2>10, <2>12, <2>13, LocalStep DEF TxSound
<1>3. CASE AddOwnGrant(t)
  <2> DEFINE own == UNION {grantPerms[y.user]: y \in {z \in Mine(t): z.kind = "grant"}}
             x == [tx[t] EXCEPT !.pc = "ready", !.ceiling = tx[t].ceiling \cup own]
  <2>1. tx' = [tx EXCEPT ![t] = x] /\ UNCHANGED db
    BY <1>3 DEF AddOwnGrant
  <2>2. tx'[t] = x
    BY <2>1 DEF RolesInv
  <2>3. tx[t].op = "grant" /\ tx[t].pc = "grants" /\ tx[t].want = {}
    BY <1>1, <1>3 DEF AddOwnGrant, Ready, TxSound, Statements
  <2>5. own \subseteq Perms
    <3>1. \A y \in Mine(t): y.kind = "grant" => y.user \in Users
      BY <1>1 DEF RolesInv, DbTyped, Canonical
    <3> QED BY <1>1, <3>1
  <2>6. x \in TxRecords
    BY <1>1, <2>5 DEF TxRecords, Steps
  <2>7. x.ceiling = tx[t].ceiling \cup own /\ x.want = {} /\ x.pc = "ready"
        /\ x.op = "grant" /\ x.shared = tx[t].shared /\ x.excl = tx[t].excl /\ x.read = tx[t].read
        /\ x.role = tx[t].role /\ x.actor = tx[t].actor
    BY <1>1, <2>3 DEF TxRecords
  <2>8. Mine(t)' = Mine(t) /\ rolePerms' = rolePerms /\ rows' = rows
    BY <2>1, <2>2, <2>7 DEF Mine, db
  <2>9. Ceiling(t)' = Ceiling(t)
    BY <2>2, <2>7, <2>8 DEF Ceiling, HeldAssignments, Actor
  <2>10. OwnGrants(t)' = own
    BY <2>1, <2>2, <2>7, <2>8 DEF OwnGrants, db
  <2>11. OwnGrants(t) = {}
    BY <2>3 DEF OwnGrants
  <2> HIDE DEF own, x
  <2>12. Ceilings(t)'
    BY <1>1, <2>2, <2>3, <2>7, <2>9, <2>10, <2>11 DEF TxSound, Ceilings, Conferring
  <2>13. Statements(t)' /\ Reads(t)' /\ Deletes(t)' /\ NamedHeld(t)'
    BY <1>1, <2>2, <2>3, <2>7, <2>8
       DEF TxSound, Statements, Past, Reads, Deletes, NamedHeld, Conferring
  <2>14. x.shared \cup x.excl \subseteq rows
         /\ \A o \in Txs \ {t}:
              x.excl \cap Mine(o) = {} /\ tx[o].excl \cap (x.shared \cup x.excl) = {}
    BY <2>7 DEF RolesInv, Apart, Mine
  <2> QED BY <2>1, <2>6, <2>12, <2>13, <2>14, LocalStep DEF TxSound
<1> QED BY <1>2, <1>3
LEMMA FindSafe ==
  ASSUME RolesInv, NEW t \in Txs, Find(t) \/ Delete(t)
  PROVE  RolesInv'
<1>1. TxSound(t) /\ rows \subseteq RowSpace /\ tx[t] \in TxRecords /\ Mine(t) \subseteq rows
      /\ tx[t].role \in Roles
  BY DEF RolesInv, DbTyped, TxRecords
<1>2. tx[t].op \notin Conferring
  BY <1>1 DEF Find, Delete, Ready, TxSound, Statements
<1>3. PICK target \in SUBSET RowSpace, want \in SUBSET RowSpace, wantx \in SUBSET RowSpace,
           pc \in {"members", "owners", "delete"}:
        /\ tx' = [tx EXCEPT ![t] = [tx[t] EXCEPT !.target = target, !.want = want,
                                                 !.wantx = wantx, !.pc = pc]]
        /\ UNCHANGED db
  <2>1. CASE Find(t)
    <3> DEFINE W == IF tx[t].op = "remove" THEN Named(t) ELSE {}
               pc == IF Guarded(t) THEN "members" ELSE "owners"
    <3>1. Named(t) \subseteq rows
      BY DEF Named, Members
    <3>2. tx' = [tx EXCEPT ![t] = [tx[t] EXCEPT !.target = Named(t), !.want = W, !.wantx = W,
                                                !.pc = pc]]
          /\ UNCHANGED db
      <4>1. [tx[t] EXCEPT !.target = Named(t), !.pc = pc, !.want = W, !.wantx = W]
            = [tx[t] EXCEPT !.target = Named(t), !.want = W, !.wantx = W, !.pc = pc]
        BY <1>1 DEF TxRecords
      <4>2. tx' = [tx EXCEPT ![t] = [tx[t] EXCEPT !.target = Named(t), !.pc = pc, !.want = W,
                                                  !.wantx = W]]
            /\ UNCHANGED db
        BY <2>1 DEF Find
      <4> QED BY <4>1, <4>2
    <3>3. pc \in {"members", "owners", "delete"} /\ W \in SUBSET RowSpace
          /\ Named(t) \in SUBSET RowSpace
      BY <1>1, <3>1
    <3> HIDE DEF W, pc
    <3> QED BY <3>2, <3>3
  <2>2. CASE Delete(t)
    <3>1. Doomed(t) \subseteq rows
      BY DEF Doomed, Members
    <3>2. tx' = [tx EXCEPT ![t] = [tx[t] EXCEPT !.target = Doomed(t),
                                                !.want = Doomed(t) \ tx[t].excl,
                                                !.wantx = Doomed(t), !.pc = "delete"]]
          /\ UNCHANGED db
      BY <2>2 DEF Delete
    <3> QED BY <1>1, <3>1, <3>2
  <2> QED BY <2>1, <2>2
<1> DEFINE x == [tx[t] EXCEPT !.target = target, !.want = want, !.wantx = wantx, !.pc = pc]
<1>4. x \in TxRecords
  BY <1>1 DEF TxRecords, Steps
<1>5. x.op = tx[t].op /\ x.shared = tx[t].shared /\ x.excl = tx[t].excl /\ x.read = tx[t].read
      /\ x.pc = pc
  BY <1>1 DEF TxRecords
<1> HIDE DEF x
<1>6. tx' = [tx EXCEPT ![t] = x] /\ tx'[t] = x /\ rolePerms' = rolePerms
  BY <1>3 DEF RolesInv, x, db
<1>7. Mine(t)' = Mine(t)
  BY <1>5, <1>6 DEF Mine
<1>8. TxSound(t)'
  BY <1>1, <1>2, <1>5, <1>6, <1>7, DeletionSound
<1>9. x.shared \cup x.excl \subseteq rows
      /\ \A o \in Txs \ {t}: x.excl \cap Mine(o) = {} /\ tx[o].excl \cap (x.shared \cup x.excl) = {}
  BY <1>5 DEF RolesInv, Apart, Mine
<1> QED BY <1>3, <1>4, <1>6, <1>8, <1>9, LocalStep

LEMMA AcquireSafe ==
  ASSUME RolesInv, NEW t \in Txs, NEW row \in tx[t].want, Acquire(t, row)
  PROVE  RolesInv'
<1>1. TxSound(t) /\ rows \subseteq RowSpace /\ tx[t] \in TxRecords /\ Mine(t) \subseteq rows
      /\ rolePerms \in [Roles -> SUBSET Perms] /\ row \in RowSpace
  BY DEF RolesInv, DbTyped, TxRecords
<1> DEFINE share == IF row \in rows \ tx[t].wantx THEN tx[t].shared \cup {row} ELSE tx[t].shared
           hold == IF row \in rows \cap tx[t].wantx THEN tx[t].excl \cup {row} ELSE tx[t].excl
           reading == IF row \in rows /\ row.kind = "role"
                        THEN [tx[t].read EXCEPT ![row.role] = rolePerms[row.role]] ELSE tx[t].read
           x == [tx[t] EXCEPT !.want = tx[t].want \ {row}, !.shared = share, !.excl = hold,
                              !.read = reading]
<1>2. tx' = [tx EXCEPT ![t] = x] /\ UNCHANGED db
  BY DEF Acquire
<1>3. tx'[t] = x
  BY <1>2 DEF RolesInv
<1>4. share \subseteq tx[t].shared \cup {row} /\ hold \subseteq tx[t].excl \cup {row}
      /\ share \subseteq RowSpace /\ hold \subseteq RowSpace
  BY <1>1 DEF TxRecords
<1>5. reading \in [Roles -> SUBSET Perms]
      /\ (\A r \in Roles: reading[r] = tx[t].read[r] \/ reading[r] = rolePerms[r])
      /\ (\A r \in Roles: row \in rows /\ row = RoleRow(r) => reading[r] = rolePerms[r])
  BY <1>1 DEF TxRecords, RoleRow, RowSpace
<1>5a. row.kind # "role" => reading = tx[t].read
  OBVIOUS
<1>6. x \in TxRecords
  <2>1. \A S, H \in SUBSET RowSpace, q \in [Roles -> SUBSET Perms]:
          [tx[t] EXCEPT !.want = tx[t].want \ {row}, !.shared = S, !.excl = H, !.read = q]
          \in TxRecords
    BY <1>1 DEF TxRecords
  <2>2. share \in SUBSET RowSpace /\ hold \in SUBSET RowSpace /\ reading \in [Roles -> SUBSET Perms]
    BY <1>4, <1>5
  <2> HIDE DEF share, hold, reading
  <2> QED BY <2>1, <2>2
<1>7. x.want = tx[t].want \ {row} /\ x.shared = share /\ x.excl = hold /\ x.read = reading
      /\ x.pc = tx[t].pc /\ x.op = tx[t].op /\ x.role = tx[t].role /\ x.actor = tx[t].actor
      /\ x.wantx = tx[t].wantx /\ x.ceiling = tx[t].ceiling /\ x.target = tx[t].target
  BY <1>1 DEF TxRecords
<1>8. share \cup hold = IF row \in rows THEN Mine(t) \cup {row} ELSE Mine(t)
  BY DEF Mine
<1> HIDE DEF x, reading
<1>9. Mine(t)' = share \cup hold
  BY <1>3, <1>7 DEF Mine
<1>10. share \cup hold \subseteq rows /\ rows' = rows /\ rolePerms' = rolePerms
       /\ grantPerms' = grantPerms
  BY <1>1, <1>2, <1>8 DEF db
<1>11. \A o \in Txs \ {t}: x.excl \cap Mine(o) = {} /\ tx[o].excl \cap (x.shared \cup x.excl) = {}
  <2> TAKE o \in Txs \ {t}
  <2>1. ~Conflicts(t, o, row)
    BY DEF Acquire, Blockers
  <2>2. row \notin tx[o].excl /\ (row \in tx[t].wantx => row \notin Mine(o))
    BY <2>1 DEF Conflicts, Mine
  <2>3. tx[t].excl \cap Mine(o) = {} /\ tx[o].excl \cap Mine(t) = {}
    BY DEF RolesInv, Apart
  <2> QED BY <1>7, <2>2, <2>3 DEF Mine
<1> HIDE DEF share, hold
<1>12. Statements(t)'
  BY <1>1, <1>3, <1>7 DEF TxSound, Statements, Past
<1>13. NamedHeld(t)'
  <2>1. RoleRow(tx[t].role) \in share => RoleRow(tx[t].role) \in tx[t].shared
          \/ (row = RoleRow(tx[t].role) /\ row \notin tx[t].wantx)
    BY DEF share
  <2>2. Mine(t)' \cup tx'[t].want \subseteq Mine(t) \cup tx[t].want /\ Mine(t) \subseteq Mine(t)'
    BY <1>3, <1>7, <1>8, <1>9
  <2> QED BY <1>1, <1>3, <1>7, <2>1, <2>2 DEF TxSound, NamedHeld
<1>14. Reads(t)'
  <2> SUFFICES ASSUME NEW r \in Roles, RoleRow(r) \in Mine(t)' PROVE reading[r] = rolePerms[r]
    BY <1>3, <1>7, <1>10 DEF Reads
  <2>1. CASE RoleRow(r) \in Mine(t)
    BY <1>1, <1>5, <2>1 DEF TxSound, Reads
  <2>2. CASE RoleRow(r) \notin Mine(t)
    BY <1>5, <1>8, <1>9, <2>2
  <2> QED BY <2>1, <2>2
<1>15. Ceilings(t)'
  <2>1. CASE tx[t].op \in Conferring /\ tx[t].pc = "grants"
    <3>1. row.kind = "grant"
      BY <1>1, <2>1 DEF TxSound, Statements
    <3>2. reading = tx[t].read /\ Mine(t) \subseteq Mine(t)'
      <4>1. reading = tx[t].read
        BY <1>5a, <3>1
      <4>2. Mine(t) \subseteq Mine(t)'
        BY <1>8, <1>9
      <4> QED BY <4>1, <4>2
    <3>3. Actor(t) \subseteq Actor(t)'
      BY <1>3, <1>7, <3>2 DEF Actor
    <3>4. HeldAssignments(t) \subseteq HeldAssignments(t)'
      BY <1>10, <3>2, <3>3 DEF HeldAssignments
    <3>5. Ceiling(t) \subseteq Ceiling(t)'
      BY <1>3, <1>7, <3>2, <3>4 DEF Ceiling
    <3>6. OwnGrants(t) = {} /\ tx[t].ceiling \subseteq Ceiling(t) \cup OwnGrants(t)
      BY <1>1, <2>1 DEF TxSound, Ceilings, OwnGrants
    <3> QED BY <1>3, <1>7, <2>1, <3>5, <3>6 DEF Ceilings
  <2>2. CASE tx[t].op \in Conferring /\ tx[t].pc = "ready"
    BY <1>1, <2>2 DEF TxSound, Statements
  <2>3. CASE tx[t].op \notin Conferring \/ tx[t].pc \notin {"grants", "ready"}
    BY <1>1, <1>3, <1>7, <2>3 DEF TxSound, Ceilings
  <2> QED BY <2>1, <2>2, <2>3
<1>16. Deletes(t)'
  <2> SUFFICES ASSUME tx[t].op \notin Conferring, tx[t].pc = "ready"
               PROVE  /\ tx'[t].want \subseteq tx'[t].wantx
                      /\ \A y \in tx'[t].want: y.kind \in {"asg", "grant"}
                      /\ Cascaded(t)' \subseteq tx'[t].excl \cup tx'[t].want
    BY <1>3, <1>7 DEF Deletes
  <2>1. tx[t].want \subseteq tx[t].wantx /\ (\A y \in tx[t].want: y.kind \in {"asg", "grant"})
        /\ Cascaded(t) \subseteq tx[t].excl \cup tx[t].want
    BY <1>1 DEF TxSound, Deletes
  <2>2. row.kind \in {"asg", "grant"} /\ row \in tx[t].wantx
    BY <2>1
  <2>3. Dependents(row) = {}
    BY <2>2 DEF Dependents
  <2>4. \A y: Dependents(y)' = Dependents(y)
    BY <1>10 DEF Dependents
  <2>5. Deleted(t)' \subseteq Deleted(t) \cup {row}
    BY <1>3, <1>4, <1>7 DEF Deleted
  <2>6. Cascaded(t)' \subseteq Cascaded(t)
    BY <2>3, <2>4, <2>5 DEF Cascaded
  <2>7. Cascaded(t) \subseteq rows
    BY DEF Cascaded, Dependents
  <2>8. row \in rows => row \in hold
    BY <2>2 DEF hold
  <2>9. tx[t].excl \subseteq hold
    BY DEF hold
  <2> QED BY <1>3, <1>7, <2>1, <2>6, <2>7, <2>8, <2>9
<1> QED BY <1>2, <1>6, <1>7, <1>10, <1>11, <1>12, <1>13, <1>14, <1>15, <1>16, LocalStep DEF TxSound
\* A step that changes the database: its transaction ends, or it is no transaction's.
LEMMA WriteStep ==
  ASSUME RolesInv, DbTyped', tx' \in [Txs -> TxRecords],
         \A o \in Txs: \/ tx'[o] = Done
                       \/ /\ tx'[o] = tx[o] /\ Mine(o) \subseteq rows'
                          /\ \A r \in Roles: RoleRow(r) \in Mine(o) => rolePerms'[r] = rolePerms[r]
                          /\ \A y \in Mine(o):
                               y.kind = "grant" => grantPerms'[y.user] = grantPerms[y.user]
                          /\ \A x \in tx[o].excl: Dependents(x)' \subseteq Dependents(x)
  PROVE  RolesInv'
<1>1. \A o \in Txs: TxSound(o)'
  <2> TAKE o \in Txs
  <2>1. CASE tx'[o] = Done
    BY <2>1, EmptySound DEF Done, Idle
  <2>2. CASE tx'[o] # Done
    <3>1. TxSound(o) /\ Mine(o) \subseteq rows
      BY DEF RolesInv
    <3> QED BY <2>2, <3>1, OthersSound
  <2> QED BY <2>1, <2>2
<1>2. \A o \in Txs: \/ tx'[o].excl = {} /\ Mine(o)' = {}
                    \/ tx'[o].excl = tx[o].excl /\ Mine(o)' = Mine(o) /\ Mine(o) \subseteq rows'
  BY DEF Done, Idle, Mine
<1>3. \A o \in Txs: Mine(o)' \subseteq rows'
  BY <1>2
<1>4. \A p, o \in Txs: p # o => Apart(p, o)'
  BY <1>2 DEF RolesInv, Apart
<1> QED BY <1>1, <1>3, <1>4 DEF RolesInv

LEMMA AddMemberSafe ==
  ASSUME RolesNumbered, RolesInv, NEW a \in Users, NEW u \in Users, AddMember(a, u)
  PROVE  RolesInv'
<1> DEFINE m == Mem(u, joins[u] + 1)
<1>1. joins' = [joins EXCEPT ![u] = joins[u] + 1] /\ rows' = rows \cup {m}
      /\ UNCHANGED <<used, rolePerms, grantPerms, tx>>
  BY DEF AddMember
<1>2. DbTyped
  BY DEF RolesInv
<1>3. joins[u] + 1 \in Nat
  BY <1>2 DEF DbTyped
<1>4. m \in RowSpace /\ m.kind = "mem" /\ Canonical(m)
  BY <1>3 DEF Mem, RowSpace, Roles, Owner, Canonical
<1> HIDE DEF m
<1>5. DbTyped'
  <2>1. rows' \in SUBSET RowSpace /\ \A x \in rows': Canonical(x)
    BY <1>1, <1>2, <1>4 DEF DbTyped
  <2>2. \A r \in CustomRoles: RoleRow(r) \in rows' => r \in used'
    BY <1>1, <1>2, <1>4 DEF DbTyped, RoleRow
  <2>3. joins' \in [Users -> Nat]
    BY <1>1, <1>2, <1>3 DEF DbTyped
  <2> QED BY <1>1, <1>2, <2>1, <2>2, <2>3 DEF DbTyped, Canonical
<1>6. \A x: Dependents(x)' = Dependents(x)
  BY <1>1, <1>4 DEF Dependents
<1> QED BY <1>1, <1>5, <1>6, WriteStep DEF RolesInv

LEMMA CommitDeleteSafe ==
  ASSUME RolesNumbered, RolesInv, NEW t \in Txs, CommitDelete(t)
  PROVE  RolesInv'
<1>1. rows' = rows \ (Deleted(t) \cup Cascaded(t)) /\ UNCHANGED <<used, rolePerms, grantPerms>>
      /\ joins' = [u \in Users |->
                    IF tx[t].op = "leave" /\ u = tx[t].user THEN MaxJoins ELSE joins[u]]
      /\ tx' = [tx EXCEPT ![t] = Done]
      /\ tx[t].op \notin Conferring /\ tx[t].pc = "ready" /\ tx[t].want = {}
  BY DEF CommitDelete, Ends, Ready
<1>2. DbTyped /\ TxSound(t)
  BY DEF RolesInv
<1>3. joins' \in [Users -> Nat]
  BY <1>1, <1>2 DEF DbTyped, RolesNumbered
<1>4. DbTyped'
  BY <1>1, <1>2, <1>3 DEF DbTyped, Canonical
<1>5. tx' \in [Txs -> TxRecords] /\ tx'[t] = Done /\ \A o \in Txs \ {t}: tx'[o] = tx[o]
  BY <1>1, IdleTyped DEF RolesInv
<1>6. Deleted(t) \cup Cascaded(t) \subseteq tx[t].excl
  BY <1>1, <1>2 DEF Deleted, TxSound, Deletes
<1>7. \A o \in Txs \ {t}: Mine(o) \subseteq rows'
  BY <1>1, <1>6 DEF RolesInv, Apart
<1>8. \A x: Dependents(x)' \subseteq Dependents(x)
  BY <1>1 DEF Dependents
<1> QED BY <1>1, <1>4, <1>5, <1>7, <1>8, WriteStep

\* What a conferral relies on is locked when it writes.
LEMMA ConferralHolds ==
  ASSUME RolesInv, NEW t \in Txs, Confer(t)
  PROVE  /\ tx[t].op \in {"assign", "update"} => RoleRow(tx[t].role) \in Mine(t)
         /\ tx[t].op = "update" => RoleRow(tx[t].role) \in tx[t].excl
         /\ tx[t].op = "create" => tx[t].role \in CustomRoles \ used
         /\ tx[t].op = "grant" => /\ ServerRow \in Mine(t)
                                  /\ \A x \in rows: x.kind = "grant" => x.user # tx[t].user
<1>1. TxSound(t) /\ ~Refused(t) /\ tx[t].pc = "ready"
  BY DEF RolesInv, Confer, Ready
<1> QED BY <1>1 DEF Refused, TxSound, NamedHeld, Mine

LEMMA ConferSafe ==
  ASSUME RolesNumbered, RolesInv, NEW t \in Txs, Confer(t)
  PROVE  RolesInv'
<1>1. DbTyped /\ TxSound(t) /\ Mine(t) \subseteq rows /\ tx[t] \in TxRecords
      /\ tx[t].role \in Roles /\ tx[t].perms \subseteq Perms
  BY DEF RolesInv, TxRecords
<1>2. tx' = [tx EXCEPT ![t] = Done]
  BY DEF Confer, Ends
<1>3. tx' \in [Txs -> TxRecords] /\ tx'[t] = Done /\ \A o \in Txs \ {t}: tx'[o] = tx[o]
  BY <1>2, IdleTyped DEF RolesInv
<1>4. \A o \in Txs \ {t}: Mine(o) \subseteq rows /\ tx[o].excl \cap Mine(t) = {}
                          /\ tx[t].excl \cap Mine(o) = {} /\ tx[o].excl \subseteq Mine(o)
  BY DEF RolesInv, Apart, Mine
<1>5. \A x \in rows: x \in RowSpace /\ Canonical(x)
  BY <1>1 DEF DbTyped
<1>6. \A x \in Target(t): x \in Mine(t) /\ x \in RowSpace /\ x = Mem(x.user, x.id)
                          /\ x.user = tx[t].user /\ x.user \in Users
  BY <1>1, <1>5 DEF Target, Canonical
<1>7. CASE tx[t].op = "assign" /\ AssignRole(t)
  <2> DEFINE new == {Asg(x.user, x.id, tx[t].role): x \in Target(t)}
  <2>1. rows' = rows \cup new /\ UNCHANGED <<joins, used, rolePerms, grantPerms>>
    BY <1>7 DEF AssignRole
  <2>2. \A y \in new: y \in RowSpace /\ y.kind = "asg" /\ y.role = tx[t].role
                      /\ Mem(y.user, y.id) \in Mine(t)
    BY <1>1, <1>6 DEF Asg, RowSpace
  <2> HIDE DEF new
  <2>3. DbTyped'
    <3>1. rows' \in SUBSET RowSpace
      BY <1>5, <2>1, <2>2
    <3>2. \A x \in rows': Canonical(x)
      BY <1>5, <2>1, <2>2 DEF Canonical
    <3>3. \A r \in CustomRoles: RoleRow(r) \in rows' => r \in used'
      BY <1>1, <2>1, <2>2 DEF DbTyped, RoleRow
    <3> QED BY <1>1, <2>1, <3>1, <3>2, <3>3 DEF DbTyped, Canonical
  <2>4. \A o \in Txs \ {t}: \A x \in tx[o].excl: Dependents(x)' \subseteq Dependents(x)
    <3> SUFFICES ASSUME NEW o \in Txs \ {t}, NEW x \in tx[o].excl, NEW y \in Dependents(x)',
                        y \in new
                 PROVE  FALSE
      BY <2>1 DEF Dependents
    <3>1. Canonical(x) /\ x \notin Mine(t) /\ x \in RowSpace
      BY <1>4, <1>5
    <3>2. CASE x.kind = "mem"
      BY <2>2, <3>1, <3>2 DEF Dependents, Canonical
    <3>3. CASE x.kind = "role"
      BY <1>7, <2>2, <3>1, <3>3, ConferralHolds DEF Dependents, Canonical
    <3> QED BY <2>2, <3>2, <3>3 DEF Dependents
  <2> QED BY <1>3, <1>4, <2>1, <2>3, <2>4, WriteStep
<1>8. CASE tx[t].op = "create" /\ CreateRole(t)
  <2>1. rows' = rows \cup {RoleRow(tx[t].role)} /\ used' = used \cup {tx[t].role}
        /\ rolePerms' = [rolePerms EXCEPT ![tx[t].role] = tx[t].perms]
        /\ UNCHANGED <<joins, grantPerms>>
    BY <1>8 DEF CreateRole
  <2>2. tx[t].role \in CustomRoles /\ tx[t].role \notin used
    BY <1>8, ConferralHolds
  <2>3. RoleRow(tx[t].role) \in RowSpace /\ Canonical(RoleRow(tx[t].role))
        /\ RoleRow(tx[t].role).kind = "role"
    BY <1>1 DEF RoleRow, RowSpace, Canonical
  <2>4. RoleRow(tx[t].role) \notin rows
    BY <1>1, <2>2 DEF DbTyped
  <2>5. DbTyped'
    <3>1. rows' \in SUBSET RowSpace /\ \A x \in rows': Canonical(x)
      BY <1>5, <2>1, <2>3
    <3>2. used' \in SUBSET CustomRoles /\ rolePerms' \in [Roles -> SUBSET Perms]
      BY <1>1, <2>1, <2>2 DEF DbTyped
    <3>3. \A r \in CustomRoles: RoleRow(r) \in rows' => r \in used'
      BY <1>1, <2>1 DEF DbTyped, RoleRow
    <3> QED BY <1>1, <2>1, <3>1, <3>2, <3>3 DEF DbTyped, Canonical
  <2>6. \A x: Dependents(x)' = Dependents(x)
    BY <2>1, <2>3 DEF Dependents
  <2>7. \A r \in Roles: RoleRow(r) \in rows => rolePerms'[r] = rolePerms[r]
    BY <1>1, <2>1, <2>4 DEF DbTyped
  <2> QED BY <1>3, <1>4, <2>1, <2>5, <2>6, <2>7, WriteStep
<1>9. CASE tx[t].op = "update" /\ UpdateRole(t)
  <2>1. rolePerms' = [rolePerms EXCEPT ![tx[t].role] = tx[t].perms]
        /\ UNCHANGED <<rows, joins, used, grantPerms>>
    BY <1>9 DEF UpdateRole
  <2>2. RoleRow(tx[t].role) \in tx[t].excl
    BY <1>9, ConferralHolds
  <2>3. DbTyped'
    <3>1. rolePerms' \in [Roles -> SUBSET Perms]
      BY <1>1, <2>1 DEF DbTyped
    <3> QED BY <1>1, <2>1, <3>1 DEF DbTyped, Canonical
  <2>4. \A x: Dependents(x)' = Dependents(x)
    BY <2>1 DEF Dependents
  <2>5. \A o \in Txs \ {t}: \A r \in Roles: RoleRow(r) \in Mine(o) => rolePerms'[r] = rolePerms[r]
    <3> TAKE o \in Txs \ {t}
    <3> TAKE r \in Roles
    <3> HAVE RoleRow(r) \in Mine(o)
    <3>1. r # tx[t].role
      BY <1>4, <2>2
    <3> QED BY <1>1, <2>1, <3>1 DEF DbTyped
  <2> QED BY <1>3, <1>4, <2>1, <2>3, <2>4, <2>5, WriteStep
<1>10. CASE tx[t].op = "grant" /\ CreateGrant(t)
  <2> DEFINE new == {Grant(x.user, x.id): x \in Target(t)}
  <2>1. rows' = rows \cup new /\ UNCHANGED <<joins, used, rolePerms>>
        /\ grantPerms' = [grantPerms EXCEPT ![tx[t].user] = tx[t].perms]
    BY <1>10 DEF CreateGrant
  <2>2. \A y \in new: y \in RowSpace /\ y.kind = "grant" /\ y.user \in Users
                      /\ Mem(y.user, y.id) \in Mine(t)
    BY <1>1, <1>6 DEF Grant, RowSpace, Roles, Owner
  <2> HIDE DEF new
  <2>3. DbTyped'
    <3>1. rows' \in SUBSET RowSpace
      BY <1>5, <2>1, <2>2
    <3>2. \A x \in rows': Canonical(x)
      BY <1>5, <2>1, <2>2 DEF Canonical
    <3>3. \A r \in CustomRoles: RoleRow(r) \in rows' => r \in used'
      BY <1>1, <2>1, <2>2 DEF DbTyped, RoleRow
    <3>4. grantPerms' \in [Users -> SUBSET Perms]
      BY <1>1, <2>1 DEF DbTyped
    <3> QED BY <1>1, <2>1, <3>1, <3>2, <3>3, <3>4 DEF DbTyped, Canonical
  <2>4. \A o \in Txs \ {t}: \A x \in tx[o].excl: Dependents(x)' \subseteq Dependents(x)
    <3> SUFFICES ASSUME NEW o \in Txs \ {t}, NEW x \in tx[o].excl, NEW y \in Dependents(x)',
                        y \in new
                 PROVE  FALSE
      BY <2>1 DEF Dependents
    <3>1. Canonical(x) /\ x \notin Mine(t) /\ x \in RowSpace
      BY <1>4, <1>5
    <3>2. CASE x.kind = "mem"
      BY <2>2, <3>1, <3>2 DEF Dependents, Canonical
    <3>3. CASE x.kind = "server"
      BY <1>10, <3>1, <3>3, ConferralHolds DEF Canonical
    <3> QED BY <2>2, <3>2, <3>3 DEF Dependents
  <2>5. \A y \in rows: y.kind = "grant" => grantPerms'[y.user] = grantPerms[y.user]
    <3> TAKE y \in rows
    <3> HAVE y.kind = "grant"
    <3>1. y.user # tx[t].user /\ y.user \in Users
      BY <1>5, <1>10, ConferralHolds DEF Canonical
    <3> QED BY <1>1, <2>1, <3>1 DEF DbTyped
  <2> QED BY <1>3, <1>4, <2>1, <2>3, <2>4, <2>5, WriteStep
<1> QED BY <1>7, <1>8, <1>9, <1>10 DEF Confer

LEMMA RolesInvInit == ASSUME RolesNumbered, Init PROVE RolesInv
<1>1. DbTyped
  <2>1. PICK made \in SUBSET CustomRoles, joined \in SUBSET (Users \ {1}):
        \E owners \in SUBSET joined, granted \in SUBSET joined:
          Provisioned(made, joined, owners, granted)
    BY DEF Init
  <2>2. PICK owners \in SUBSET joined, granted \in SUBSET joined:
          Provisioned(made, joined, owners, granted)
    BY <2>1
  <2>3. joins \in [Users -> Nat] /\ used = made /\ used \in SUBSET CustomRoles
        /\ rolePerms \in [Roles -> SUBSET Perms] /\ grantPerms \in [Users -> SUBSET Perms]
    BY <2>2 DEF Provisioned
  <2>4. \A x \in rows:
          \/ \E u \in Users: x = Mem(u, 1)
          \/ \E r \in made \cup {Owner}: x = RoleRow(r)
          \/ x = ServerRow
          \/ \E u \in Users, r \in Roles: x = Asg(u, 1, r)
          \/ \E u \in Users: x = Grant(u, 1)
    BY <2>2 DEF Provisioned, RolesNumbered, Roles
  <2>5. \A x \in rows: x \in RowSpace
    <3> TAKE x \in rows
    <3>1. CASE \E u \in Users: x = Mem(u, 1) \/ x = Grant(u, 1)
      BY <3>1 DEF Mem, Grant, RowSpace, Roles, Owner
    <3>2. CASE \E r \in made \cup {Owner}: x = RoleRow(r)
      BY <3>2 DEF RoleRow, RowSpace, Roles
    <3>3. CASE x = ServerRow
      BY <3>3 DEF ServerRow, RowSpace, Roles, Owner
    <3>4. CASE \E u \in Users, r \in Roles: x = Asg(u, 1, r)
      BY <3>4 DEF Asg, RowSpace
    <3> QED BY <2>4, <3>1, <3>2, <3>3, <3>4
  <2>6. \A x \in rows: Canonical(x)
    BY <2>4 DEF Canonical, Mem, RoleRow, ServerRow, Asg, Grant
  <2>7. \A r \in CustomRoles: RoleRow(r) \in rows => r \in used
    <3> SUFFICES ASSUME NEW r \in CustomRoles, RoleRow(r) \in rows PROVE r \in made
      BY <2>3
    <3>1. \E q \in made \cup {Owner}: RoleRow(r) = RoleRow(q)
      BY <2>4 DEF Mem, RoleRow, ServerRow, Asg, Grant
    <3> QED BY <3>1 DEF RoleRow, RolesNumbered
  <2> QED BY <2>3, <2>5, <2>6, <2>7 DEF DbTyped
<1>2. tx = [t \in Txs |-> Idle]
  BY DEF Init
<1>3. tx \in [Txs -> TxRecords]
  BY <1>2, IdleTyped
<1>4. \A t \in Txs: Mine(t) = {} /\ tx[t].excl = {} /\ tx[t].want = {} /\ tx[t].pc = "idle"
                    /\ tx[t].op = "none" /\ tx[t].shared = {}
  BY <1>2 DEF Mine, Idle
<1>5. \A t \in Txs: TxSound(t)
  BY <1>4 DEF TxSound, Statements, Past, NamedHeld, Reads, Ceilings, Deletes, Conferring
<1> QED BY <1>1, <1>3, <1>4, <1>5 DEF RolesInv, Apart

LEMMA RolesInvNext == ASSUME RolesNumbered, RolesInv, [Next]_vars PROVE RolesInv'
<1>1. CASE UNCHANGED vars
  BY <1>1 DEF vars, RolesInv, DbTyped, Canonical, Mine, Apart, TxSound, Statements, NamedHeld,
              Reads, Ceilings, Ceiling, HeldAssignments, Actor, OwnGrants, Deletes, Cascaded,
              Deleted, Dependents
<1>2. CASE \E a, u \in Users: AddMember(a, u)
  BY <1>2, AddMemberSafe
<1>3. CASE \E t \in Txs: Submit(t)
  BY <1>3, SubmitSafe
<1>4. CASE \E t \in Txs: TxStep(t)
  <2>1. PICK t \in Txs: TxStep(t)
    BY <1>4
  <2>2. CASE \E x \in tx[t].want: Acquire(t, x)
    BY <2>2, AcquireSafe
  <2>3. CASE NoMember(t) \/ NoResource(t) \/ Rejected(t) \/ NotFound(t) \/ RemovedMeanwhile(t)
             \/ LastOwnerRemoval(t)
    <3>1. Refuse(t)
      BY <2>3 DEF NoMember, NoResource, Rejected, NotFound, RemovedMeanwhile, LastOwnerRemoval
    <3> QED BY <3>1, RefuseSafe
  <2>4. CASE HoldMembers(t) \/ LockResource(t) \/ HoldActor(t) \/ LockRoles(t) \/ LockAssignments(t)
    BY <2>4, ConferralLockingSafe
  <2>5. CASE NothingConferred(t)
    BY <2>5, NothingConferredSafe
  <2>6. CASE ReadCeiling(t) \/ AddOwnGrant(t)
    BY <2>6, ReadCeilingSafe
  <2>7. CASE Find(t) \/ Delete(t)
    BY <2>7, FindSafe
  <2>8. CASE LockOwners(t) \/ Cascade(t)
    BY <2>8, DeletionLockingSafe
  <2>9. CASE Confer(t)
    BY <2>9, ConferSafe
  <2>10. CASE CommitDelete(t)
    BY <2>10, CommitDeleteSafe
  <2> QED BY <2>1, <2>2, <2>3, <2>4, <2>5, <2>6, <2>7, <2>8, <2>9, <2>10 DEF TxStep
<1> QED BY <1>1, <1>2, <1>3, <1>4 DEF Next

LEMMA CeilingHeld ==
  ASSUME RolesInv, NEW t \in Txs
  PROVE  Ceiling(t) \subseteq CommunityPermissions(tx[t].actor)
<1> SUFFICES ASSUME NEW x \in Mine(t) \cap HeldAssignments(t), NEW p \in tx[t].read[x.role]
             PROVE  p \in CommunityPermissions(tx[t].actor)
  BY DEF Ceiling
<1>1. x \in rows /\ x.kind = "asg" /\ Mem(x.user, x.id) \in Actor(t) /\ RoleRow(x.role) \in Mine(t)
  BY DEF HeldAssignments
<1>2. x.role \in Roles /\ Mine(t) \subseteq rows /\ Reads(t)
  BY <1>1 DEF RolesInv, DbTyped, RowSpace, TxSound
<1>3. tx[t].read[x.role] = rolePerms[x.role]
  BY <1>1, <1>2 DEF Reads
<1>4. Mem(x.user, x.id) \in Members({tx[t].actor})
  BY <1>1, <1>2 DEF Actor, Members
<1>5. x.role \in RolesOf(Members({tx[t].actor}))
  BY <1>1, <1>4 DEF RolesOf
<1> QED BY <1>3, <1>5 DEF CommunityPermissions

LEMMA ConferralsCovered ==
  ASSUME RolesInv, NEW t \in Txs, Confers(t)
  PROVE  /\ Conferred(t) \subseteq (IF tx[t].op = "grant" THEN EffectivePermissions(tx[t].actor)
                                                         ELSE CommunityPermissions(tx[t].actor))
         /\ tx[t].op = "assign" => tx[t].read[tx[t].role] = rolePerms[tx[t].role]
<1>1. TxSound(t) /\ tx[t].role \in Roles /\ Mine(t) \subseteq rows
  BY DEF RolesInv, TxRecords
<1>2. tx[t].pc = "ready" /\ tx[t].op \in Conferring /\ ~Refused(t)
  BY DEF Confers, Ready
<1>3. Conferred(t) \subseteq Ceiling(t) \cup OwnGrants(t)
  BY <1>1, <1>2 DEF Refused, TxSound, Ceilings
<1>4. CASE tx[t].op = "grant"
  <2>1. \A y \in Mine(t): y.kind = "grant" => y.user = tx[t].actor
    BY <1>1, <1>4 DEF TxSound, NamedHeld
  <2>2. OwnGrants(t) \subseteq EffectivePermissions(tx[t].actor)
    <3> SUFFICES ASSUME NEW y \in Mine(t), y.kind = "grant", NEW p \in grantPerms[y.user]
                 PROVE  p \in EffectivePermissions(tx[t].actor)
      BY DEF OwnGrants
    <3>1. y \in rows /\ y.user = tx[t].actor
      BY <1>1, <2>1
    <3> QED BY <3>1 DEF EffectivePermissions
  <2>3. CommunityPermissions(tx[t].actor) \subseteq EffectivePermissions(tx[t].actor)
    BY DEF CommunityPermissions, EffectivePermissions
  <2> QED BY <1>3, <1>4, <2>2, <2>3, CeilingHeld
<1>5. CASE tx[t].op # "grant"
  <2>1. OwnGrants(t) = {}
    BY <1>5 DEF OwnGrants
  <2>2. tx[t].op = "assign" => RoleRow(tx[t].role) \in Mine(t)
    BY <1>2 DEF Refused
  <2> QED BY <1>1, <1>3, <1>5, <2>1, <2>2, CeilingHeld DEF TxSound, Reads
<1> QED BY <1>4, <1>5

\* For any users, roles, permissions and number of transactions, and in every order of
\* their locks: what a conferral gives away the actor holds when it commits (NoEscalation,
\* permission_ceiling.py).
THEOREM AuthorityNeverEscalates == ASSUME RolesNumbered PROVE Spec => [][NoEscalation]_vars
<1>1. RolesInv => NoEscalation
  BY ConferralsCovered DEF NoEscalation
<1>2. Init => RolesInv
  BY RolesInvInit
<1>3. RolesInv /\ [Next]_vars => RolesInv'
  BY RolesInvNext
<1> QED BY <1>1, <1>2, <1>3, PTL DEF Spec

-----------------------------------------------------------------------------
(* The inductive invariant of OwnerGuarded: what a deletion has locked, and    *)
(* that it spares an owner.                                                   *)

Singular(S) == \E m \in S: m.kind = "mem" /\ S = {m}

\* A user is a member once at a time.
OneMembership ==
  \A x, y \in rows: x.kind = "mem" /\ y.kind = "mem" /\ x.user = y.user => x = y

\* Everything a deletion locks it locks exclusively.
Exclusive(t) ==
  tx[t].op \notin Conferring => tx[t].shared = {} /\ tx[t].want \subseteq tx[t].wantx

\* What these delete is no owner's.
Harmless(t) ==
  \/ /\ tx[t].op \in {"delete", "revoke", "unserve", "none"}
     /\ tx[t].pc \in {"members", "owners", "delete", "ready"}
  \/ tx[t].op = "unassign" /\ tx[t].role # Owner /\ tx[t].pc \in {"delete", "ready"}
  => \A x \in tx[t].target:
        x.kind \in {"grant", "server"} \/ (x.kind \in {"asg", "role"} /\ x.role # Owner)

\* The member to remove is locked when the guard asks for the owners, with all it owns.
Removing(t) ==
  tx[t].op = "remove" =>
    /\ tx[t].pc \in {"members", "owners"} => Singular(tx[t].target)
    /\ tx[t].pc = "owners" =>
         /\ tx[t].target \subseteq tx[t].excl
         /\ \A y \in OwnerAssignments:
              Mem(y.user, y.id) \in tx[t].target => y \in tx[t].excl \cup tx[t].want
    /\ tx[t].pc \in {"delete", "ready"} =>
         /\ \A m \in tx[t].target: m.kind = "mem"
         /\ \/ \E x \in tx[t].excl: x.kind = "asg" /\ x.role = Owner
                                     /\ Mem(x.user, x.id) \notin tx[t].target
            \/ /\ tx[t].target \subseteq tx[t].excl
               /\ \A y \in OwnerAssignments: Mem(y.user, y.id) \notin tx[t].target

\* The guard of an unassignment holds, or will, every owner there is, unless overtaken.
Stripping(t) ==
  tx[t].op = "unassign" /\ tx[t].role = Owner =>
    /\ tx[t].pc \in {"members", "owners"} => Singular(tx[t].target)
    /\ tx[t].pc = "owners" /\ t \notin overtaken =>
         OwnerAssignments \subseteq tx[t].excl \cup tx[t].want
    /\ tx[t].pc \in {"delete", "ready"} /\ t \notin overtaken =>
         /\ \A x \in tx[t].target: x.kind = "asg"
         /\ \/ \E x \in tx[t].excl \ tx[t].target: x.kind = "asg" /\ x.role = Owner
            \/ tx[t].target = {}

Guarding(t) == Exclusive(t) /\ Harmless(t) /\ Removing(t) /\ Stripping(t)
OwnerInv == RolesInv /\ OneMembership /\ \A t \in Txs: Guarding(t)

-----------------------------------------------------------------------------
(* Its proof                                                                  *)

\* What another transaction does leaves a deletion guarding, if it makes nobody Owner
\* whose membership the deletion has locked, or overtakes it.
LEMMA OthersGuarding ==
  ASSUME NEW o \in Txs, Guarding(o), tx'[o] = tx[o], overtaken \subseteq overtaken',
         \A y \in OwnerAssignments' \ OwnerAssignments: Mem(y.user, y.id) \notin tx[o].excl,
         o \in Unassigning \ overtaken' => OwnerAssignments' \subseteq OwnerAssignments
  PROVE  Guarding(o)'
<1>1. Exclusive(o)'
  BY DEF Guarding, Exclusive
<1>2. Harmless(o)'
  BY DEF Guarding, Harmless
<1>3. Removing(o)'
  BY DEF Guarding, Removing
<1>4. Stripping(o)'
  BY DEF Guarding, Stripping, Unassigning
<1> QED BY <1>1, <1>2, <1>3, <1>4 DEF Guarding

\* A step of one transaction that leaves the database alone.
LEMMA LocalGuarding ==
  ASSUME OwnerInv, NEW t \in Txs, UNCHANGED db, RolesInv', Guarding(t)',
         \A o \in Txs \ {t}: tx'[o] = tx[o]
  PROVE  OwnerInv'
<1>1. rows' = rows /\ overtaken' = overtaken /\ OwnerAssignments' = OwnerAssignments
  BY DEF db, OwnerAssignments
<1>2. OneMembership'
  BY <1>1 DEF OwnerInv, OneMembership
<1>3. \A o \in Txs \ {t}: Guarding(o)'
  BY <1>1, OthersGuarding DEF OwnerInv
<1> QED BY <1>2, <1>3 DEF OwnerInv

\* A conferral guards nothing, nor does a transaction before or after its statements.
LEMMA NothingGuarded ==
  ASSUME NEW t \in Txs,
         tx'[t].op \in Conferring
         \/ (/\ tx'[t].pc \in {"start", "done"} /\ tx'[t].shared = {} /\ tx'[t].want = {})
  PROVE  Guarding(t)'
BY DEF Guarding, Exclusive, Harmless, Removing, Stripping, Conferring

LEMMA OthersStand ==
  ASSUME RolesInv, NEW t \in Txs, NEW r, tx' = [tx EXCEPT ![t] = r]
  PROVE  tx'[t] = r /\ \A o \in Txs \ {t}: tx'[o] = tx[o]
BY DEF RolesInv

LEMMA RefuseGuards ==
  ASSUME RolesNumbered, OwnerInv, NEW t \in Txs, Refuse(t)
  PROVE  OwnerInv'
<1>1. RolesInv /\ RolesInv'
  BY RefuseSafe DEF OwnerInv
<1>2. tx' = [tx EXCEPT ![t] = Done] /\ UNCHANGED db
  BY DEF Refuse, Ends
<1>3. tx'[t] = Done /\ \A o \in Txs \ {t}: tx'[o] = tx[o]
  BY <1>1, <1>2, OthersStand
<1>4. Done.pc = "done" /\ Done.shared = {} /\ Done.want = {}
  BY DEF Done, Idle
<1>5. Guarding(t)'
  BY <1>3, <1>4, NothingGuarded
<1> QED BY <1>1, <1>2, <1>3, <1>5, LocalGuarding

LEMMA Requested ==
  ASSUME NEW t, Submit(t)
  PROVE  \E op, a, u, r, p: Request(t, op, a, u, r, p)
BY DEF Submit, assign_role, unassign_role, remove_member, revoke_grant, create_role,
       update_role, delete_role, create_grant, delete_server, delete_account

LEMMA SubmitGuards ==
  ASSUME RolesNumbered, OwnerInv, NEW t \in Txs, Submit(t)
  PROVE  OwnerInv'
<1>1. RolesInv /\ RolesInv'
  BY SubmitSafe DEF OwnerInv
<1>3. PICK op, a, u, r, p: Request(t, op, a, u, r, p)
  BY Requested
<1> DEFINE x == [Idle EXCEPT !.op = op, !.actor = a, !.user = u, !.role = r, !.perms = p,
                             !.pc = "start"]
<1>4. tx' = [tx EXCEPT ![t] = x] /\ UNCHANGED db
  BY <1>3 DEF Request
<1>5. x.pc = "start" /\ x.shared = {} /\ x.want = {}
  BY DEF Idle
<1> HIDE DEF x
<1>6. Guarding(t)'
  BY <1>1, <1>4, <1>5, OthersStand, NothingGuarded
<1> QED BY <1>1, <1>4, <1>6, OthersStand, LocalGuarding

\* The steps of a conferral up to its write.
LEMMA ConferralGuards ==
  ASSUME OwnerInv, NEW t \in Txs, RolesInv',
         \/ HoldMembers(t) \/ LockResource(t) \/ HoldActor(t) \/ LockRoles(t)
         \/ LockAssignments(t) \/ NothingConferred(t) \/ ReadCeiling(t) \/ AddOwnGrant(t)
  PROVE  OwnerInv'
<1>1. TxSound(t) /\ RolesInv /\ tx[t] \in TxRecords
  BY DEF OwnerInv, RolesInv
<1>2. tx[t].op \in Conferring
  BY <1>1 DEF HoldMembers, LockResource, HoldActor, LockRoles, LockAssignments,
       NothingConferred, ReadCeiling, AddOwnGrant, Ready, TxSound, Statements, Past, Conferring
<1>3. CASE \E S, X, pc: Locking(t, S, X, pc)
  <2>1. PICK S, X, pc: Locking(t, S, X, pc)
    BY <1>3
  <2> DEFINE r == [tx[t] EXCEPT !.want = (S \ Mine(t)) \cup (X \ tx[t].excl), !.wantx = X,
                                !.pc = pc]
  <2>2. tx' = [tx EXCEPT ![t] = r] /\ UNCHANGED db
    BY <2>1 DEF Locking
  <2>3. r.op = tx[t].op
    BY <1>1 DEF TxRecords
  <2> HIDE DEF r
  <2> QED BY <1>1, <1>2, <2>2, <2>3, OthersStand, NothingGuarded, LocalGuarding
<1>4. CASE ReadCeiling(t)
  <2> DEFINE r == [tx[t] EXCEPT !.ceiling = Ceiling(t), !.want = OwnGrant(t), !.wantx = {},
                                !.pc = IF tx[t].op = "grant" THEN "grants" ELSE "ready"]
  <2>1. tx' = [tx EXCEPT ![t] = r] /\ UNCHANGED db
    BY <1>4 DEF ReadCeiling
  <2>2. r.op = tx[t].op
    BY <1>1 DEF TxRecords
  <2> HIDE DEF r
  <2> QED BY <1>1, <1>2, <2>1, <2>2, OthersStand, NothingGuarded, LocalGuarding
<1>5. CASE AddOwnGrant(t)
  <2> DEFINE own == UNION {grantPerms[x.user]: x \in {y \in Mine(t): y.kind = "grant"}}
             r == [tx[t] EXCEPT !.pc = "ready", !.ceiling = tx[t].ceiling \cup own]
  <2>1. tx' = [tx EXCEPT ![t] = r] /\ UNCHANGED db
    BY <1>5 DEF AddOwnGrant
  <2>2. r.op = tx[t].op
    BY <1>1 DEF TxRecords
  <2> HIDE DEF r
  <2> QED BY <1>1, <1>2, <2>1, <2>2, OthersStand, NothingGuarded, LocalGuarding
<1>6. (\E S, X, pc: Locking(t, S, X, pc)) \/ ReadCeiling(t) \/ AddOwnGrant(t)
  BY DEF HoldMembers, LockResource, HoldActor, LockRoles, LockAssignments, NothingConferred
<1> QED BY <1>3, <1>4, <1>5, <1>6

LEMMA AcquireGuards ==
  ASSUME OwnerInv, NEW t \in Txs, NEW row \in tx[t].want, Acquire(t, row), RolesInv'
  PROVE  OwnerInv'
<1>1. RolesInv /\ tx[t] \in TxRecords /\ Guarding(t) /\ UNCHANGED db
  BY DEF OwnerInv, RolesInv, Acquire
<1> DEFINE share == IF row \in rows \ tx[t].wantx THEN tx[t].shared \cup {row} ELSE tx[t].shared
           hold == IF row \in rows \cap tx[t].wantx THEN tx[t].excl \cup {row} ELSE tx[t].excl
           reading == IF row \in rows /\ row.kind = "role"
                        THEN [tx[t].read EXCEPT ![row.role] = rolePerms[row.role]] ELSE tx[t].read
           x == [tx[t] EXCEPT !.want = tx[t].want \ {row}, !.shared = share, !.excl = hold,
                              !.read = reading]
<1>2. tx' = [tx EXCEPT ![t] = x]
  BY DEF Acquire
<1>3. x.op = tx[t].op /\ x.pc = tx[t].pc /\ x.role = tx[t].role /\ x.target = tx[t].target
      /\ x.wantx = tx[t].wantx /\ x.want = tx[t].want \ {row} /\ x.shared = share
      /\ x.excl = hold
  BY <1>1 DEF TxRecords
<1>4. tx[t].excl \subseteq hold
  OBVIOUS
<1> HIDE DEF x
<1>5. tx'[t] = x /\ \A o \in Txs \ {t}: tx'[o] = tx[o]
  BY <1>1, <1>2, OthersStand
<1>6. CASE tx[t].op \in Conferring
  <2>1. Guarding(t)'
    BY <1>3, <1>5, <1>6, NothingGuarded
  <2> QED BY <1>1, <1>5, <2>1, LocalGuarding
<1>7. CASE tx[t].op \notin Conferring
  <2>1. tx[t].shared = {} /\ tx[t].want \subseteq tx[t].wantx
    BY <1>1, <1>7 DEF Guarding, Exclusive
  <2>2. share = {} /\ (row \in rows => hold = tx[t].excl \cup {row})
    BY <2>1
  <2> HIDE DEF share, hold, reading
  <2>3. OwnerAssignments' = OwnerAssignments /\ overtaken' = overtaken
        /\ OwnerAssignments \subseteq rows
    BY <1>1 DEF OwnerAssignments, db
  <2>4. \A y \in OwnerAssignments: y \in tx[t].excl \cup tx[t].want => y \in x.excl \cup x.want
    BY <1>3, <1>4, <2>2, <2>3
  <2>5. Exclusive(t)'
    BY <1>3, <1>5, <2>1, <2>2 DEF Exclusive
  <2>6. Harmless(t)'
    BY <1>1, <1>3, <1>5 DEF Guarding, Harmless
  <2>7. Removing(t)'
    BY <1>1, <1>3, <1>4, <1>5, <2>3, <2>4 DEF Guarding, Removing
  <2>8. Stripping(t)'
    BY <1>1, <1>3, <1>4, <1>5, <2>3, <2>4 DEF Guarding, Stripping
  <2>9. Guarding(t)'
    BY <2>5, <2>6, <2>7, <2>8 DEF Guarding
  <2> QED BY <1>1, <1>5, <2>9, LocalGuarding
<1> QED BY <1>6, <1>7

\* What Find and Delete make of a transaction.
LEMMA FindFacts ==
  ASSUME RolesInv, NEW t \in Txs, Find(t)
  PROVE  /\ UNCHANGED db /\ tx[t].pc = "start"
         /\ \A o \in Txs \ {t}: tx'[o] = tx[o]
         /\ tx'[t].op = tx[t].op /\ tx'[t].role = tx[t].role /\ tx'[t].shared = tx[t].shared
         /\ tx'[t].excl = tx[t].excl /\ tx'[t].target = Named(t)
         /\ tx'[t].want = tx'[t].wantx
         /\ tx'[t].pc = (IF Guarded(t) THEN "members" ELSE "owners")
<1>1. tx[t] \in TxRecords
  BY DEF RolesInv
<1> DEFINE named == Named(t)
           W == IF tx[t].op = "remove" THEN named ELSE {}
           at == IF Guarded(t) THEN "members" ELSE "owners"
           r == [tx[t] EXCEPT !.target = named, !.pc = at, !.want = W, !.wantx = W]
<1>2. tx' = [tx EXCEPT ![t] = r] /\ UNCHANGED db /\ tx[t].pc = "start"
  BY DEF Find, Ready
<1> HIDE DEF named, W, at
<1>3. r.op = tx[t].op /\ r.role = tx[t].role /\ r.shared = tx[t].shared /\ r.excl = tx[t].excl
      /\ r.target = named /\ r.want = W /\ r.wantx = W /\ r.pc = at
  BY <1>1 DEF TxRecords
<1> HIDE DEF r
<1>4. tx'[t] = r /\ \A o \in Txs \ {t}: tx'[o] = tx[o]
  BY <1>2, OthersStand
<1> QED BY <1>2, <1>3, <1>4 DEF named, at

LEMMA DeleteFacts ==
  ASSUME RolesInv, NEW t \in Txs, Delete(t)
  PROVE  /\ UNCHANGED db /\ tx[t].pc = "owners" /\ tx[t].want = {} /\ ~LastOwner(t)
         /\ \A o \in Txs \ {t}: tx'[o] = tx[o]
         /\ tx'[t].op = tx[t].op /\ tx'[t].role = tx[t].role /\ tx'[t].shared = tx[t].shared
         /\ tx'[t].excl = tx[t].excl /\ tx'[t].target = Doomed(t)
         /\ tx'[t].want = Doomed(t) \ tx[t].excl /\ tx'[t].wantx = Doomed(t)
         /\ tx'[t].pc = "delete"
<1>1. tx[t] \in TxRecords
  BY DEF RolesInv
<1> DEFINE doomed == Doomed(t)
           r == [tx[t] EXCEPT !.target = doomed, !.want = doomed \ tx[t].excl,
                              !.wantx = doomed, !.pc = "delete"]
<1>2. tx' = [tx EXCEPT ![t] = r] /\ UNCHANGED db /\ tx[t].pc = "owners" /\ tx[t].want = {}
      /\ ~LastOwner(t)
  BY DEF Delete, Ready
<1> HIDE DEF doomed
<1>3. r.op = tx[t].op /\ r.role = tx[t].role /\ r.shared = tx[t].shared /\ r.excl = tx[t].excl
      /\ r.target = doomed /\ r.want = doomed \ tx[t].excl /\ r.wantx = doomed
      /\ r.pc = "delete"
  BY <1>1 DEF TxRecords
<1> HIDE DEF r
<1>4. tx'[t] = r /\ \A o \in Txs \ {t}: tx'[o] = tx[o]
  BY <1>2, OthersStand
<1> QED BY <1>2, <1>3, <1>4 DEF doomed

LEMMA FindGuards ==
  ASSUME OwnerInv, NEW t \in Txs, Find(t), RolesInv'
  PROVE  OwnerInv'
<1>1. RolesInv /\ tx[t].op \notin Conferring /\ Named(t) # {} /\ Guarding(t)
      /\ ~(tx[t].op = "delete" /\ tx[t].role = Owner)
  BY DEF OwnerInv, Find
<1>2. Exclusive(t)'
  BY <1>1, FindFacts DEF Guarding, Exclusive
<1>3. Harmless(t)'
  <2>1. tx[t].op = "delete" => \A x \in Named(t): x.kind = "role" /\ x.role # Owner
    BY <1>1 DEF Named, RoleRow
  <2>2. tx[t].op = "revoke" => \A x \in Named(t): x.kind = "grant"
    BY DEF Named
  <2>3. tx[t].op \in {"unserve", "none"} => \A x \in Named(t): x.kind = "server"
    BY DEF Named, ServerRow
  <2> QED BY <1>1, <2>1, <2>2, <2>3, FindFacts DEF Harmless
<1>4. tx[t].op \in {"remove", "unassign"} => Singular(Named(t))
  <2> HAVE tx[t].op \in {"remove", "unassign"}
  <2>1. \A x \in Named(t): x \in rows /\ x.kind = "mem" /\ x.user = tx[t].user
    BY DEF Named, Members
  <2>2. PICK m \in Named(t): TRUE
    BY <1>1
  <2>3. \A x \in Named(t): x = m
    BY <2>1, <2>2 DEF OwnerInv, OneMembership
  <2> QED BY <2>1, <2>2, <2>3 DEF Singular
<1>5. Removing(t)'
  BY <1>1, <1>4, FindFacts DEF Removing, Guarded
<1>6. Stripping(t)'
  BY <1>1, <1>4, FindFacts DEF Stripping, Guarded
<1>7. Guarding(t)'
  BY <1>2, <1>3, <1>5, <1>6 DEF Guarding
<1> QED BY <1>1, <1>7, FindFacts, LocalGuarding

\* The guard lets a deletion pass that spares a holder it has locked, if it deletes one.
LEMMA GuardSpares ==
  ASSUME RolesInv, NEW t \in Txs, NEW m, tx[t].target = {m}, Guarded(t), ~LastOwner(t),
         tx[t].shared = {}, m \in Holders(t)
  PROVE  \E x \in tx[t].excl: x \in OwnerAssignments /\ Mem(x.user, x.id) # m
<1>1. Holders(t) # {m}
  <2> SUFFICES ASSUME Holders(t) = {m} PROVE FALSE
    OBVIOUS
  <2>1. Cardinality({m}) = 1
    BY FS_Singleton
  <2> QED BY <2>1 DEF LastOwner
<1>2. PICK h \in Holders(t): h # m
  BY <1>1
<1>3. PICK x \in Mine(t) \cap OwnerAssignments: h = Mem(x.user, x.id)
  BY <1>2 DEF Holders
<1> QED BY <1>2, <1>3 DEF Mine

LEMMA DeleteGuards ==
  ASSUME OwnerInv, NEW t \in Txs, Delete(t), RolesInv'
  PROVE  OwnerInv'
<1>1. RolesInv /\ TxSound(t) /\ Guarding(t) /\ Mine(t) \subseteq rows
  BY DEF OwnerInv, RolesInv
<1>2. tx[t].op \notin Conferring /\ tx[t].pc = "owners"
  BY <1>1, DeleteFacts DEF TxSound, Statements
<1>3. tx[t].shared = {} /\ Mine(t) = tx[t].excl
  BY <1>1, <1>2 DEF Guarding, Exclusive, Mine
<1>4. Exclusive(t)'
  BY <1>1, <1>3, DeleteFacts DEF Exclusive
<1>5. Harmless(t)'
  <2>1. CASE tx[t].op = "unassign"
    <3>1. \A x \in Doomed(t): x.kind = "asg" /\ x.role = tx[t].role
      BY <2>1 DEF Doomed
    <3> QED BY <1>1, <2>1, <3>1, DeleteFacts DEF Harmless
  <2>2. CASE tx[t].op \in {"delete", "revoke", "unserve", "none"}
    <3>1. Doomed(t) \subseteq tx[t].target
      BY <2>2 DEF Doomed
    <3> QED BY <1>1, <1>2, <2>2, <3>1, DeleteFacts DEF Harmless, Guarding
  <2> QED BY <1>1, <2>1, <2>2, DeleteFacts DEF Harmless
<1>6. OwnerAssignments' = OwnerAssignments /\ overtaken' = overtaken
  BY <1>1, DeleteFacts DEF OwnerAssignments, db
<1>7. \A x \in OwnerAssignments: x \in rows /\ x.kind = "asg" /\ x.role = Owner
  BY DEF OwnerAssignments
<1>8. Removing(t)'
  <2> SUFFICES ASSUME tx[t].op = "remove" PROVE Removing(t)'
    BY <1>1, DeleteFacts DEF Removing
  <2>1. PICK m \in tx[t].target: m.kind = "mem" /\ tx[t].target = {m}
    BY <1>1, <1>2 DEF Guarding, Removing, Singular
  <2>2. m \in tx[t].excl /\ Doomed(t) = {m}
    BY <1>1, <1>2, <1>3, <2>1 DEF Guarding, Removing, Doomed
  <2>3. (\E x \in tx[t].excl: x.kind = "asg" /\ x.role = Owner /\ Mem(x.user, x.id) \notin Doomed(t))
        \/ (\A y \in OwnerAssignments: Mem(y.user, y.id) \notin Doomed(t))
    <3>1. CASE m \in Holders(t)
      BY <1>1, <1>3, <1>7, <2>1, <2>2, <3>1, DeleteFacts, GuardSpares DEF Guarded
    <3>2. CASE m \notin Holders(t)
      <4>1. \A y \in OwnerAssignments: Mem(y.user, y.id) \in tx[t].target => y \in tx[t].excl
        BY <1>1, <1>2, DeleteFacts DEF Guarding, Removing
      <4>2. \A y \in OwnerAssignments \cap tx[t].excl: Mem(y.user, y.id) \in Holders(t)
        BY <1>3 DEF Holders
      <4> QED BY <2>1, <2>2, <3>2, <4>1, <4>2
    <3> QED BY <3>1, <3>2
  <2> QED BY <1>1, <1>6, <2>1, <2>2, <2>3, DeleteFacts DEF Removing
<1>9. Stripping(t)'
  <2> SUFFICES ASSUME tx[t].op = "unassign", tx[t].role = Owner, t \notin overtaken
               PROVE  Stripping(t)'
    BY <1>1, <1>6, DeleteFacts DEF Stripping
  <2>1. PICK m \in tx[t].target: tx[t].target = {m}
    BY <1>1, <1>2 DEF Guarding, Stripping, Singular
  <2>2. OwnerAssignments \subseteq tx[t].excl
    BY <1>1, <1>2, DeleteFacts DEF Guarding, Stripping
  <2>3. \A y \in Doomed(t): y \in OwnerAssignments /\ Mem(y.user, y.id) = m
    BY <2>1 DEF Doomed, OwnerAssignments
  <2>4. Doomed(t) = {} \/ \E x \in tx[t].excl \ Doomed(t): x.kind = "asg" /\ x.role = Owner
    <3> SUFFICES ASSUME NEW y \in Doomed(t)
                 PROVE  \E x \in tx[t].excl \ Doomed(t): x.kind = "asg" /\ x.role = Owner
      OBVIOUS
    <3>1. m \in Holders(t)
      BY <1>3, <2>2, <2>3 DEF Holders
    <3>2. PICK x \in tx[t].excl: x \in OwnerAssignments /\ Mem(x.user, x.id) # m
      BY <1>1, <1>3, <2>1, <3>1, DeleteFacts, GuardSpares DEF Guarded
    <3> QED BY <1>7, <2>3, <3>2
  <2> QED BY <1>1, <1>7, <2>3, <2>4, DeleteFacts DEF Stripping
<1>10. Guarding(t)'
  BY <1>4, <1>5, <1>8, <1>9 DEF Guarding
<1> QED BY <1>1, <1>10, DeleteFacts, LocalGuarding

LEMMA DeletionLockingGuards ==
  ASSUME OwnerInv, NEW t \in Txs, LockOwners(t) \/ Cascade(t), RolesInv'
  PROVE  OwnerInv'
<1>1. RolesInv /\ TxSound(t) /\ Guarding(t) /\ rows \subseteq RowSpace
  BY DEF OwnerInv, RolesInv, DbTyped
<1>2. tx[t].op \notin Conferring
  BY <1>1 DEF LockOwners, Cascade, Ready, TxSound, Statements
<1>3. tx[t].shared = {} /\ Mine(t) = tx[t].excl
  BY <1>1, <1>2 DEF Guarding, Exclusive, Mine
<1>4. PICK X, pc: Locking(t, {}, X, pc) /\ X \subseteq RowSpace /\ pc \in Steps
                  /\ \/ LockOwners(t) /\ X = OwnerAssignments /\ pc = "owners"
                     \/ Cascade(t) /\ pc = "ready"
  <2>1. CASE LockOwners(t)
    <3>1. OwnerAssignments \subseteq RowSpace /\ "owners" \in Steps
      BY <1>1 DEF OwnerAssignments, Steps
    <3>2. Locking(t, {}, OwnerAssignments, "owners")
      BY <2>1 DEF LockOwners
    <3> QED BY <2>1, <3>1, <3>2
  <2>2. CASE Cascade(t)
    <3>1. Cascaded(t) \subseteq RowSpace /\ "ready" \in Steps
      BY <1>1 DEF Cascaded, Dependents, Steps
    <3>2. Locking(t, {}, Cascaded(t), "ready")
      BY <2>2 DEF Cascade
    <3> QED BY <2>2, <3>1, <3>2
  <2> QED BY <2>1, <2>2
<1>5. UNCHANGED db /\ \A o \in Txs \ {t}: tx'[o] = tx[o]
  BY <1>1, <1>4, OthersStand DEF Locking
<1>6. OwnerAssignments' = OwnerAssignments /\ overtaken' = overtaken
  BY <1>5 DEF OwnerAssignments, db
<1>7. tx'[t].op = tx[t].op /\ tx'[t].role = tx[t].role /\ tx'[t].shared = {}
      /\ tx'[t].excl = tx[t].excl /\ tx'[t].target = tx[t].target
      /\ tx'[t].want = X \ tx[t].excl /\ tx'[t].wantx = X /\ tx'[t].pc = pc
  BY <1>1, <1>3, <1>4, LockingFacts
<1>8. tx[t].pc = (IF pc = "owners" THEN "members" ELSE "delete")
  BY <1>4 DEF LockOwners, Cascade, Ready
<1>9. Exclusive(t)'
  BY <1>7 DEF Exclusive
<1>10. Harmless(t)'
  BY <1>1, <1>4, <1>7, <1>8 DEF Guarding, Harmless
<1>11. Removing(t)'
  <2>1. CASE pc = "owners"
    <3>1. tx[t].op = "remove" => tx[t].target \subseteq tx[t].excl
      BY <1>3, <1>4, <2>1 DEF LockOwners
    <3> QED BY <1>1, <1>4, <1>6, <1>7, <1>8, <2>1, <3>1 DEF Guarding, Removing
  <2>2. CASE pc = "ready"
    BY <1>1, <1>6, <1>7, <1>8, <2>2 DEF Guarding, Removing
  <2> QED BY <1>4, <2>1, <2>2
<1>12. Stripping(t)'
  BY <1>1, <1>4, <1>6, <1>7, <1>8 DEF Guarding, Stripping
<1>13. Guarding(t)'
  BY <1>9, <1>10, <1>11, <1>12 DEF Guarding
<1> QED BY <1>5, <1>13, LocalGuarding

\* A transaction that ends guards nothing any more.
LEMMA EndGuards ==
  ASSUME RolesInv, NEW t \in Txs, Ends(t)
  PROVE  Guarding(t)' /\ tx'[t] = Done /\ \A o \in Txs \ {t}: tx'[o] = tx[o]
<1>1. tx'[t] = Done /\ \A o \in Txs \ {t}: tx'[o] = tx[o]
  BY OthersStand DEF Ends
<1>2. Done.pc = "done" /\ Done.shared = {} /\ Done.want = {}
  BY DEF Done, Idle
<1> QED BY <1>1, <1>2, NothingGuarded

LEMMA ConferGuards ==
  ASSUME OwnerInv, NEW t \in Txs, Confer(t), RolesInv'
  PROVE  OwnerInv'
<1>1. RolesInv /\ DbTyped /\ Mine(t) \subseteq rows
  BY DEF OwnerInv, RolesInv
<1>2. Guarding(t)' /\ \A o \in Txs \ {t}: tx'[o] = tx[o]
  BY <1>1, EndGuards DEF Confer
<1>3. \A o \in Txs \ {t}: tx[o].excl \cap Mine(t) = {} /\ Guarding(o)
  BY DEF OwnerInv, RolesInv, Apart
<1>4. CASE tx[t].op = "assign" /\ AssignRole(t)
  <2> DEFINE new == {Asg(x.user, x.id, tx[t].role): x \in Target(t)}
  <2>1. rows' = rows \cup new
        /\ overtaken' = overtaken \cup {o \in Unassigning: tx[t].role = Owner /\ rows' # rows}
    BY <1>4 DEF AssignRole
  <2>2. \A x \in Target(t): x \in Mine(t) /\ x = Mem(x.user, x.id)
    BY <1>1 DEF Target, DbTyped, Canonical
  <2>3. \A y \in new: y.kind = "asg" /\ y.role = tx[t].role /\ Mem(y.user, y.id) \in Mine(t)
    BY <2>2 DEF Asg
  <2> HIDE DEF new
  <2>4. OneMembership'
    BY <2>1, <2>3 DEF OwnerInv, OneMembership
  <2>5. \A y \in OwnerAssignments' \ OwnerAssignments: Mem(y.user, y.id) \in Mine(t)
    BY <2>1, <2>3 DEF OwnerAssignments
  <2>6. rows' = rows \/ tx[t].role # Owner => OwnerAssignments' \subseteq OwnerAssignments
    BY <2>1, <2>3 DEF OwnerAssignments
  <2>7. \A o \in Txs \ {t}: o \in Unassigning \ overtaken' => OwnerAssignments' \subseteq OwnerAssignments
    BY <2>1, <2>6
  <2>8. \A o \in Txs \ {t}: Guarding(o)'
    BY <1>2, <1>3, <2>1, <2>5, <2>7, OthersGuarding
  <2> QED BY <1>2, <2>4, <2>8 DEF OwnerInv
<1>5. CASE tx[t].op # "assign"
  <2>1. overtaken' = overtaken /\ rows \subseteq rows'
        /\ \A y \in rows' \ rows: y.kind \in {"role", "grant"}
    <3>1. CASE CreateRole(t)
      BY <3>1 DEF CreateRole, RoleRow
    <3>2. CASE UpdateRole(t)
      BY <3>2 DEF UpdateRole
    <3>3. CASE CreateGrant(t)
      BY <3>3 DEF CreateGrant, Grant
    <3> QED BY <1>5, <3>1, <3>2, <3>3 DEF Confer
  <2>2. OneMembership'
    BY <2>1 DEF OwnerInv, OneMembership
  <2>3. OwnerAssignments' \subseteq OwnerAssignments
    BY <2>1 DEF OwnerAssignments
  <2>4. \A o \in Txs \ {t}: Guarding(o)'
    BY <1>2, <1>3, <2>1, <2>3, OthersGuarding
  <2> QED BY <1>2, <2>2, <2>4 DEF OwnerInv
<1> QED BY <1>4, <1>5 DEF Confer

LEMMA CommitDeleteGuards ==
  ASSUME OwnerInv, NEW t \in Txs, CommitDelete(t), RolesInv'
  PROVE  OwnerInv'
<1>1. Guarding(t)' /\ \A o \in Txs \ {t}: tx'[o] = tx[o]
  BY EndGuards DEF CommitDelete, OwnerInv
<1>2. rows' \subseteq rows /\ overtaken' = overtaken
  BY DEF CommitDelete
<1>3. OneMembership'
  BY <1>2 DEF OwnerInv, OneMembership
<1>4. OwnerAssignments' \subseteq OwnerAssignments
  BY <1>2 DEF OwnerAssignments
<1>5. \A o \in Txs \ {t}: Guarding(o)'
  BY <1>1, <1>2, <1>4, OthersGuarding DEF OwnerInv
<1> QED BY <1>1, <1>3, <1>5 DEF OwnerInv

LEMMA AddMemberGuards ==
  ASSUME OwnerInv, NEW a \in Users, NEW u \in Users, AddMember(a, u), RolesInv'
  PROVE  OwnerInv'
<1> DEFINE m == Mem(u, joins[u] + 1)
<1>1. rows' = rows \cup {m} /\ overtaken' = overtaken /\ tx' = tx /\ Members({u}) = {}
  BY DEF AddMember
<1>2. m.kind = "mem" /\ m.user = u
  BY DEF Mem
<1> HIDE DEF m
<1>3. \A x \in rows: x.kind = "mem" => x.user # u
  BY <1>1 DEF Members
<1>4. OneMembership'
  BY <1>1, <1>2, <1>3 DEF OwnerInv, OneMembership
<1>5. OwnerAssignments' = OwnerAssignments
  BY <1>1, <1>2 DEF OwnerAssignments
<1>6. \A o \in Txs: Guarding(o)'
  BY <1>1, <1>5, OthersGuarding DEF OwnerInv
<1> QED BY <1>4, <1>6 DEF OwnerInv

LEMMA OwnerInvInit == ASSUME RolesNumbered, Init PROVE OwnerInv
<1>1. \A x \in rows: x.kind = "mem" => x = Mem(x.user, 1)
  <2>1. PICK made \in SUBSET CustomRoles, joined \in SUBSET (Users \ {1}):
        \E owners \in SUBSET joined, granted \in SUBSET joined:
          Provisioned(made, joined, owners, granted)
    BY DEF Init
  <2>2. PICK owners \in SUBSET joined, granted \in SUBSET joined:
          Provisioned(made, joined, owners, granted)
    BY <2>1
  <2> QED BY <2>2 DEF Provisioned, Mem, RoleRow, ServerRow, Asg, Grant
<1>2. OneMembership
  BY <1>1 DEF OneMembership
<1>3. \A t \in Txs: tx[t] = Idle
  BY DEF Init
<1>4. \A t \in Txs: Guarding(t)
  BY <1>3 DEF Guarding, Exclusive, Harmless, Removing, Stripping, Idle
<1> QED BY <1>2, <1>4, RolesInvInit DEF OwnerInv

LEMMA OwnerInvNext == ASSUME RolesNumbered, OwnerInv, [Next]_vars PROVE OwnerInv'
<1>1. RolesInv'
  BY RolesInvNext DEF OwnerInv
<1>2. CASE UNCHANGED vars
  <2>1. tx' = tx /\ overtaken' = overtaken /\ rows' = rows
    BY <1>2 DEF vars
  <2>2. OwnerAssignments' = OwnerAssignments
    BY <2>1 DEF OwnerAssignments
  <2>3. \A o \in Txs: Guarding(o)'
    BY <2>1, <2>2, OthersGuarding DEF OwnerInv
  <2> QED BY <1>1, <2>1, <2>3 DEF OwnerInv, OneMembership
<1>3. CASE \E a, u \in Users: AddMember(a, u)
  BY <1>1, <1>3, AddMemberGuards
<1>4. CASE \E t \in Txs: Submit(t)
  BY <1>4, SubmitGuards
<1>5. CASE \E t \in Txs: TxStep(t)
  <2>1. PICK t \in Txs: TxStep(t)
    BY <1>5
  <2>2. CASE \E x \in tx[t].want: Acquire(t, x)
    BY <1>1, <2>2, AcquireGuards
  <2>3. CASE NoMember(t) \/ NoResource(t) \/ Rejected(t) \/ NotFound(t) \/ RemovedMeanwhile(t)
             \/ LastOwnerRemoval(t)
    <3>1. Refuse(t)
      BY <2>3 DEF NoMember, NoResource, Rejected, NotFound, RemovedMeanwhile, LastOwnerRemoval
    <3> QED BY <3>1, RefuseGuards
  <2>4. CASE HoldMembers(t) \/ LockResource(t) \/ HoldActor(t) \/ LockRoles(t)
             \/ LockAssignments(t) \/ NothingConferred(t) \/ ReadCeiling(t) \/ AddOwnGrant(t)
    BY <1>1, <2>4, ConferralGuards
  <2>5. CASE Find(t) \/ Delete(t)
    BY <1>1, <2>5, FindGuards, DeleteGuards
  <2>6. CASE LockOwners(t) \/ Cascade(t)
    BY <1>1, <2>6, DeletionLockingGuards
  <2>7. CASE Confer(t)
    BY <1>1, <2>7, ConferGuards
  <2>8. CASE CommitDelete(t)
    BY <1>1, <2>8, CommitDeleteGuards
  <2> QED BY <2>1, <2>2, <2>3, <2>4, <2>5, <2>6, <2>7, <2>8 DEF TxStep
<1> QED BY <1>2, <1>3, <1>4, <1>5 DEF Next

\* A deletion that is no account's, and was not overtaken, spares an owner.
LEMMA DeletionSpares ==
  ASSUME OwnerInv, NEW t \in Txs, CommitDelete(t), OwnerAssignments # {}, tx[t].op # "leave",
         tx[t].op = "unassign" => t \notin overtaken
  PROVE  OwnerStays
<1>1. TxSound(t) /\ Guarding(t) /\ tx[t].excl \subseteq rows /\ tx[t] \in TxRecords
      /\ \A x \in rows: Canonical(x)
  BY DEF OwnerInv, RolesInv, Mine, DbTyped
<1>2. tx[t].pc = "ready" /\ tx[t].op \notin Conferring
      /\ rows' = rows \ (Deleted(t) \cup Cascaded(t))
  BY DEF CommitDelete, Ready
<1>3. Deleted(t) \subseteq tx[t].target /\ Deleted(t) \subseteq rows
  BY <1>1 DEF Deleted
<1>4. PICK y \in OwnerAssignments: y \in rows /\ y.kind = "asg" /\ y.role = Owner
  BY DEF OwnerAssignments
<1>5. CASE tx[t].op = "remove"
  <2>1. \A m \in tx[t].target: m.kind = "mem"
    BY <1>1, <1>2, <1>5 DEF Guarding, Removing
  <2>2. PICK x \in rows: x.kind = "asg" /\ x.role = Owner /\ Mem(x.user, x.id) \notin tx[t].target
    BY <1>1, <1>2, <1>4, <1>5 DEF Guarding, Removing
  <2>3. x \notin Deleted(t)
    BY <1>3, <2>1, <2>2
  <2>4. x \notin Cascaded(t)
    <3> SUFFICES ASSUME NEW m \in Deleted(t), x \in Dependents(m) PROVE FALSE
      BY DEF Cascaded
    <3>1. m.kind = "mem" /\ m = Mem(m.user, m.id) /\ m \in tx[t].target
      BY <1>1, <1>3, <2>1 DEF Canonical
    <3>2. x.user = m.user /\ x.id = m.id
      BY <3>1 DEF Dependents
    <3> QED BY <2>2, <3>1, <3>2
  <2> QED BY <1>2, <2>2, <2>3, <2>4 DEF OwnerStays
<1>6. CASE tx[t].op = "unassign" /\ tx[t].role = Owner
  <2>1. \A z \in tx[t].target: z.kind = "asg"
    BY <1>1, <1>2, <1>6 DEF Guarding, Stripping
  <2>2. PICK x \in rows \ tx[t].target: x.kind = "asg" /\ x.role = Owner
    BY <1>1, <1>2, <1>4, <1>6 DEF Guarding, Stripping
  <2>3. Cascaded(t) = {}
    BY <1>3, <2>1 DEF Cascaded, Dependents
  <2> QED BY <1>2, <1>3, <2>2, <2>3 DEF OwnerStays
<1>7. CASE \/ tx[t].op \in {"delete", "revoke", "unserve", "none"}
           \/ tx[t].op = "unassign" /\ tx[t].role # Owner
  <2>1. \A x \in tx[t].target:
          x.kind \in {"grant", "server"} \/ (x.kind \in {"asg", "role"} /\ x.role # Owner)
    BY <1>1, <1>2, <1>7 DEF Guarding, Harmless
  <2>2. y \notin Deleted(t)
    BY <1>3, <1>4, <2>1
  <2>3. y \notin Cascaded(t)
    <3> SUFFICES ASSUME NEW z \in Deleted(t), y \in Dependents(z) PROVE FALSE
      BY DEF Cascaded
    <3> QED BY <1>3, <1>4, <2>1 DEF Dependents
  <2> QED BY <1>2, <1>4, <2>2, <2>3 DEF OwnerStays
<1>8. tx[t].op \in Ops \cup {"none"}
  BY <1>1 DEF TxRecords
<1> QED BY <1>2, <1>5, <1>6, <1>7, <1>8 DEF Ops, Conferring

\* Only a deletion takes rows away.
LEMMA RowsKept ==
  ASSUME NEW t \in Txs, TxStep(t), ~CommitDelete(t)
  PROVE  rows \subseteq rows'
<1>1. CASE Confer(t)
  BY <1>1 DEF Confer, AssignRole, CreateRole, UpdateRole, CreateGrant
<1>2. CASE ~Confer(t)
  <2>1. UNCHANGED db
    <3>1. CASE \E x \in tx[t].want: Acquire(t, x)
      <4>1. PICK x \in tx[t].want: Acquire(t, x)
        BY <3>1
      <4> QED BY <4>1 DEF Acquire
    <3>4. CASE NothingConferred(t)
      BY <3>4 DEF NothingConferred, Locking
    <3>5. CASE ReadCeiling(t)
      BY <3>5 DEF ReadCeiling
    <3>6. CASE Find(t) \/ Delete(t)
      BY <3>6 DEF Find, Delete
    <3>2. CASE HoldMembers(t) \/ LockResource(t) \/ HoldActor(t) \/ LockRoles(t)
               \/ LockAssignments(t) \/ AddOwnGrant(t) \/ LockOwners(t) \/ Cascade(t)
      BY <3>2 DEF HoldMembers, LockResource, HoldActor, LockRoles, LockAssignments,
                  AddOwnGrant, LockOwners, Cascade, Locking
    <3>3. CASE NoMember(t) \/ NoResource(t) \/ Rejected(t) \/ NotFound(t)
               \/ RemovedMeanwhile(t) \/ LastOwnerRemoval(t)
      BY <3>3 DEF NoMember, NoResource, Rejected, NotFound, RemovedMeanwhile,
                  LastOwnerRemoval, Refuse
    <3> QED BY <1>2, <3>1, <3>2, <3>3, <3>4, <3>5, <3>6 DEF TxStep
  <2> QED BY <2>1 DEF db
<1> QED BY <1>1, <1>2

LEMMA OwnersGuarded == ASSUME OwnerInv, [Next]_vars PROVE OwnerGuarded
<1>1. CASE rows \subseteq rows'
  BY <1>1 DEF OwnerGuarded, OwnerStays, OwnerAssignments
<1>2. CASE \E t \in Txs: CommitDelete(t)
  <2>1. PICK t \in Txs: CommitDelete(t)
    BY <1>2
  <2>2. tx'[t] = Done
    BY <2>1, EndGuards DEF OwnerInv, CommitDelete
  <2>3. \/ OwnerAssignments = {} \/ OwnerStays \/ tx[t].op = "leave"
        \/ (tx[t].op = "unassign" /\ t \in overtaken)
    BY <2>1, DeletionSpares
  <2> QED BY <2>2, <2>3 DEF OwnerGuarded
<1>3. rows \subseteq rows' \/ \E t \in Txs: CommitDelete(t)
  <2>1. CASE UNCHANGED vars
    BY <2>1 DEF vars
  <2>2. CASE \E t \in Txs: Submit(t)
    <3>1. PICK t \in Txs: Submit(t)
      BY <2>2
    <3>2. PICK op, a, u, r, p: Request(t, op, a, u, r, p)
      BY <3>1, Requested
    <3>3. UNCHANGED db
      BY <3>2 DEF Request
    <3> QED BY <3>3 DEF db
  <2>3. CASE \E t \in Txs: TxStep(t)
    BY <2>3, RowsKept
  <2>4. CASE \E a, u \in Users: AddMember(a, u)
    BY <2>4 DEF AddMember
  <2> QED BY <2>1, <2>2, <2>3, <2>4 DEF Next
<1> QED BY <1>1, <1>2, <1>3

\* The other half of AuthorityKept: whatever requests run at once, only the deletion of an
\* account, or an unassignment overtaken in its guard, leaves a community without an Owner
\* (_guard_last_owner; RemoveMember, UnassignRole).
THEOREM OwnersStay == ASSUME RolesNumbered PROVE Spec => [][OwnerGuarded]_vars
<1>1. OwnerInv /\ [Next]_vars => OwnerGuarded
  BY OwnersGuarded
<1>2. Init => OwnerInv
  BY OwnerInvInit
<1>3. OwnerInv /\ [Next]_vars => OwnerInv'
  BY OwnerInvNext
<1> QED BY <1>1, <1>2, <1>3, PTL DEF Spec
=============================================================================
