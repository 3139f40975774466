------------------------------- MODULE Accounts -------------------------------
(* User accounts and the platform-admin flag: registration with its bootstrap *)
(* grant, and the operations guarded so that one active admin always remains  *)
(* (identity/application/register_user.py, set_platform_admin.py,             *)
(* set_user_active.py, admin_delete_user.py, delete_account.py).              *)
EXTENDS Integers, FiniteSets, FiniteSetTheorems, TLAPS

CONSTANTS
  People,    \* numbers, in the order of their ids
  Clerks     \* concurrent requests

VARIABLES
  open,       \* the registration setting
  account,    \* the user rows
  desk,       \* the requests
  boots       \* history: the accounts made admin, or let in though registration is
              \* closed, because they were the first

vars == <<open, account, desk, boots>>

NoAccount == [state |-> "unused", admin |-> FALSE, active |-> FALSE]
Ops == {"register", "create", "grant", "revoke", "activate", "deactivate", "remove", "leave"}
Guarded == {"revoke", "deactivate", "remove", "leave"}
Idle == [op |-> "none", on |-> 0, pc |-> "idle", want |-> {}, held |-> {}, admins |-> {},
         first |-> FALSE]

Exists(u) == account[u].state = "live"
ActiveAdmins == {u \in People: Exists(u) /\ account[u].admin /\ account[u].active}

TypeOK ==
  /\ open \in BOOLEAN
  /\ account \in [People -> [state: {"unused", "live", "deleted"}, admin: BOOLEAN, active: BOOLEAN]]
  /\ \A c \in Clerks:
       /\ desk[c].op \in Ops \cup {"none"} /\ desk[c].want \subseteq People
       /\ desk[c].pc \in {"idle", "start", "locking", "counted"}
       \* a row is written by one transaction at a time
       /\ \A d \in Clerks \ {c}: desk[c].held \cap desk[d].held = {}
  /\ boots \in 0..Cardinality(People)

Init ==
  /\ open \in BOOLEAN
  /\ account = [u \in People |-> NoAccount]
  /\ desk = [c \in Clerks |-> Idle]
  /\ boots = 0

-----------------------------------------------------------------------------
(* The requests.  require_platform_admin reads the actor in a transaction of  *)
(* its own, before the use case opens one.                                    *)

Request(c, op, u) ==
  /\ desk[c] = Idle
  /\ desk' = [desk EXCEPT ![c] = [Idle EXCEPT !.op = op, !.on = u, !.pc = "start"]]
  /\ UNCHANGED <<open, account, boots>>

\* An unused id, and none that another request is about to use.
Fresh == {u \in People: account[u].state = "unused" /\ \A c \in Clerks: desk[c].on # u}

\* Ids a request may name: accounts, deleted ones too.
Known == {u \in People: account[u].state # "unused"}

\* The closed-registration fast path refuses before the transaction.
register_user(c, u) ==
  /\ u \in Fresh
  /\ open \/ \A v \in People: ~Exists(v)
  /\ Request(c, "register", u)

require_platform_admin(a) == a \in ActiveAdmins

admin_create_user(c, a, u) == require_platform_admin(a) /\ u \in Fresh /\ Request(c, "create", u)
set_platform_admin(c, a, u, grant) ==
  require_platform_admin(a) /\ Request(c, IF grant THEN "grant" ELSE "revoke", u)
reactivate_user(c, a, u) == require_platform_admin(a) /\ Request(c, "activate", u)
deactivate_user(c, a, u) == require_platform_admin(a) /\ u # a /\ Request(c, "deactivate", u)
delete_user(c, a, u) == require_platform_admin(a) /\ u # a /\ Request(c, "remove", u)
delete_account(c, u) == Exists(u) /\ account[u].active /\ Request(c, "leave", u)

-----------------------------------------------------------------------------
(* Registration.                                                              *)

\* The advisory lock of lock_for_bootstrap, key 0 among the rows.
Bootstrap == 0
Free(c, x) == \A d \in Clerks \ {c}: x \notin desk[d].held

CountUnlocked(c) ==
  /\ desk[c].pc = "start" /\ desk[c].op \in {"register", "create"}
  /\ desk' = [desk EXCEPT ![c] = [@ EXCEPT !.pc = "counted",
                                           !.first = \A u \in People: ~Exists(u)]]
  /\ UNCHANGED <<open, account, boots>>

lock_for_bootstrap(c) ==
  /\ desk[c].pc = "start" /\ desk[c].op \in {"register", "create"}
  /\ Free(c, Bootstrap)
  /\ desk' = [desk EXCEPT ![c] = [@ EXCEPT !.pc = "counted", !.held = {Bootstrap},
                                           !.first = \A u \in People: ~Exists(u)]]
  /\ UNCHANGED <<open, account, boots>>

Admitted(c) == desk[c].first \/ desk[c].op = "create" \/ open

persist_new_user(c) ==
  /\ desk[c].pc = "counted" /\ desk[c].op \in {"register", "create"}
  /\ desk' = [desk EXCEPT ![c] = Idle]
  /\ IF Admitted(c)
       THEN /\ account' = [account EXCEPT ![desk[c].on] =
                             [state |-> "live", admin |-> desk[c].first, active |-> TRUE]]
            /\ boots' = IF desk[c].first \/ (desk[c].op = "register" /\ ~open)
                          THEN boots + 1 ELSE boots
       ELSE UNCHANGED <<account, boots>>
  /\ UNCHANGED open

-----------------------------------------------------------------------------
(* The guarded operations.                                                    *)

\* lock_with_active_admins: the rows its statement selects, locked in id order.
SelectAdmins(c) ==
  /\ desk[c].pc = "start" /\ desk[c].op \in Guarded
  /\ desk' = [desk EXCEPT ![c] = [@ EXCEPT !.pc = "locking",
                                           !.want = ActiveAdmins \cup {desk[c].on}]]
  /\ UNCHANGED <<open, account, boots>>

\* A grant or a reactivation updates its row alone.
SelectOne(c) ==
  /\ desk[c].pc = "start" /\ desk[c].op \in {"grant", "activate"}
  /\ desk' = [desk EXCEPT ![c] = [@ EXCEPT !.pc = "locking", !.want = {desk[c].on}]]
  /\ UNCHANGED <<open, account, boots>>

InIdOrder(c, u) == \A v \in desk[c].want: u <= v

\* The row is read again once its lock is had: one that is no longer an active admin's
\* is not counted.
LockRow(c, u) ==
  /\ desk[c].pc = "locking" /\ u \in desk[c].want /\ InIdOrder(c, u)
  /\ Free(c, u)
  /\ desk' = [desk EXCEPT ![c] =
                [desk[c] EXCEPT !.want = @ \ {u},
                                !.held = IF Exists(u) THEN @ \cup {u} ELSE @,
                                !.admins = IF u \in ActiveAdmins THEN @ \cup {u} ELSE @]]
  /\ UNCHANGED <<open, account, boots>>

Locked(c) == desk[c].pc = "locking" /\ desk[c].want = {}

\* The target is gone, or it is the last active admin.
LastAdmin(c) == desk[c].on \in desk[c].admins /\ Cardinality(desk[c].admins) <= 1
Refuse(c) ==
  /\ Locked(c)
  /\ desk[c].on \notin desk[c].held \/ (desk[c].op \in Guarded /\ LastAdmin(c))
  /\ desk' = [desk EXCEPT ![c] = Idle]
  /\ UNCHANGED <<open, account, boots>>

Updated(r, op) ==
  CASE op = "grant" -> [r EXCEPT !.admin = TRUE]
    [] op = "revoke" -> [r EXCEPT !.admin = FALSE]
    [] op = "activate" -> [r EXCEPT !.active = TRUE]
    [] op = "deactivate" -> [r EXCEPT !.active = FALSE]
    [] OTHER -> [NoAccount EXCEPT !.state = "deleted"]

Write(c) ==
  /\ Locked(c) /\ desk[c].on \in desk[c].held
  /\ desk[c].op \in Guarded => ~LastAdmin(c)
  /\ account' = [account EXCEPT ![desk[c].on] = Updated(@, desk[c].op)]
  /\ desk' = [desk EXCEPT ![c] = Idle]
  /\ UNCHANGED <<open, boots>>

-----------------------------------------------------------------------------

Arrives(c) ==
  /\ desk[c] = Idle
  /\ \/ \E u \in People: register_user(c, u) \/ delete_account(c, u)
     \/ \E a, u \in People: admin_create_user(c, a, u)
     \/ \E a \in People, u \in Known:
          \/ reactivate_user(c, a, u) \/ deactivate_user(c, a, u) \/ delete_user(c, a, u)
          \/ \E g \in BOOLEAN: set_platform_admin(c, a, u, g)

Serve(c) ==
  \/ lock_for_bootstrap(c) \/ persist_new_user(c) \/ SelectAdmins(c) \/ SelectOne(c)
  \/ \E u \in People: LockRow(c, u)
  \/ Refuse(c) \/ Write(c)

Next == \E c \in Clerks: Arrives(c) \/ Serve(c)

Spec == Init /\ [][Next]_vars

-----------------------------------------------------------------------------

\* Once there is a user there is an active platform admin, whatever demotions,
\* deactivations and deletions overlap (lock_with_active_admins); a user count above zero
\* therefore never returns to zero, which the closed-registration fast path relies on.
AdminKept == (\E u \in People: account[u].state # "unused") => ActiveAdmins # {}

\* Concurrent first registrations: one of them gets the bootstrap grant, and a closed
\* deployment admits that one alone (lock_for_bootstrap, persist_new_user).
BootstrapOnce == boots <= 1

\* Requests that lock the same admins do not wait for each other in a circle.
Blocked(c, S) ==
  \/ /\ desk[c].pc = "start" /\ desk[c].op \in {"register", "create"}
     /\ \E d \in S \ {c}: Bootstrap \in desk[d].held
  \/ /\ desk[c].pc = "locking" /\ desk[c].want # {}
     /\ \A u \in desk[c].want: InIdOrder(c, u) => \E d \in S \ {c}: u \in desk[d].held
NoDeadlock == \A S \in SUBSET Clerks: S # {} => \E c \in S: ~Blocked(c, S)

\* The platform is never left without an admin, and its first one is made once.
AdminsKept == AdminKept /\ BootstrapOnce

-----------------------------------------------------------------------------
(* The inductive invariant.  AdminKept alone is not inductive: what a request *)
(* decides on was read earlier, and stays true only because of its locks.     *)

Enters == {"register", "create"}
Entering(r) == r.pc # "idle" /\ r.op \in Enters
SomeKnown == \E u \in People: account[u].state # "unused"

\* Ids are numbers, above the advisory lock's key.
PeopleNumbered == People \subseteq Nat \ {Bootstrap}

DeskRecords ==
  [op: Ops \cup {"none"}, on: People \cup {0}, pc: {"idle", "start", "locking", "counted"},
   want: SUBSET People, held: SUBSET (People \cup {Bootstrap}), admins: SUBSET People,
   first: BOOLEAN]
RowsTyped ==
  /\ account \in [People -> [state: {"unused", "live", "deleted"}, admin: BOOLEAN, active: BOOLEAN]]
  /\ desk \in [Clerks -> DeskRecords]
  /\ boots \in Nat

\* What a request has counted stays so while it holds the rows.
CountsStand(r) ==
  /\ r.admins \subseteq r.held
  /\ \A u \in People: u \in r.held => Exists(u) /\ (u \in r.admins <=> u \in ActiveAdmins)

\* Rows are locked in id order, and the bootstrap lock alone.
InOrder(r) ==
  /\ \A h \in r.held, w \in r.want: h < w
  /\ r.pc = "start" => r.held = {} /\ r.want = {}
  /\ Bootstrap \in r.held => r.pc = "counted"

\* A registration is of an unused id, any other request of a known account.
Names(r) ==
  IF r.pc = "idle" THEN r = Idle
  ELSE /\ r.op \in Ops /\ r.on \in People
       /\ r.op \in Enters <=> account[r.on].state = "unused"
       /\ r.pc = "locking" => r.op \notin Enters
       /\ r.pc = "counted" => r.op \in Enters

\* A registration's count of the users is true for as long as it holds the bootstrap lock.
FirstStands(r) == r.pc = "counted" => Bootstrap \in r.held /\ (r.first <=> ~SomeKnown)

Sound(r) == CountsStand(r) /\ InOrder(r) /\ Names(r) /\ FirstStands(r)

\* A row is locked by one transaction at a time, and an id registered by one request.
Apart(r, s) == r.held \cap s.held = {} /\ (Entering(r) => s.on # r.on)

AccountsInv ==
  /\ RowsTyped
  /\ \A c \in Clerks: Sound(desk[c])
  /\ \A c, d \in Clerks: c # d => Apart(desk[c], desk[d])
  /\ boots <= 1 /\ (boots = 1 => SomeKnown)
  /\ AdminKept

-----------------------------------------------------------------------------
(* Its proof                                                                  *)

\* The record of a desk without a request.
LEMMA IdleDesk ==
  /\ Idle \in DeskRecords /\ Idle.pc = "idle" /\ Idle.on = 0
  /\ Idle.held = {} /\ Idle.admins = {} /\ Idle.want = {}
BY DEF Idle, DeskRecords

\* It satisfies the invariant whatever the rows are.
LEMMA IdleSound == Sound(Idle)
BY IdleDesk DEF Sound, CountsStand, InOrder, Names, FirstStands

\* The empty tables satisfy the invariant.
LEMMA AccountsInit == Init => AccountsInv
<1> SUFFICES ASSUME Init PROVE AccountsInv
  OBVIOUS
<1>1. \A u \in People: account[u] = NoAccount /\ account[u].state = "unused"
  BY DEF Init, NoAccount
<1>2. \A c \in Clerks: desk[c] = Idle
  BY DEF Init
<1>3. RowsTyped
  BY IdleDesk DEF Init, RowsTyped, NoAccount
<1>4. \A c, d \in Clerks: Sound(desk[c]) /\ Apart(desk[c], desk[d])
  BY <1>2, IdleDesk, IdleSound DEF Apart, Entering
<1>5. boots = 0 /\ AdminKept
  BY <1>1 DEF Init, AdminKept
<1> QED
  BY <1>3, <1>4, <1>5 DEF AccountsInv

\* A step that writes no row: only the request that takes it has to be looked at.
LEMMA DeskStep ==
  ASSUME AccountsInv, UNCHANGED <<account, boots>>,
         NEW c \in Clerks, NEW r \in DeskRecords, Sound(r),
         \A d \in Clerks \ {c}: Apart(r, desk[d]) /\ Apart(desk[d], r),
         desk' = [desk EXCEPT ![c] = r]
  PROVE  AccountsInv'
<1>1. desk'[c] = r /\ \A d \in Clerks \ {c}: desk'[d] = desk[d]
  BY DEF AccountsInv, RowsTyped
<1>2. RowsTyped'
  BY DEF AccountsInv, RowsTyped
<1>3. \A d \in Clerks: Sound(desk[d])' <=> Sound(desk'[d])
  BY DEF Sound, CountsStand, InOrder, Names, FirstStands, Exists, ActiveAdmins, SomeKnown
<1>4. \A d \in Clerks: Sound(desk[d])'
  BY <1>1, <1>3 DEF AccountsInv
<1>5. \A d, e \in Clerks: d # e => Apart(desk[d], desk[e])'
  BY <1>1 DEF AccountsInv, Apart, Entering
<1>6. (boots <= 1)' /\ (boots = 1 => SomeKnown)' /\ AdminKept'
  BY DEF AccountsInv, SomeKnown, AdminKept, ActiveAdmins, Exists
<1> QED
  BY <1>2, <1>4, <1>5, <1>6 DEF AccountsInv

\* A request that ends without writing.
LEMMA DeskCleared ==
  ASSUME PeopleNumbered, AccountsInv, UNCHANGED <<account, boots>>,
         NEW c \in Clerks, desk' = [desk EXCEPT ![c] = Idle]
  PROVE  AccountsInv'
<1>1. \A d \in Clerks: Entering(desk[d]) => desk[d].on # 0
  BY DEF AccountsInv, Sound, Names, Entering, PeopleNumbered, Bootstrap
<1>2. \A d \in Clerks: Apart(Idle, desk[d]) /\ Apart(desk[d], Idle)
  BY <1>1, IdleDesk DEF Apart, Entering
<1> QED
  BY <1>2, DeskStep, IdleDesk, IdleSound

\* A request begins with nothing locked, on an id nobody else registers.
LEMMA ArrivesStep ==
  ASSUME PeopleNumbered, AccountsInv, NEW c \in Clerks, Arrives(c)
  PROVE  AccountsInv'
<1>1. PICK op \in Ops, u \in People :
        Request(c, op, u) /\ IF op \in Enters THEN u \in Fresh ELSE u \in Known
  BY SMTT(30) DEF Arrives, register_user, delete_account, admin_create_user, reactivate_user,
     deactivate_user, delete_user, set_platform_admin, Ops, Enters, Known, Exists
<1> DEFINE r == [Idle EXCEPT !.op = op, !.on = u, !.pc = "start"]
<1>2. /\ r \in DeskRecords
      /\ r.op = op /\ r.on = u /\ r.pc = "start" /\ r.held = {} /\ r.admins = {} /\ r.want = {}
  BY DEF DeskRecords, Idle
<1>3. /\ desk[c] = Idle /\ desk' = [desk EXCEPT ![c] = r]
      /\ UNCHANGED <<open, account, boots>>
  BY <1>1 DEF Request
<1>4. op \in Enters <=> account[u].state = "unused"
  BY <1>1 DEF Fresh, Known
<1> HIDE DEF r
<1>5. Sound(r)
  BY <1>2, <1>4 DEF Sound, CountsStand, InOrder, Names, FirstStands
<1>6. ASSUME NEW d \in Clerks \ {c}
      PROVE  Apart(r, desk[d]) /\ Apart(desk[d], r)
  <2>1. op \in Enters => desk[d].on # u
    BY <1>1 DEF Fresh
  <2>2. Entering(desk[d]) => desk[d].on # u
    BY <1>4, <2>1 DEF AccountsInv, Sound, Names, Entering
  <2> QED
    BY <1>2, <2>1, <2>2 DEF Apart, Entering
<1> QED
  BY <1>2, <1>3, <1>5, <1>6, DeskStep

\* A registration counts the users under the bootstrap lock.
LEMMA CountStep ==
  ASSUME PeopleNumbered, AccountsInv, NEW c \in Clerks, lock_for_bootstrap(c)
  PROVE  AccountsInv'
<1> DEFINE r == [desk[c] EXCEPT !.pc = "counted", !.held = {Bootstrap},
                                !.first = \A u \in People: ~Exists(u)]
<1>1. desk[c] \in DeskRecords /\ Sound(desk[c])
  BY DEF AccountsInv, RowsTyped
<1>2. /\ r \in DeskRecords
      /\ r.op = desk[c].op /\ r.on = desk[c].on /\ r.pc = "counted" /\ r.held = {Bootstrap}
      /\ r.admins = desk[c].admins /\ r.want = desk[c].want /\ (r.first <=> \A u \in People: ~Exists(u))
  BY <1>1 DEF DeskRecords
<1>3. /\ desk[c].pc = "start" /\ desk[c].op \in Enters
      /\ desk' = [desk EXCEPT ![c] = r] /\ UNCHANGED <<open, account, boots>>
  BY DEF lock_for_bootstrap, Enters
<1> HIDE DEF r
\* Once an account is known an active admin exists, so that nobody exists only if nobody is known.
<1>4. (\A u \in People: ~Exists(u)) <=> ~SomeKnown
  BY DEF AccountsInv, AdminKept, SomeKnown, ActiveAdmins, Exists
<1>5. Sound(r)
  BY <1>1, <1>2, <1>3, <1>4 DEF Sound, CountsStand, InOrder, Names, FirstStands, PeopleNumbered
<1>6. ASSUME NEW d \in Clerks \ {c}
      PROVE  Apart(r, desk[d]) /\ Apart(desk[d], r)
  <2>1. Bootstrap \notin desk[d].held
    BY DEF lock_for_bootstrap, Free
  <2>2. Apart(desk[c], desk[d]) /\ Apart(desk[d], desk[c])
    BY DEF AccountsInv
  <2> QED
    BY <1>2, <1>3, <2>1, <2>2 DEF Apart, Entering
<1> QED
  BY <1>2, <1>3, <1>5, <1>6, DeskStep

\* The statement that selects the rows to lock.
LEMMA SelectStep ==
  ASSUME AccountsInv, NEW c \in Clerks, SelectAdmins(c) \/ SelectOne(c)
  PROVE  AccountsInv'
<1>1. desk[c] \in DeskRecords /\ Sound(desk[c])
  BY DEF AccountsInv, RowsTyped
<1>2. PICK want \in SUBSET People :
        desk' = [desk EXCEPT ![c] = [desk[c] EXCEPT !.pc = "locking", !.want = want]]
  <2>1. desk[c].on \in People
    BY <1>1 DEF SelectAdmins, SelectOne, Sound, Names
  <2> QED
    BY <2>1 DEF SelectAdmins, SelectOne, ActiveAdmins
<1> DEFINE r == [desk[c] EXCEPT !.pc = "locking", !.want = want]
<1>3. /\ r \in DeskRecords
      /\ r.op = desk[c].op /\ r.on = desk[c].on /\ r.pc = "locking" /\ r.held = desk[c].held
      /\ r.admins = desk[c].admins
  BY <1>1 DEF DeskRecords
<1>4. desk[c].pc = "start" /\ desk[c].op \notin Enters /\ UNCHANGED <<open, account, boots>>
  BY DEF SelectAdmins, SelectOne, Enters, Guarded
<1>5. desk' = [desk EXCEPT ![c] = r]
  BY <1>2
<1> HIDE DEF r
<1>6. Sound(r)
  BY <1>1, <1>3, <1>4 DEF Sound, CountsStand, InOrder, Names, FirstStands
<1>7. ASSUME NEW d \in Clerks \ {c}
      PROVE  Apart(r, desk[d]) /\ Apart(desk[d], r)
  BY <1>3, <1>4 DEF AccountsInv, Apart, Entering
<1> QED
  BY <1>3, <1>4, <1>5, <1>6, <1>7, DeskStep

\* The row is counted as it is when its lock is had.
LEMMA LockRowStep ==
  ASSUME PeopleNumbered, AccountsInv, NEW c \in Clerks, NEW u \in People, LockRow(c, u)
  PROVE  AccountsInv'
<1> DEFINE r == [desk[c] EXCEPT !.want = @ \ {u},
                                !.held = IF Exists(u) THEN @ \cup {u} ELSE @,
                                !.admins = IF u \in ActiveAdmins THEN @ \cup {u} ELSE @]
<1>1. desk[c] \in DeskRecords /\ Sound(desk[c])
  BY DEF AccountsInv, RowsTyped
<1>2. /\ r \in DeskRecords
      /\ r.op = desk[c].op /\ r.on = desk[c].on /\ r.pc = desk[c].pc /\ r.first = desk[c].first
      /\ r.held = IF Exists(u) THEN desk[c].held \cup {u} ELSE desk[c].held
      /\ r.admins = IF u \in ActiveAdmins THEN desk[c].admins \cup {u} ELSE desk[c].admins
      /\ r.want = desk[c].want \ {u}
  BY <1>1 DEF DeskRecords
<1>3. /\ desk[c].pc = "locking"
      /\ desk' = [desk EXCEPT ![c] = r] /\ UNCHANGED <<open, account, boots>>
  BY DEF LockRow
<1> HIDE DEF r
<1>4. u \in ActiveAdmins => Exists(u)
  BY DEF ActiveAdmins
<1>5. CountsStand(r)
  BY <1>1, <1>2, <1>3, <1>4 DEF Sound, CountsStand
<1>6. InOrder(r)
  <2>1. \A w \in desk[c].want: u <= w
    BY DEF LockRow, InIdOrder
  <2>2. desk[c].want \subseteq Nat /\ u \in Nat \ {Bootstrap}
    BY <1>1 DEF DeskRecords, PeopleNumbered
  <2>3. \A w \in desk[c].want \ {u}: u < w
    BY <2>1, <2>2
  <2> QED
    BY <1>1, <1>2, <1>3, <2>2, <2>3 DEF Sound, InOrder
<1>7. Sound(r)
  BY <1>1, <1>2, <1>3, <1>5, <1>6 DEF Sound, Names, FirstStands
<1>8. ASSUME NEW d \in Clerks \ {c}
      PROVE  Apart(r, desk[d]) /\ Apart(desk[d], r)
  <2>1. u \notin desk[d].held
    BY DEF LockRow, Free
  <2>2. Apart(desk[c], desk[d]) /\ Apart(desk[d], desk[c])
    BY DEF AccountsInv
  <2> QED
    BY <1>2, <2>1, <2>2 DEF Apart, Entering
<1> QED
  BY <1>2, <1>3, <1>7, <1>8, DeskStep

\* A step that writes the row x of the request c, and ends c: the other requests hold
\* other rows, and register other ids.
LEMMA RowStep ==
  ASSUME PeopleNumbered, AccountsInv, NEW c \in Clerks, NEW x \in People,
         \A d \in Clerks \ {c}: x \notin desk[d].held /\ (Entering(desk[d]) => desk[d].on # x),
         \A d \in Clerks \ {c}: desk[d].pc # "counted" \/ SomeKnown,
         NEW row \in [state: {"live", "deleted"}, admin: BOOLEAN, active: BOOLEAN],
         account' = [account EXCEPT ![x] = row], desk' = [desk EXCEPT ![c] = Idle],
         boots' \in {0, 1}, ActiveAdmins' # {}
  PROVE  AccountsInv'
<1>1. /\ account'[x] = row /\ \A u \in People \ {x}: account'[u] = account[u]
      /\ desk'[c] = Idle /\ \A d \in Clerks \ {c}: desk'[d] = desk[d]
  BY DEF AccountsInv, RowsTyped
<1>2. RowsTyped'
  BY IdleDesk DEF AccountsInv, RowsTyped
<1>3. SomeKnown'
  BY <1>1 DEF SomeKnown
<1>4. ASSUME NEW d \in Clerks \ {c}
      PROVE  Sound(desk[d])'
  <2>1. Sound(desk[d])
    BY DEF AccountsInv
  <2>2. \A u \in desk[d].held \cap People: (Exists(u)' <=> Exists(u)) /\ (u \in ActiveAdmins' <=> u \in ActiveAdmins)
    BY <1>1 DEF Exists, ActiveAdmins
  <2>3. CountsStand(desk[d])'
    BY <1>1, <2>1, <2>2 DEF Sound, CountsStand
  <2>4. Names(desk[d])' /\ InOrder(desk[d])'
    BY <1>1, <2>1 DEF Sound, Names, InOrder, Entering
  <2>5. FirstStands(desk[d])'
    BY <1>1, <1>3, <2>1 DEF Sound, FirstStands
  <2> QED
    BY <2>3, <2>4, <2>5 DEF Sound
<1>5. Sound(desk[c])'
  BY <1>1, IdleDesk DEF Sound, CountsStand, InOrder, Names, FirstStands
<1>6. ASSUME NEW d \in Clerks, NEW e \in Clerks, d # e
      PROVE  Apart(desk[d], desk[e])'
  <2>1. Entering(desk[d]) => desk[d].on # 0
    BY DEF AccountsInv, Sound, Names, Entering, PeopleNumbered, Bootstrap
  <2> QED
    BY <1>1, <1>6, <2>1, IdleDesk DEF AccountsInv, Apart, Entering
<1>7. (boots <= 1 /\ (boots = 1 => SomeKnown))' /\ AdminKept'
  BY <1>3 DEF AdminKept
<1> QED
  BY <1>2, <1>4, <1>5, <1>6, <1>7 DEF AccountsInv

\* The first account is an admin's, and while it is being made no other request has
\* counted; a later one changes nobody's rights.
LEMMA PersistStep ==
  ASSUME PeopleNumbered, AccountsInv, NEW c \in Clerks, persist_new_user(c)
  PROVE  AccountsInv'
<1>1. desk[c].pc = "counted" /\ Sound(desk[c]) /\ Entering(desk[c])
  BY DEF AccountsInv, persist_new_user, Entering, Enters
<1>2. /\ desk[c].on \in People /\ account[desk[c].on].state = "unused"
      /\ Bootstrap \in desk[c].held /\ (desk[c].first <=> ~SomeKnown)
  BY <1>1 DEF Sound, Names, FirstStands, Entering
<1>3. CASE ~Admitted(c)
  BY <1>3, DeskCleared DEF persist_new_user
<1>4. CASE Admitted(c)
  <2> DEFINE x == desk[c].on
             row == [state |-> "live", admin |-> desk[c].first, active |-> TRUE]
  <2>1. /\ account' = [account EXCEPT ![x] = row] /\ desk' = [desk EXCEPT ![c] = Idle]
        /\ boots' = IF desk[c].first \/ (desk[c].op = "register" /\ ~open) THEN boots + 1 ELSE boots
    BY <1>4 DEF persist_new_user
  <2>2. row \in [state: {"live", "deleted"}, admin: BOOLEAN, active: BOOLEAN]
    BY DEF AccountsInv, RowsTyped, DeskRecords
  <2>3. ASSUME NEW d \in Clerks \ {c}
        PROVE  x \notin desk[d].held /\ (Entering(desk[d]) => desk[d].on # x) /\ desk[d].pc # "counted"
    <3>1. Apart(desk[d], desk[c]) /\ Apart(desk[c], desk[d]) /\ Sound(desk[d])
      BY DEF AccountsInv
    <3> QED
      BY <1>1, <1>2, <3>1 DEF Apart, Sound, CountsStand, FirstStands, Exists
  <2>4. boots' \in {0, 1}
    <3>1. boots \in Nat /\ boots <= 1 /\ (boots = 1 => SomeKnown)
      BY DEF AccountsInv, RowsTyped
    <3>2. desk[c].op = "register" /\ ~open => desk[c].first
      BY <1>4 DEF Admitted
    <3> QED
      BY <1>2, <2>1, <3>1, <3>2
  <2>5. ActiveAdmins' # {}
    <3>1. /\ account'[x] = row /\ \A u \in People \ {x}: account'[u] = account[u]
      BY <1>2, <2>1 DEF AccountsInv, RowsTyped
    <3>2. CASE desk[c].first
      BY <1>2, <3>1, <3>2 DEF ActiveAdmins, Exists
    <3>3. CASE ~desk[c].first
      <4>1. PICK y \in People : y \in ActiveAdmins
        BY <1>2, <3>3 DEF AccountsInv, AdminKept, SomeKnown, ActiveAdmins
      <4>2. y # x
        BY <1>2, <4>1 DEF ActiveAdmins, Exists
      <4> QED
        BY <3>1, <4>1, <4>2 DEF ActiveAdmins, Exists
    <3> QED
      BY <3>2, <3>3
  <2> HIDE DEF x, row
  <2> QED
    BY <1>2, <2>1, <2>2, <2>3, <2>4, <2>5, RowStep DEF x
<1> QED
  BY <1>3, <1>4

\* Who demotes an active admin has counted another, and holds its row.
LEMMA WriteStep ==
  ASSUME PeopleNumbered, AccountsInv, NEW c \in Clerks, Write(c)
  PROVE  AccountsInv'
<1> DEFINE x == desk[c].on
           row == Updated(account[x], desk[c].op)
<1>1. /\ desk[c].pc = "locking" /\ x \in desk[c].held
      /\ account' = [account EXCEPT ![x] = row] /\ desk' = [desk EXCEPT ![c] = Idle] /\ boots' = boots
  BY DEF Write, Locked
<1>2. Sound(desk[c]) /\ x \in People /\ desk[c].op \in Ops \ Enters
  BY <1>1 DEF AccountsInv, Sound, Names
<1>3. Exists(x) /\ (x \in desk[c].admins <=> x \in ActiveAdmins)
  BY <1>1, <1>2 DEF Sound, CountsStand
<1>4. account[x] \in [state: {"live"}, admin: BOOLEAN, active: BOOLEAN]
  BY <1>2, <1>3 DEF AccountsInv, RowsTyped, Exists
<1>5. row \in [state: {"live", "deleted"}, admin: BOOLEAN, active: BOOLEAN]
  BY <1>4 DEF Updated, NoAccount
<1>6. SomeKnown /\ boots' \in {0, 1}
  BY <1>1, <1>2, <1>3 DEF SomeKnown, Exists, AccountsInv, RowsTyped
<1>7. ASSUME NEW d \in Clerks \ {c}
      PROVE  x \notin desk[d].held /\ (Entering(desk[d]) => desk[d].on # x)
  BY <1>1, <1>2, <1>3 DEF AccountsInv, Apart, Sound, Names, Entering, Exists
<1>8. ActiveAdmins' # {}
  <2>1. /\ account'[x] = row /\ \A u \in People \ {x}: account'[u] = account[u]
    BY <1>1, <1>2 DEF AccountsInv, RowsTyped
  <2>2. SUFFICES x \in ActiveAdmins' \/ \E y \in ActiveAdmins: y # x
    BY <2>1 DEF ActiveAdmins, Exists
  <2>3. CASE x \notin ActiveAdmins
    BY <1>6, <2>3 DEF AccountsInv, AdminKept, SomeKnown
  <2>4. CASE x \in ActiveAdmins /\ desk[c].op \notin Guarded
    <3>1. desk[c].op \in {"grant", "activate"}
      BY <1>2, <2>4 DEF Ops, Enters, Guarded
    <3>2. row.state = "live" /\ row.admin /\ row.active
      BY <1>4, <2>4, <3>1 DEF Updated, ActiveAdmins
    <3> QED
      BY <1>2, <2>1, <3>2 DEF ActiveAdmins, Exists
  <2>5. CASE x \in ActiveAdmins /\ desk[c].op \in Guarded
    <3>1. x \in desk[c].admins /\ ~(Cardinality(desk[c].admins) <= 1)
      BY <1>3, <2>5 DEF Write, LastAdmin
    <3>2. Cardinality({x}) = 1
      BY FS_Singleton
    <3>3. desk[c].admins \subseteq People \cap desk[c].held
      BY <1>2 DEF AccountsInv, RowsTyped, DeskRecords, Sound, CountsStand
    <3>4. PICK y \in desk[c].admins : y # x
      <4>1. desk[c].admins # {x}
        BY <3>1, <3>2
      <4> QED
        BY <3>1, <4>1
    <3> QED
      BY <1>2, <3>3, <3>4 DEF Sound, CountsStand
  <2> QED
    BY <2>3, <2>4, <2>5
<1> HIDE DEF x, row
<1> QED
  BY <1>1, <1>2, <1>5, <1>6, <1>7, <1>8, RowStep

\* Every step keeps it.
LEMMA AccountsStep == ASSUME PeopleNumbered PROVE AccountsInv /\ [Next]_vars => AccountsInv'
<1> SUFFICES ASSUME AccountsInv, [Next]_vars PROVE AccountsInv'
  OBVIOUS
<1>1. CASE UNCHANGED vars
  BY <1>1 DEF vars, AccountsInv, RowsTyped, Sound, CountsStand, InOrder, Names, FirstStands, Apart, AdminKept,
     SomeKnown, ActiveAdmins, Exists, Entering
<1>2. ASSUME NEW c \in Clerks, Arrives(c) PROVE AccountsInv'
  BY <1>2, ArrivesStep
<1>3. ASSUME NEW c \in Clerks, lock_for_bootstrap(c) PROVE AccountsInv'
  BY <1>3, CountStep
<1>4. ASSUME NEW c \in Clerks, persist_new_user(c) PROVE AccountsInv'
  BY <1>4, PersistStep
<1>5. ASSUME NEW c \in Clerks, SelectAdmins(c) \/ SelectOne(c) PROVE AccountsInv'
  BY <1>5, SelectStep
<1>6. ASSUME NEW c \in Clerks, NEW u \in People, LockRow(c, u) PROVE AccountsInv'
  BY <1>6, LockRowStep
<1>7. ASSUME NEW c \in Clerks, Refuse(c) PROVE AccountsInv'
  BY <1>7, DeskCleared DEF Refuse
<1>8. ASSUME NEW c \in Clerks, Write(c) PROVE AccountsInv'
  BY <1>8, WriteStep
<1> QED
  BY <1>1, <1>2, <1>3, <1>4, <1>5, <1>6, <1>7, <1>8 DEF Next, Serve

\* For any people and any requests at once: once there is a user there is an active
\* platform admin, and the bootstrap grant is given once (AdminsKept).
THEOREM AdminsAlwaysKept == ASSUME PeopleNumbered PROVE Spec => []AdminsKept
<1>1. AccountsInv => AdminsKept
  BY DEF AccountsInv, AdminsKept, BootstrapOnce
<1> QED
  BY <1>1, AccountsInit, AccountsStep, PTL DEF Spec

-----------------------------------------------------------------------------
(* Requests do not wait for each other in a circle.                           *)

\* Of the subsets of a finite set that a function gives, one contains no other.
LEMMA SmallestSubset ==
  ASSUME NEW S, IsFiniteSet(S), NEW I, I # {}, NEW f \in [I -> SUBSET S]
  PROVE  \E i \in I: \A j \in I: f[j] \subseteq f[i] => f[j] = f[i]
<1> DEFINE F == {f[i]: i \in I}
<1>1. F \subseteq FiniteSubsetsOf(S) /\ F # {}
  BY FS_Subset DEF FiniteSubsetsOf
<1>2. IsWellFoundedOn(StrictSubsetOrdering(S), FiniteSubsetsOf(S))
  BY FS_StrictSubsetOrderingWellFounded
<1> HIDE DEF F
<1>3. PICK A \in F : \A B \in F: <<B, A>> \notin StrictSubsetOrdering(S)
  BY <1>1, <1>2, WFMin
<1>4. PICK i \in I : A = f[i]
  BY DEF F
<1>5. ASSUME NEW j \in I, f[j] \subseteq f[i] PROVE f[j] = f[i]
  <2>1. f[j] \in F
    BY DEF F
  <2>2. f[i] \in SUBSET S /\ f[j] \in SUBSET S
    OBVIOUS
  <2> QED
    BY <1>3, <1>4, <1>5, <2>1, <2>2, <1>1 DEF StrictSubsetOrdering
<1> QED
  BY <1>5

\* Some row is next in a request's order.
LEMMA NextRow ==
  ASSUME PeopleNumbered, IsFiniteSet(People), NEW want \in SUBSET People, want # {}
  PROVE  \E u \in want: \A v \in want: u <= v
<1> DEFINE UpTo == [u \in want |-> {v \in People: v <= u}]
<1>1. \A u \in want: UpTo[u] = {v \in People: v <= u}
  OBVIOUS
<1>2. UpTo \in [want -> SUBSET People]
  OBVIOUS
<1> HIDE DEF UpTo
<1>3. PICK u \in want : \A v \in want: UpTo[v] \subseteq UpTo[u] => UpTo[v] = UpTo[u]
  BY <1>2, SmallestSubset
<1>4. ASSUME NEW v \in want, ~(u <= v) PROVE FALSE
  <2>1. /\ want \subseteq People /\ People \subseteq Nat
        /\ u \in Nat /\ v \in Nat /\ v < u
    BY <1>4 DEF PeopleNumbered
  <2>2. UpTo[v] \subseteq UpTo[u]
    <3>1. ASSUME NEW x \in UpTo[v] PROVE x \in UpTo[u]
      <4>1. x \in People /\ x <= v /\ x \in Nat
        BY <1>1, <2>1, <3>1
      <4>2. x <= u
        BY <2>1, <4>1
      <4> QED
        BY <1>1, <4>1, <4>2
    <3> QED
      BY <3>1
  <2>3. u \in UpTo[u] /\ u \notin UpTo[v]
    BY <1>1, <2>1
  <2> QED
    BY <1>3, <2>2, <2>3
<1> QED
  BY <1>4

\* For any finite number of people: of requests that all wait, one waits for a request
\* outside them (NoDeadlock); its next row is the highest.
THEOREM AccountLocksOrdered == ASSUME PeopleNumbered, IsFiniteSet(People) PROVE Spec => []NoDeadlock
<1>1. ASSUME AccountsInv, NEW S \in SUBSET Clerks, S # {}, \A c \in S: Blocked(c, S)
      PROVE  FALSE
  <2>1. ASSUME NEW c \in S
        PROVE  desk[c].pc = "locking" /\ desk[c].want # {} /\ desk[c].want \subseteq People
    <3>1. \A d \in S: Bootstrap \notin desk[d].held
      BY <1>1 DEF AccountsInv, Sound, InOrder, Blocked
    <3> QED
      BY <1>1, <3>1 DEF Blocked, AccountsInv, RowsTyped, DeskRecords
  <2> DEFINE Ahead == [c \in S |-> {v \in People: \E w \in desk[c].want: w <= v}]
  <2>2. /\ \A c \in S: Ahead[c] = {v \in People: \E w \in desk[c].want: w <= v}
        /\ Ahead \in [S -> SUBSET People]
    OBVIOUS
  <2> HIDE DEF Ahead
  <2>3. PICK c \in S : \A d \in S: Ahead[d] \subseteq Ahead[c] => Ahead[d] = Ahead[c]
    BY <1>1, <2>2, SmallestSubset
  <2>4. PICK u \in desk[c].want : \A v \in desk[c].want: u <= v
    BY <2>1, NextRow
  <2>5. PICK d \in S \ {c} : u \in desk[d].held
    BY <1>1, <2>1, <2>4 DEF Blocked, InIdOrder
  <2>6. u \in People /\ u \in Nat /\ \A w \in desk[d].want: w \in Nat /\ u < w
    BY <1>1, <2>1, <2>4, <2>5 DEF AccountsInv, Sound, InOrder, PeopleNumbered
  <2>7. u \in Ahead[c] /\ u \notin Ahead[d]
    BY <2>2, <2>6
  <2>8. Ahead[d] \subseteq Ahead[c]
    <3>1. ASSUME NEW v \in Ahead[d] PROVE v \in Ahead[c]
      <4>1. v \in People /\ v \in Nat /\ \E w \in desk[d].want: w <= v
        BY <2>2, <3>1 DEF PeopleNumbered
      <4>2. u <= v
        BY <2>6, <4>1
      <4> QED
        BY <2>2, <4>1, <4>2
    <3> QED
      BY <3>1
  <2> QED
    BY <2>3, <2>7, <2>8
<1>2. AccountsInv => NoDeadlock
  BY <1>1 DEF NoDeadlock
<1> QED
  BY <1>2, AccountsInit, AccountsStep, PTL DEF Spec
=============================================================================
