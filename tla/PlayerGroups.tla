---------------------------- MODULE PlayerGroups -----------------------------
(* Player groups and the file they feed (ops.json or whitelist.json) of one   *)
(* server: servers/application/groups.py, adapters/group_repository.py and    *)
(* the regeneration a start makes (lifecycle.py).                             *)
(*                                                                            *)
(* A change of a group is a transaction that reads the group, locks its row,  *)
(* replaces its players and marks the attached server as owed a new file; the *)
(* file itself is written afterwards, under the lifecycle lock and at rest    *)
(* only.  The start that clears a mark is the one that wrote the file.  One   *)
(* kind of group is modelled: the kinds share nothing.                        *)
EXTENDS FiniteSets, LifecycleGate

CONSTANTS
  Groups, Players,
  NoGroup    \* what a request that is not at work is about

VARIABLES
  players,   \* group -> its players, or NoGroup once deleted
  attached,  \* the groups attached to the server
  mark,      \* the sync-pending row: "none", "marked", "read" (the token a start
             \* has read and nobody renewed)
  file,      \* the store's player file
  live,      \* the worker's copy while the server runs
  row_lock,  \* group -> the request that holds its row FOR UPDATE, or NoOne
  req,       \* what each request is doing
  lost       \* history: a save undid what had been committed since its read

vars == <<srv, holder, players, attached, mark, file, live, row_lock, req, lost>>
gate == <<srv, holder>>
content == <<file, live>>
tables == <<players, attached, mark, lost>>

Idle == [op |-> "idle", g |-> NoGroup, p |-> NoGroup, set |-> {}, listed |-> FALSE]
Exists(g) == players[g] # NoGroup

\* list_groups_for_server_kind and merge_players: the union of the attached groups.
merge_players == UNION {players[g]: g \in attached}

-----------------------------------------------------------------------------
(* The transactions that change a group *)

\* _load_group: the players are read before the row is locked.
Load(r, op, g, p) ==
  /\ req[r] = Idle /\ Exists(g)
  /\ req' = [req EXCEPT ![r] = [op |-> op, g |-> g, p |-> p, set |-> players[g], listed |-> FALSE]]
  /\ UNCHANGED <<gate, tables, content, row_lock>>

AddPlayer(r, g, p) == Load(r, "add", g, p)
RemovePlayer(r, g, p) == Load(r, "remove", g, p)
DeleteGroup(r, g) == Load(r, "delete", g, NoGroup)
RenameGroup(r, g) == Load(r, "rename", g, NoGroup)

\* FOR UPDATE on the group's row, then the listing of its servers.
lock_against_attach(r) ==
  /\ req[r].op \in {"add", "remove", "delete"} /\ row_lock[req[r].g] = NoOne
  /\ row_lock' = [row_lock EXCEPT ![req[r].g] = r]
list_server_ids_for_group(r) == req' = [req EXCEPT ![r].listed = (req[r].g \in attached)]
TakeLock(r) ==
  lock_against_attach(r) /\ list_server_ids_for_group(r) /\ UNCHANGED <<gate, tables, content>>

upsert_player(set, p) == set \cup {p}
remove_player(set, p) == set \ {p}
Edited(op, set, p) == CASE op = "add" -> upsert_player(set, p) [] op = "remove" -> remove_player(set, p)
                        [] op = "rename" -> set

\* Defect: marking again keeps the token a start may already have read.
KeepsToken == IF mark = "read" THEN "read" ELSE "marked"
mark_sync_pending == "marked"

MarkServers(q) == mark' = IF q.listed THEN mark_sync_pending ELSE mark
ThenSync(q) == [Idle EXCEPT !.op = IF q.listed THEN "sync" ELSE "idle"]

\* GroupRepository.save replaces the players wholesale and refuses a group that is
\* gone.  READ COMMITTED: the delete sees, and removes, all that was committed.
save(g, op, set, p) ==
  /\ Exists(g)
  /\ players' = [players EXCEPT ![g] = Edited(op, set, p)]
  /\ lost' = (lost \/ Edited(op, set, p) # Edited(op, players[g], p))

CommitEdit(r) ==
  LET q == req[r]
  IN  /\ q.op \in {"add", "remove"} /\ row_lock[q.g] = r
      /\ save(q.g, q.op, q.set, q.p)
      /\ MarkServers(q)
      /\ row_lock' = [row_lock EXCEPT ![q.g] = NoOne]
      /\ req' = [req EXCEPT ![r] = ThenSync(q)]
      /\ UNCHANGED <<gate, attached, content>>

\* A rename saves the players it read, locks nothing first and marks nothing.
CommitRename(r) ==
  LET q == req[r]
  IN  /\ q.op = "rename" /\ row_lock[q.g] = NoOne
      /\ save(q.g, q.op, q.set, q.p)
      /\ req' = [req EXCEPT ![r] = Idle]
      /\ UNCHANGED <<gate, attached, mark, content, row_lock>>

\* The delete cascades to players and attachments.
CommitDelete(r) ==
  LET q == req[r]
  IN  /\ q.op = "delete" /\ row_lock[q.g] = r
      /\ players' = [players EXCEPT ![q.g] = NoGroup]
      /\ MarkServers(q) /\ attached' = attached \ {q.g}
      /\ row_lock' = [row_lock EXCEPT ![q.g] = NoOne]
      /\ req' = [req EXCEPT ![r] = ThenSync(q)]
      /\ UNCHANGED <<gate, lost, content>>

\* AttachGroup and DetachGroup are one transaction each: the attach's foreign-key
\* check waits for the row lock; a detach does not.
AttachGroup(r, g) ==
  /\ req[r] = Idle /\ Exists(g) /\ row_lock[g] = NoOne
  /\ attached' = attached \cup {g} /\ mark' = mark_sync_pending
  /\ req' = [req EXCEPT ![r].op = "sync"]
  /\ UNCHANGED <<gate, players, lost, content, row_lock>>

DetachGroup(r, g) ==
  /\ req[r] = Idle /\ g \in attached
  /\ attached' = attached \ {g} /\ mark' = mark_sync_pending
  /\ req' = [req EXCEPT ![r].op = "sync"]
  /\ UNCHANGED <<gate, players, lost, content, row_lock>>

CreateGroup(r, g) ==
  /\ req[r] = Idle /\ ~Exists(g)
  /\ players' = [players EXCEPT ![g] = {}]
  /\ UNCHANGED <<gate, attached, mark, lost, content, row_lock, req>>

\* The transaction fails, finds the group gone, or the process dies.
RollBack(r) ==
  /\ req[r].op \in {"add", "remove", "delete", "rename"}
  /\ row_lock' = [g \in Groups |-> IF row_lock[g] = r THEN NoOne ELSE row_lock[g]]
  /\ req' = [req EXCEPT ![r] = Idle]
  /\ UNCHANGED <<gate, tables, content>>

-----------------------------------------------------------------------------
(* The file, after the commit: _sync_server_file *)

SyncReads(r) ==
  /\ req[r].op = "sync" /\ hold(r)
  /\ req' = [req EXCEPT ![r] = IF is_at_rest THEN [Idle EXCEPT !.op = "write", !.set = merge_players]
                               ELSE [Idle EXCEPT !.op = "end"]]
  /\ UNCHANGED <<srv, tables, content, row_lock>>

SyncWrites(r) ==
  /\ req[r].op = "write" /\ file' = req[r].set
  /\ req' = [req EXCEPT ![r] = [Idle EXCEPT !.op = "end"]]
  /\ UNCHANGED <<gate, tables, live, row_lock>>

Unlocks(r) ==
  /\ req[r].op = "end" /\ unlock(r)
  /\ req' = [req EXCEPT ![r] = Idle]
  /\ UNCHANGED <<srv, tables, content, row_lock>>

\* Best effort: a busy server, a failing write or a crash leaves the mark to do it.
SyncFails(r) ==
  /\ req[r].op \in {"sync", "write"}
  /\ holder' = IF holder = r THEN NoOne ELSE holder
  /\ req' = [req EXCEPT ![r] = Idle]
  /\ UNCHANGED <<srv, tables, content, row_lock>>

-----------------------------------------------------------------------------
(* A start, under the lock: what is owed is written, then claimed and cleared *)

StartReads(r) ==
  /\ req[r] = Idle /\ is_at_rest /\ hold(r)
  /\ mark' = IF mark = "none" THEN "none" ELSE "read"
  /\ req' = [req EXCEPT ![r] = [Idle EXCEPT !.op = IF mark = "none" THEN "claim" ELSE "regenerate",
                                            !.set = IF mark = "none" THEN {} ELSE merge_players]]
  /\ UNCHANGED <<srv, players, attached, lost, content, row_lock>>

regenerate_pending_group_files(r) ==
  /\ req[r].op = "regenerate" /\ file' = req[r].set
  /\ req' = [req EXCEPT ![r] = [Idle EXCEPT !.op = "claim"]]
  /\ UNCHANGED <<gate, tables, live, row_lock>>

clear_sync_pending == mark' = IF mark = "read" THEN "none" ELSE mark

StartCommits(r) ==
  /\ req[r].op = "claim" /\ srv' = "starting" /\ clear_sync_pending
  /\ unlock(r) /\ req' = [req EXCEPT ![r] = Idle]
  /\ UNCHANGED <<players, attached, lost, content, row_lock>>

StartFails(r) ==
  /\ req[r].op \in {"regenerate", "claim"} /\ unlock(r)
  /\ req' = [req EXCEPT ![r] = Idle]
  /\ UNCHANGED <<srv, tables, content, row_lock>>

Hydrate ==
  /\ srv = "starting" /\ srv' = "running" /\ live' = file
  /\ UNCHANGED <<holder, tables, file, row_lock, req>>
StartReverted ==
  /\ srv = "starting" /\ srv' = "rest"
  /\ UNCHANGED <<holder, tables, content, row_lock, req>>
\* The final snapshot publishes the worker's copy over the store's.
Stop ==
  /\ srv = "running" /\ srv' = "rest" /\ file' = live /\ live' = {}
  /\ UNCHANGED <<holder, tables, row_lock, req>>

Init ==
  /\ GateInit
  /\ players = [g \in Groups |-> {}] /\ lost = FALSE
  /\ attached = {} /\ mark = "none" /\ file = {} /\ live = {}
  /\ row_lock = [g \in Groups |-> NoOne] /\ req = [r \in Requests |-> Idle]

\* The endpoints of servers/api/groups.py.
post_players(r, g) == \E p \in Players: AddPlayer(r, g, p)
delete_players(r, g) == \E p \in Players: RemovePlayer(r, g, p)
GroupRequest(r, g) ==
  \/ CreateGroup(r, g) \/ RenameGroup(r, g) \/ DeleteGroup(r, g)
  \/ post_players(r, g) \/ delete_players(r, g)
  \/ AttachGroup(r, g) \/ DetachGroup(r, g)
Transaction(r) == TakeLock(r) \/ CommitEdit(r) \/ CommitRename(r) \/ CommitDelete(r) \/ RollBack(r)
Sync(r) == SyncReads(r) \/ SyncWrites(r) \/ Unlocks(r) \/ SyncFails(r)
Start(r) == StartReads(r) \/ regenerate_pending_group_files(r) \/ StartCommits(r) \/ StartFails(r)

Next ==
  \/ \E r \in Requests: Transaction(r) \/ Sync(r) \/ Start(r) \/ \E g \in Groups: GroupRequest(r, g)
  \/ Hydrate \/ StartReverted \/ Stop

Spec == Init /\ [][Next]_vars

-----------------------------------------------------------------------------
(* Properties *)

\* A server that is owed nothing has, in the copy it runs with or will start with,
\* exactly the players of the groups attached to it: no change made while it ran, at
\* rest, during its start or by a sync that failed is ever forgotten
\* (mark_sync_pending in the change's own transaction, its token, and
\* lock_against_attach).  An edit that was lost (EditsKept) is excepted.
OwedOrApplied ==
  mark = "none" /\ ~lost
    => (IF srv = "running" THEN live ELSE file) = merge_players

\* GroupRepository.save says that of two interleaved edits of a group one is refused
\* as an edit conflict, so every edit that was answered as done is in the group.
EditsKept == ~lost
=============================================================================
