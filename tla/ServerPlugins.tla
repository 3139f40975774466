---------------------------- MODULE ServerPlugins ----------------------------
(* The plugins and mods of one server: their rows, their jars in the working  *)
(* set and the content-addressed cache the jars come from                     *)
(* (servers/application/plugins.py, catalog.py, plugin_cache*.py, and the     *)
(* reconciliation after a restore in backups.py).                             *)
(*                                                                            *)
(* A jar is named, is enabled or carries the .disabled suffix, and is told    *)
(* apart by its content.  One catalog project is modelled: each content is a  *)
(* version of it.  Every mutation commits the row first and then brings the   *)
(* working set in line; either may fail.                                      *)
EXTENDS Integers, FiniteSets, Sequences, LifecycleGate

CONSTANTS
  Ids,        \* plugin rows
  Names,      \* file names
  Contents,   \* jar contents, positive integers
  Nothing,    \* no row, no file
  MaxRequests \* bound: requests made

VARIABLES
  rows,    \* id -> row, or Nothing
  disk,    \* <<name, suffix>> -> content, or Nothing
  cache,   \* content -> "none", "fresh" (inside GC's safety window) or "old"
  gc,      \* the blobs the garbage collector is about to check again or delete
  req,     \* each request
  served,  \* the number of requests made
  torn,    \* history: a request stopped between its commit and its last file call
  reused,  \* history: contents taken from an old blob, without a new upload
  odd      \* history: "stale" once an update was committed over a row that had changed,
           \* "client" once a restore has left a client-only jar in the working set

vars == <<srv, holder, rows, disk, cache, gc, req, served, torn, reused, odd>>

Paths == Names \X {"jar", "disabled"}
Idle == [op |-> "idle", id |-> Nothing, row |-> Nothing, new |-> Nothing, todo |-> <<>>]

-----------------------------------------------------------------------------
(* Rows and where their jars belong *)

Clean(path) == <<path[1], "jar">>
Row(name, side, content, catalog) ==
  [rel_path |-> <<name, "jar">>, enabled |-> TRUE, side |-> side, content |-> content, catalog |-> catalog]

\* working_set_path: a client-only jar has no file.
working_set_path(row) ==
  IF row.side = "client" THEN Nothing ELSE <<row.rel_path[1], IF row.enabled THEN "jar" ELSE "disabled">>

\* The row records that path, or the clean one for a client-only jar.
Recorded(row) ==
  [row EXCEPT !.rel_path = IF working_set_path(row) = Nothing THEN Clean(@) ELSE working_set_path(row)]

Live == {id \in Ids: rows[id] # Nothing}

\* get_by_rel_path finds the enabled and the disabled spelling; the exact one wins.
Spelled(path) == {id \in Live: Clean(rows[id].rel_path) = Clean(path)}
Exactly(path) == {id \in Live: rows[id].rel_path = path}
get_by_rel_path(path) == IF Exactly(path) # {} THEN Exactly(path) ELSE Spelled(path)
get_by_source_project_id == {id \in Live: rows[id].catalog}

Free(id, path) == get_by_rel_path(path) = {} \/ id \in get_by_rel_path(path)

-----------------------------------------------------------------------------
(* The cache *)

\* ObjectPluginCacheStore.put skips the upload of a blob that is there, and its
\* age stays what it was.
ingest_into_cache(c) ==
  /\ cache' = IF cache[c] = "none" THEN [cache EXCEPT ![c] = "fresh"] ELSE cache
  /\ reused' = IF cache[c] = "old" THEN reused \cup {c} ELSE reused

InFlight(c) == \E r \in Requests: req[r] # Idle /\ req[r].new # Nothing /\ req[r].new.content = c

\* The safety window is beyond the time an install takes (plugin_cache_gc.py).
Ages ==
  /\ \E c \in Contents: cache[c] = "fresh" /\ ~InFlight(c) /\ cache' = [cache EXCEPT ![c] = "old"]
  /\ UNCHANGED <<srv, holder, rows, disk, gc, req, served, torn, reused, odd>>

all_sha256s == {rows[id].content: id \in Live}

collectable(c) == cache[c] = "old" /\ c \notin all_sha256s

\* RunPluginCacheGc: a listing; a second look at the rows; the deletion.
GcLists ==
  /\ gc = Nothing /\ \E c \in Contents: collectable(c) /\ gc' = [c |-> c, sure |-> FALSE]
  /\ UNCHANGED <<srv, holder, rows, disk, cache, req, served, torn, reused, odd>>
GcLooksAgain ==
  /\ gc # Nothing /\ ~gc.sure
  /\ gc' = IF gc.c \in all_sha256s THEN Nothing ELSE [gc EXCEPT !.sure = TRUE]
  /\ UNCHANGED <<srv, holder, rows, disk, cache, req, served, torn, reused, odd>>
GcDeletes ==
  /\ gc # Nothing /\ gc.sure
  /\ cache' = [cache EXCEPT ![gc.c] = "none"] /\ gc' = Nothing
  /\ UNCHANGED <<srv, holder, rows, disk, req, served, torn, reused, odd>>

-----------------------------------------------------------------------------
(* Requests, up to the lock *)

Serves == served < MaxRequests /\ served' = served + 1

Begin(r, q) ==
  /\ req[r] = Idle /\ req' = [req EXCEPT ![r] = q] /\ Serves
  /\ UNCHANGED <<srv, holder, rows, disk, gc, torn, odd>>

\* InstallFromCatalog and UpdatePlugin fetch the version before they take the lock;
\* an update has read its row by then.
InstallFromCatalog(r, name, side, c) ==
  /\ ingest_into_cache(c)
  /\ Begin(r, [Idle EXCEPT !.op = "install", !.new = Row(name, side, c, TRUE)])
UpdatePlugin(r, id, name, c) ==
  /\ id \in Live /\ rows[id].catalog /\ ingest_into_cache(c)
  /\ Begin(r, [Idle EXCEPT !.op = "update", !.id = id, !.row = rows[id],
                           !.new = Recorded([rows[id] EXCEPT !.rel_path = <<name, "jar">>, !.content = c])])

Admit(r, steps) ==
  /\ hold(r) /\ is_at_rest
  /\ req' = [req EXCEPT ![r].op = "work", ![r].todo = steps]
  /\ UNCHANGED <<srv, rows, disk, gc, served, torn>>

\* The rest take the lock at once.
Begins(r, steps, new) ==
  /\ req[r] = Idle /\ hold(r) /\ is_at_rest /\ Serves
  /\ req' = [req EXCEPT ![r] = [Idle EXCEPT !.op = "work", !.new = new, !.todo = steps]]
  /\ UNCHANGED <<srv, rows, disk, gc, torn, odd>>

-----------------------------------------------------------------------------
(* The steps under the lock: a commit, then the files *)

Insert(id, row) == [do |-> "insert", id |-> id, row |-> row]
Update(id, row) == [do |-> "update", id |-> id, row |-> row]
Delete(id) == [do |-> "delete", id |-> id]
Write(path, c) == [do |-> "write", path |-> path, content |-> c]
Unlink(path) == [do |-> "unlink", path |-> path]

\* Defect: the old file stays.
LeavesOld(row, current, desired) ==
  IF desired = Nothing THEN <<>> ELSE <<[do |-> "deploy", path |-> desired, content |-> row.content]>>

\* _reconcile_working_set: remove, write from the cache, or rename.
reconcile_working_set(row, current, desired) ==
  CASE current = desired -> <<>>
    [] desired = Nothing -> <<Unlink(current)>>
    [] current = Nothing -> <<[do |-> "deploy", path |-> desired, content |-> row.content]>>
    [] OTHER -> <<[do |-> "rename", path |-> current, to |-> desired, content |-> row.content]>>

WriteNew(row) == IF working_set_path(row) = Nothing THEN <<>> ELSE <<Write(working_set_path(row), row.content)>>

InstallPlugin(r, id, name, side, c) ==
  /\ rows[id] = Nothing /\ get_by_rel_path(<<name, "jar">>) = {}
  /\ ingest_into_cache(c)
  /\ Begins(r, <<Insert(id, Row(name, side, c, FALSE))>> \o WriteNew(Row(name, side, c, FALSE)), Row(name, side, c, FALSE))

AdmitInstall(r, id) ==
  LET new == req[r].new
  IN  /\ req[r].op = "install" /\ rows[id] = Nothing
      /\ get_by_rel_path(new.rel_path) = {} /\ get_by_source_project_id = {}
      /\ Admit(r, <<Insert(id, new)>> \o WriteNew(new)) /\ UNCHANGED <<cache, reused, odd>>

\* The update's UPDATE matches no row if the plugin is gone; the file is written all
\* the same.  Paths and flags are those of the row read before the lock.
AdmitUpdate(r) ==
  LET q == req[r]
      old == working_set_path(q.row)
      new == working_set_path(q.new)
  IN  /\ q.op = "update"
      /\ new # Nothing /\ new # old => Free(q.id, new)
      /\ Admit(r, <<Update(q.id, q.new)>> \o WriteNew(q.new)
                    \o (IF old # Nothing /\ old # new THEN <<Unlink(old)>> ELSE <<>>))
      /\ odd' = odd \cup {o \in {"stale"}: rows[q.id] # q.row}
      /\ UNCHANGED <<cache, reused>>

RemovePlugin(r, id) ==
  /\ id \in Live
  /\ Begins(r, <<Delete(id), Unlink(rows[id].rel_path)>>, Nothing) /\ UNCHANGED <<cache, reused>>

\* TogglePlugin and SetPluginSide.
Change(r, id, changed) ==
  LET row == Recorded(changed)
      current == working_set_path(rows[id])
      desired == working_set_path(row)
  IN  /\ changed # rows[id]
      /\ desired # Nothing /\ desired # current => Free(id, desired)
      /\ Begins(r, <<Update(id, row)>> \o reconcile_working_set(row, current, desired), row)
      /\ UNCHANGED <<cache, reused>>
TogglePlugin(r, id, enable) == id \in Live /\ Change(r, id, [rows[id] EXCEPT !.enabled = enable])
SetPluginSide(r, id, side) == id \in Live /\ Change(r, id, [rows[id] EXCEPT !.side = side])

\* RestoreBackup: an archived content directory is published, then reconciled.
RestoreBackup(r, restored) ==
  Begins(r, <<[do |-> "publish", disk |-> restored], [do |-> "reconcile"]>>, Nothing) /\ UNCHANGED <<cache, reused>>

-----------------------------------------------------------------------------
(* backups._reconcile_plugins, one transaction *)

OnDisk == {p \in Paths: disk[p] # Nothing}
Orphans == {id \in Live: rows[id].side # "client" /\ rows[id].rel_path \notin OnDisk}
Ghosts == {p \in OnDisk: \A id \in Live: rows[id].rel_path # p}
Kept == Live \ Orphans

\* A jar of unknown origin takes its side from its manifest, and its provenance from
\* a row with the same content.
ingest_ghost(path, side) ==
  [rel_path |-> path, enabled |-> path[2] = "jar", side |-> side, content |-> disk[path],
   catalog |-> \E id \in Kept: rows[id].catalog /\ rows[id].content = disk[path]]

\* A row whose jar has another content than it recorded.
Shifted(row, side) ==
  IF row.rel_path \in OnDisk /\ disk[row.rel_path] # row.content
  THEN [row EXCEPT !.content = disk[row.rel_path], !.side = side] ELSE row

ClientJarDeployed(tables) ==
  \E table \in tables, id \in Ids: table[id] # Nothing /\ table[id].side = "client" /\ table[id].rel_path \in OnDisk

reconcile_plugins ==
  \E place \in [Ghosts -> Ids \ Kept], side \in [Contents -> {"both", "client"}]:
    /\ \A p, q \in Ghosts: p # q => place[p] # place[q]
    /\ rows' = [id \in Ids |->
         IF id \in Kept THEN Shifted(rows[id], side[rows[id].content])
         ELSE IF \E p \in Ghosts: place[p] = id
              THEN LET p == CHOOSE p \in Ghosts: place[p] = id IN ingest_ghost(p, side[disk[p]])
              ELSE Nothing]
    /\ LET ingested == {disk[p]: p \in OnDisk}
       IN  /\ cache' = [c \in Contents |-> IF c \in ingested /\ cache[c] = "none" THEN "fresh" ELSE cache[c]]
           /\ reused' = reused \cup {c \in ingested: cache[c] = "old"}

-----------------------------------------------------------------------------
(* Progress, failure and the server *)

\* A rename that misses its source is made good from the cache, like a deploy.
Call(s) ==
  CASE s.do = "insert" -> rows' = [rows EXCEPT ![s.id] = s.row] /\ UNCHANGED <<disk, cache, reused>>
    [] s.do = "update" -> /\ Exactly(s.row.rel_path) \subseteq {s.id}
                          /\ rows' = [rows EXCEPT ![s.id] = IF @ = Nothing THEN Nothing ELSE s.row]
                          /\ UNCHANGED <<disk, cache, reused>>
    [] s.do = "delete" -> rows' = [rows EXCEPT ![s.id] = Nothing] /\ UNCHANGED <<disk, cache, reused>>
    [] s.do = "write" -> disk' = [disk EXCEPT ![s.path] = s.content] /\ UNCHANGED <<rows, cache, reused>>
    [] s.do = "unlink" -> disk' = [disk EXCEPT ![s.path] = Nothing] /\ UNCHANGED <<rows, cache, reused>>
    [] s.do = "deploy" -> /\ cache[s.content] # "none" /\ disk' = [disk EXCEPT ![s.path] = s.content]
                          /\ UNCHANGED <<rows, cache, reused>>
    [] s.do = "rename" -> /\ disk[s.path] # Nothing \/ cache[s.content] # "none"
                          /\ disk' = [disk EXCEPT ![s.to] = IF disk[s.path] = Nothing THEN s.content ELSE disk[s.path],
                                                  ![s.path] = Nothing]
                          /\ UNCHANGED <<rows, cache, reused>>
    [] s.do = "publish" -> disk' = s.disk /\ UNCHANGED <<rows, cache, reused>>
    [] s.do = "reconcile" -> reconcile_plugins /\ UNCHANGED disk

Proceed(r) ==
  /\ holder = r /\ req[r].todo # <<>>
  /\ Call(Head(req[r].todo))
  /\ req' = [req EXCEPT ![r].todo = Tail(@)]
  /\ odd' = odd \cup {o \in {"client"}: Head(req[r].todo).do = "reconcile" /\ ClientJarDeployed({rows, rows'})}
  /\ UNCHANGED <<srv, holder, gc, served, torn>>

Finish(r) ==
  /\ holder = r /\ req[r].todo = <<>> /\ unlock(r) /\ req' = [req EXCEPT ![r] = Idle]
  /\ UNCHANGED <<srv, rows, disk, cache, gc, served, torn, reused, odd>>

\* A refusal, a failed call or a crash: what is done stays.
Abandon(r) ==
  /\ req[r] # Idle /\ (req[r].todo # <<>> \/ holder # r)
  /\ holder' = (IF holder = r THEN NoOne ELSE holder)
  /\ torn' = (torn \/ (holder = r /\ Head(req[r].todo).do \notin {"insert", "update", "delete", "publish"}))
  /\ req' = [req EXCEPT ![r] = Idle]
  /\ UNCHANGED <<srv, rows, disk, cache, gc, served, reused, odd>>

Start == StartClaims /\ UNCHANGED <<rows, disk, cache, gc, req, served, torn, reused, odd>>
Stop == srv = "starting" /\ srv' = "rest" /\ UNCHANGED <<holder, rows, disk, cache, gc, req, served, torn, reused, odd>>

Init ==
  /\ GateInit
  /\ rows = [id \in Ids |-> Nothing] /\ disk = [p \in Paths |-> Nothing]
  /\ cache = [c \in Contents |-> "none"] /\ gc = Nothing /\ served = 0
  /\ req = [r \in Requests |-> Idle] /\ torn = FALSE /\ reused = {} /\ odd = {}

\* The endpoints (servers/api/plugins.py, catalog.py, backups.py).
Sides == {"both", "client"}
post_plugins(r) == \E id \in Ids, name \in Names, side \in Sides, c \in Contents: InstallPlugin(r, id, name, side, c)
post_catalog_install(r) == \E name \in Names, side \in Sides, c \in Contents: InstallFromCatalog(r, name, side, c)
post_update(r) == \E id \in Ids, name \in Names, c \in Contents: UpdatePlugin(r, id, name, c)
delete_plugins(r) == \E id \in Ids: RemovePlugin(r, id)
post_enable(r) == \E id \in Ids: TogglePlugin(r, id, TRUE)
post_disable(r) == \E id \in Ids: TogglePlugin(r, id, FALSE)
put_side(r) == \E id \in Ids, side \in Sides: SetPluginSide(r, id, side)
\* At most one archived jar, of any name, spelling and content.
post_restore(r) ==
  \E p \in Paths, c \in Contents \cup {Nothing}:
    RestoreBackup(r, [q \in Paths |-> IF q = p THEN c ELSE Nothing])

Arrives(r) ==
  \/ post_catalog_install(r) \/ post_update(r)
  \/ /\ holder = NoOne
     /\ \/ post_plugins(r) \/ delete_plugins(r) \/ post_enable(r) \/ post_disable(r) \/ put_side(r)
        \/ post_restore(r) \/ AdmitUpdate(r) \/ \E id \in Ids: AdmitInstall(r, id)

Next ==
  \/ \E r \in Requests: Arrives(r) \/ Proceed(r) \/ Finish(r) \/ Abandon(r)
  \/ Ages \/ GcLists \/ GcLooksAgain \/ GcDeletes \/ Start \/ Stop

Spec == Init /\ [][Next]_vars

-----------------------------------------------------------------------------
(* Properties *)

\* Every server-side row has its jar at its path, and every jar in the working set has
\* the row that names its path.
Deployed == \A id \in Live: working_set_path(rows[id]) # Nothing => disk[working_set_path(rows[id])] = rows[id].content
Tracked == \A p \in OnDisk: \E id \in Live: rows[id].rel_path = p

\* Whatever is installed, toggled, moved to another side, updated, removed or restored
\* in whichever order, rows and jars agree once no request holds the server, unless
\* one was cut off or an update overwrote a row that had changed under it
\* (working_set_path as the single source of truth).
JarsMatchRows == holder = NoOne /\ ~torn /\ odd = {} => Deployed /\ Tracked

\* The blob a row refers to is in the cache, so a jar that comes back to the working set
\* can be written: the garbage collector never takes a blob between its upload and the
\* commit of the row it was uploaded for.  A blob that was only reused has no such
\* protection.
BlobsKept == all_sha256s \subseteq {c \in Contents: cache[c] # "none"} \cup reused
=============================================================================
