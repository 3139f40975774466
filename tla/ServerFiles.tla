----------------------------- MODULE ServerFiles -----------------------------
(* The files of one server and the platform's own keys in its                 *)
(* server.properties: what a user may change (servers/application/files.py),  *)
(* what the platform writes (manage_server.py, resource_packs.py, the restore *)
(* of backups.py) and what the store does (storage/adapters/fs.py).           *)
(*                                                                            *)
(* A file is told apart by the platform-managed values in it: the game port   *)
(* and the resource pack (0: the key is absent).  A use case checks its       *)
(* guards under the lifecycle lock and is then a sequence of store calls and  *)
(* commits, any of which may fail or be cut off by a crash.                   *)
EXTENDS Integers, Sequences, SequencesExt, LifecycleGate

CONSTANTS
  Ports,       \* game ports, positive
  None, Dir,   \* no entry at a path; a directory
  Retention    \* versions kept of a file (version_retention)

VARIABLES
  row,    \* the server's row: its port and its assigned pack
  tree,   \* the published working set, by path
  ring,   \* the retained versions of server.properties, oldest first
  live,   \* the worker's server.properties while it holds one
  req,    \* the store calls and commits each request has left
  torn    \* history: a platform write was cut short, and not made good since

vars == <<srv, holder, row, tree, ring, live, req, torn>>

-----------------------------------------------------------------------------
(* Paths and contents *)

Blank == [port |-> 0, pack |-> 0]
Contents == [port: Ports \cup {0}, pack: {0, 1}]

Props == "server.properties"
\* Where files are written: it, a child of it, a file of a directory that may be
\* renamed, a JAR of the content directory, and a name of the reserved prefix.
FilePaths == {Props, "server.properties/x", "box/a", "plugins/x.jar", ".mcsd_generation"}
DirPaths == {Props, "box", "crate", ".mcsd_generation"}
Paths == FilePaths \cup DirPaths \cup {"crate/a"}

parent(p) == CASE p = "server.properties/x" -> Props [] p = "box/a" -> "box"
               [] p = "crate/a" -> "crate" [] OTHER -> "."
child(d) == CASE d = Props -> "server.properties/x" [] d = "box" -> "box/a"
              [] d = "crate" -> "crate/a" [] OTHER -> "."

IsFile(t, p) == p # "." /\ t[p] \in Contents
path_is_dir(t, p) == p = "." \/ t[p] = Dir

\* files._guard_content_dir, _refuse_dir_at_root_properties, _refuse_reserved_root_name
guard_content_dir(p) == p # "plugins/x.jar"
dir_may_be(p) == p \notin {Props, "server.properties/x"}
reserved_root_name(p) == p = ".mcsd_generation"

current_properties(t) == IF IsFile(t, Props) THEN t[Props] ELSE Blank

\* Defect: the guard forgets the resource pack's keys.
KeepsPort(current, incoming) == incoming.port = current.port

\* files._refuse_platform_key_change: a write of the root server.properties keeps
\* the platform's keys as the copy it lands on has them.
keeps_platform_keys(current, incoming) == incoming = current

guard_at_rest_properties(t, p, incoming) ==
  p = Props => keeps_platform_keys(current_properties(t), incoming)

-----------------------------------------------------------------------------
(* The store's operations on the published tree *)

\* A missing parent is made; one that is a file is in the way (PathOccupied).
WithParent(t, p) == IF parent(p) = "." THEN t ELSE [t EXCEPT ![parent(p)] = Dir]
ParentFree(t, p) == parent(p) = "." \/ ~IsFile(t, parent(p))

Pruned(versions) == IF Len(versions) > Retention THEN Tail(versions) ELSE versions

capture_version(p) ==
  ring' = IF p = Props /\ IsFile(tree, Props) THEN Pruned(Append(ring, tree[Props])) ELSE ring

write_file(p, c) ==
  /\ ~path_is_dir(tree, p) /\ ParentFree(tree, p)
  /\ tree' = [WithParent(tree, p) EXCEPT ![p] = c]
  /\ capture_version(p)

delete_file(p) ==
  IsFile(tree, p) /\ tree' = [tree EXCEPT ![p] = None] /\ capture_version(p)

delete_dir(p) ==
  /\ tree[p] = Dir
  /\ tree' = [q \in Paths |-> IF q \in {p, child(p)} THEN None ELSE tree[q]]
  /\ UNCHANGED ring

rename_file(a, b) ==
  /\ IsFile(tree, a) /\ ParentFree(tree, b)
  /\ tree' = [WithParent(tree, b) EXCEPT ![a] = None, ![b] = tree[a]]
  /\ UNCHANGED ring

rename_dir(a, b) ==
  /\ tree[a] = Dir
  /\ tree' = [tree EXCEPT ![a] = None, ![child(a)] = None, ![b] = Dir, ![child(b)] = tree[child(a)]]
  /\ UNCHANGED ring

make_dir(p) ==
  ~IsFile(tree, p) /\ tree' = [tree EXCEPT ![p] = Dir] /\ UNCHANGED ring

retain_file_version ==
  /\ ring' = IF IsFile(tree, Props) /\ (ring = <<>> \/ Last(ring) # tree[Props])
             THEN Pruned(Append(ring, tree[Props])) ELSE ring
  /\ UNCHANGED tree

-----------------------------------------------------------------------------
(* Requests: the user's *)

Idle == [todo |-> <<>>, platform |-> FALSE, begun |-> FALSE]
Enter(r, todo) ==
  /\ hold(r)
  /\ req' = [req EXCEPT ![r] = [Idle EXCEPT !.todo = todo]]
  /\ UNCHANGED <<srv, row, tree, ring, live, torn>>
EnterPlatform(r, todo) ==
  /\ hold(r)
  /\ req' = [req EXCEPT ![r] = [todo |-> todo, platform |-> TRUE, begun |-> FALSE]]
  /\ UNCHANGED <<srv, row, tree, ring, live, torn>>

WriteFile(r, p, c) ==
  /\ dir_may_be(parent(p)) /\ ~reserved_root_name(p) /\ guard_content_dir(p)
  /\ is_at_rest /\ guard_at_rest_properties(tree, p, c)
  /\ Enter(r, <<[do |-> "write", path |-> p, content |-> c]>>)

\* A running server is edited on its worker, after the store's copy is retained;
\* the guard is against the worker's copy.
WriteLiveFile(r, c) ==
  /\ srv = "running" /\ keeps_platform_keys(IF live = None THEN Blank ELSE live, c)
  /\ Enter(r, <<[do |-> "retain"], [do |-> "edit", content |-> c]>>)

RollbackFile(r, p, c) ==
  /\ ~reserved_root_name(p) /\ is_at_rest
  /\ p = Props /\ c \in ToSet(ring)
  /\ keeps_platform_keys(current_properties(tree), c)
  /\ Enter(r, <<[do |-> "write", path |-> p, content |-> c]>>)

\* An upload, or the entries of an archive: every entry is checked before the
\* first is written.
UploadFile(r, entries) ==
  /\ is_at_rest
  /\ \A i \in DOMAIN entries:
       LET p == entries[i].path
       IN  /\ guard_content_dir(p) /\ dir_may_be(parent(p)) /\ ~reserved_root_name(p)
           /\ guard_at_rest_properties(tree, p, entries[i].content)
  /\ Enter(r, entries)

DeleteFile(r, p) ==
  /\ is_at_rest /\ guard_content_dir(p)
  /\ IF path_is_dir(tree, p) THEN Enter(r, <<[do |-> "rmtree", path |-> p]>>)
     ELSE /\ IsFile(tree, p) /\ guard_at_rest_properties(tree, p, Blank)
          /\ Enter(r, <<[do |-> "unlink", path |-> p]>>)

MakeDir(r, p) ==
  /\ dir_may_be(p) /\ ~reserved_root_name(p) /\ is_at_rest
  /\ Enter(r, <<[do |-> "mkdir", path |-> p]>>)

RenameFile(r, a, b) ==
  /\ ~reserved_root_name(b) /\ is_at_rest /\ a # b
  /\ guard_content_dir(a) /\ guard_content_dir(b)
  /\ tree[a] # None /\ tree[b] = None
  /\ IF path_is_dir(tree, a) THEN /\ dir_may_be(b) /\ {a, b} \subseteq DirPaths
                                  /\ Enter(r, <<[do |-> "mvdir", path |-> a, to |-> b]>>)
     ELSE /\ dir_may_be(parent(b)) /\ b \in FilePaths
          /\ guard_at_rest_properties(tree, a, Blank)
          /\ guard_at_rest_properties(tree, b, tree[a])
          /\ Enter(r, <<[do |-> "mv", path |-> a, to |-> b]>>)

-----------------------------------------------------------------------------
(* Requests: the platform's own writes *)

\* UpdateServer with a new port: refused while there is no file to rewrite, then
\* the row, then the file.
UpdatePort(r, port) ==
  /\ is_at_rest /\ port # row.port /\ IsFile(tree, Props)
  /\ EnterPlatform(r, <<[do |-> "commit", row |-> [row EXCEPT !.port = port]], [do |-> "setPort"]>>)

\* UpdateServer with new overrides: a missing file is made with the platform's keys.
UpdateOverrides(r) ==
  is_at_rest /\ EnterPlatform(r, <<[do |-> IF IsFile(tree, Props) THEN "override" ELSE "apply"]>>)

\* The file is written before the assignment commits.
AssignResourcePack(r) ==
  /\ is_at_rest
  /\ EnterPlatform(r, <<[do |-> "setPack"], [do |-> "commit", row |-> [row EXCEPT !.pack = 1]]>>)

UnassignResourcePack(r) ==
  /\ is_at_rest /\ row.pack = 1
  /\ EnterPlatform(r,
       (IF IsFile(tree, Props) THEN <<[do |-> "clearPack"]>> ELSE <<>>)
         \o <<[do |-> "commit", row |-> [row EXCEPT !.pack = 0]]>>)

\* RestoreBackup: an older working set is published, then the platform's keys are
\* written into it again.
RestoreBackup(r, c) ==
  is_at_rest /\ EnterPlatform(r, <<[do |-> "publish", content |-> c], [do |-> "apply"]>>)

-----------------------------------------------------------------------------
(* The steps of a request *)

FileOf(c) == write_file(Props, c)

SetPort == FileOf([current_properties(tree) EXCEPT !.port = row.port])
SetPack == FileOf(IF IsFile(tree, Props) THEN [tree[Props] EXCEPT !.pack = 1]
                  ELSE [port |-> row.port, pack |-> 1])
ClearPack == FileOf([tree[Props] EXCEPT !.pack = 0])
apply_platform == FileOf([port |-> row.port, pack |-> row.pack])

Publish(c) ==
  tree' = [p \in Paths |-> CASE p = Props -> c [] p = "plugins/x.jar" -> tree[p] [] OTHER -> None]
  /\ UNCHANGED ring

Call(s) ==
  CASE s.do = "write" -> write_file(s.path, s.content)
    [] s.do = "unlink" -> delete_file(s.path)
    [] s.do = "rmtree" -> delete_dir(s.path)
    [] s.do = "mkdir" -> make_dir(s.path)
    [] s.do = "mv" -> rename_file(s.path, s.to)
    [] s.do = "mvdir" -> rename_dir(s.path, s.to)
    [] s.do = "retain" -> retain_file_version
    [] s.do = "setPort" -> SetPort
    [] s.do = "setPack" -> SetPack
    [] s.do = "clearPack" -> ClearPack
    [] s.do = "apply" -> apply_platform
    [] s.do = "override" -> FileOf(tree[Props])
    [] s.do = "publish" -> Publish(s.content)
    [] OTHER -> UNCHANGED <<tree, ring>>

\* EditFile on the worker fails once the server no longer runs there.
StepOK(s) ==
  /\ Call(s)
  /\ row' = IF s.do = "commit" THEN s.row ELSE row
  /\ live' = IF s.do = "edit" THEN s.content ELSE live
  /\ s.do = "edit" => srv = "running"
  /\ torn' = (torn /\ s.do # "apply")

Proceed(r) ==
  /\ holder = r /\ req[r].todo # <<>>
  /\ StepOK(Head(req[r].todo))
  /\ req' = [req EXCEPT ![r].todo = Tail(@), ![r].begun = TRUE]
  /\ UNCHANGED <<srv, holder>>

Finish(r) ==
  /\ holder = r /\ req[r].todo = <<>>
  /\ unlock(r) /\ req' = [req EXCEPT ![r] = Idle]
  /\ UNCHANGED <<srv, row, tree, ring, live, torn>>

\* A store call or a commit fails, or the process dies: what is done stays.
Abandon(r) ==
  /\ holder = r /\ req[r].todo # <<>>
  /\ LockLost
  /\ torn' = (torn \/ (req[r].platform /\ req[r].begun))
  /\ req' = [req EXCEPT ![r] = Idle]
  /\ UNCHANGED <<row, tree, ring, live>>

-----------------------------------------------------------------------------
(* The server's own steps *)

Start == StartClaims /\ UNCHANGED <<row, tree, ring, live, req, torn>>

\* The worker's copy has what the store had.
Hydrate ==
  /\ srv = "starting" /\ srv' = "running"
  /\ live' = tree[Props]
  /\ UNCHANGED <<holder, row, tree, ring, req, torn>>

\* The final snapshot publishes the worker's copy.
Stop ==
  /\ srv = "running" /\ srv' = "rest"
  /\ tree' = [tree EXCEPT ![Props] = live] /\ live' = None
  /\ UNCHANGED <<holder, row, ring, req, torn>>

\* CreateServer: the row is committed, then the file is seeded or that fails.
Init ==
  /\ GateInit
  /\ row \in [port: Ports, pack: {0}]
  /\ torn \in BOOLEAN
  /\ tree = [p \in Paths |-> IF p = Props /\ ~torn THEN row
                             ELSE IF p = "plugins/x.jar" THEN Blank ELSE None]
  /\ ring = <<>> /\ live = None
  /\ req = [r \in Requests |-> Idle]

\* The endpoints (servers/api/files.py, servers.py, resource_packs.py): any input
\* may arrive.
put_files(r) == \E p \in FilePaths, c \in Contents: WriteFile(r, p, c)
put_live_files(r) == \E c \in Contents: WriteLiveFile(r, c)
post_rollback(r) == \E c \in Contents: RollbackFile(r, Props, c)
post_upload(r) ==
  \E p \in FilePaths, c, d \in Contents:
    UploadFile(r, <<[do |-> "write", path |-> p, content |-> c], [do |-> "write", path |-> Props, content |-> d]>>)
delete_files(r) == \E p \in Paths: DeleteFile(r, p)
post_directories(r) == \E p \in DirPaths: MakeDir(r, p)
post_rename(r) == \E a, b \in Paths: RenameFile(r, a, b)
patch_server(r) == UpdateOverrides(r) \/ \E port \in Ports: UpdatePort(r, port)
put_resource_pack(r) == AssignResourcePack(r)
delete_resource_pack_assignment(r) == UnassignResourcePack(r)
post_restore(r) == \E c \in Contents \cup {None}: RestoreBackup(r, c)

Arrives(r) ==
  /\ holder = NoOne
  /\ \/ put_files(r) \/ put_live_files(r) \/ post_rollback(r) \/ post_upload(r) \/ delete_files(r)
     \/ post_directories(r) \/ post_rename(r) \/ patch_server(r) \/ put_resource_pack(r)
     \/ delete_resource_pack_assignment(r) \/ post_restore(r)

Request(r) == Arrives(r) \/ Proceed(r) \/ Finish(r) \/ Abandon(r)

Next == (\E r \in Requests: Request(r)) \/ Start \/ Hydrate \/ Stop

Spec == Init /\ [][Next]_vars

-----------------------------------------------------------------------------
(* Properties *)

TypeOK ==
  /\ srv \in {"rest", "starting", "running"} /\ holder \in Requests \cup {NoOne}
  /\ row \in [port: Ports, pack: {0, 1}]
  /\ tree \in [Paths -> Contents \cup {None, Dir}]
  /\ ring \in Seq(Contents) /\ Len(ring) <= Retention
  /\ live \in Contents \cup {None, Dir}
  /\ torn \in BOOLEAN

\* Whatever users write, upload, rename, delete or roll back, the copy the server
\* runs with has the row's port and pack once no request is at work, unless a
\* platform write was cut short; and server.properties is never a directory
\* (files._guard_at_rest_properties and the platform's own rewrites).
PlatformKeysAgree ==
  /\ ~path_is_dir(tree, Props)
  /\ holder = NoOne /\ ~torn => (IF srv = "running" THEN live ELSE tree[Props]) = row

\* Once a start has claimed the server, nothing is written to the store's tree until
\* the worker's copy comes back: no edit is silently lost under a running server
\* (every edit and the claim take the lifecycle lock).
NoEditUnderStart ==
  srv # "rest" /\ srv' # "rest" => tree' = tree
=============================================================================
