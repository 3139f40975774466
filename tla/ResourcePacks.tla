---------------------------- MODULE ResourcePacks ----------------------------
(* Resource packs: uploaded once, assigned to servers, deleted when no server *)
(* has them (servers/application/resource_packs.py and its repository and     *)
(* store).  A pack is a row and a blob; an assignment is a row that refers to *)
(* the pack's, and lines of server.properties that name it.                   *)
(*                                                                            *)
(* The database's part is its foreign key: an insert shares the pack's row,   *)
(* a delete locks it alone and looks for rows that refer to it, and whoever   *)
(* comes second waits or is refused.                                          *)
EXTENDS Integers, FiniteSets

CONSTANTS
  Packs, Servers, Requests,
  None,
  MaxRequests   \* bound: requests made

VARIABLES
  rows,        \* packs with a row
  blobs,       \* packs with a blob
  used,        \* ids ever given out
  assignment,  \* server -> pack, or None, as committed
  props,       \* server -> the pack its server.properties names, or None
  running,
  req,         \* request -> what it is doing, or None
  made,
  torn         \* history: servers whose file was written in a transaction that failed

vars == <<rows, blobs, used, assignment, props, running, req, made, torn>>

Active == {r \in Requests: req[r] # None}
At(r, op, step) == req[r] # None /\ IF req[r] = None THEN FALSE ELSE req[r].op = op /\ req[r].step = step
Begin(r, op, p, s) ==
  /\ req[r] = None /\ made < MaxRequests /\ made' = made + 1
  /\ req' = [req EXCEPT ![r] = [op |-> op, step |-> "begin", p |-> p, s |-> s]]
Goto(r, step) == req' = [req EXCEPT ![r].step = step]
Answer(r) == req' = [req EXCEPT ![r] = None]

\* The lifecycle lock of s is held.
Held(s) == \E r \in Active: req[r].s = s

-----------------------------------------------------------------------------
(* The repository *)

\* Requests in a transaction that refers to pack p, and that has deleted its row.
Sharers(p) == {r \in Active: req[r].op = "assign" /\ req[r].step \in {"write", "commit"} /\ req[r].p = p}
Deleter(p) == {r \in Active: req[r].op = "delete" /\ req[r].step = "commit" /\ req[r].p = p}
\* Assignments of p, and those another transaction is about to replace.
list_assignments_for_pack(p) == {s \in Servers: assignment[s] = p}
Changing(p) == {r \in Active: req[r].step \in {"write", "commit"} /\ req[r].op \in {"assign", "unassign"} /\ assignment[req[r].s] = p}

\* Defect: nothing ties an assignment to its pack's row.
DeletesUntied(r) == TRUE
\* delete: it waits for those who share the row or change an assignment of it.
DeleteWaits(r) == Sharers(req[r].p) = {} /\ Changing(req[r].p) = {}
Restricted(p) == list_assignments_for_pack(p) # {}

-----------------------------------------------------------------------------
(* Uploading and deleting *)

UploadResourcePack(r, p) ==
  /\ p \notin used /\ used' = used \cup {p} /\ Begin(r, "upload", p, None)
  /\ UNCHANGED <<rows, blobs, assignment, props, running, torn>>
put(r) ==
  /\ At(r, "upload", "begin") /\ blobs' = blobs \cup {req[r].p} /\ Goto(r, "add")
  /\ UNCHANGED <<rows, used, assignment, props, running, made, torn>>
add(r) ==
  /\ At(r, "upload", "add") /\ rows' = rows \cup {req[r].p} /\ Answer(r)
  /\ UNCHANGED <<blobs, used, assignment, props, running, made, torn>>

DeleteResourcePack(r, p) ==
  /\ p \in rows /\ list_assignments_for_pack(p) = {} /\ Begin(r, "delete", p, None)
  /\ UNCHANGED <<rows, blobs, used, assignment, props, running, torn>>
delete(r) ==
  /\ At(r, "delete", "begin") /\ DeleteWaits(r) /\ Deleter(req[r].p) = {}
  /\ IF Restricted(req[r].p) \/ req[r].p \notin rows THEN Answer(r) ELSE Goto(r, "commit")
  /\ UNCHANGED <<rows, blobs, used, assignment, props, running, made, torn>>
DeleteCommits(r) ==
  /\ At(r, "delete", "commit") /\ rows' = rows \ {req[r].p} /\ Goto(r, "blob")
  /\ UNCHANGED <<blobs, used, assignment, props, running, made, torn>>
delete_blob(r) ==
  /\ At(r, "delete", "blob") /\ blobs' = blobs \ {req[r].p} /\ Answer(r)
  /\ UNCHANGED <<rows, used, assignment, props, running, made, torn>>

-----------------------------------------------------------------------------
(* Assigning *)

load_server_at_rest(s) == s \notin running /\ ~Held(s)

AssignResourcePack(r, s, p) ==
  /\ load_server_at_rest(s) /\ p \in rows /\ Begin(r, "assign", p, s)
  /\ UNCHANGED <<rows, blobs, used, assignment, props, running, torn>>
\* delete_assignment, then the insert's flush: refused if the pack has gone.
add_assignment(r) ==
  /\ At(r, "assign", "begin") /\ Deleter(req[r].p) = {}
  /\ IF req[r].p \in rows THEN Goto(r, "write") ELSE Answer(r)
  /\ UNCHANGED <<rows, blobs, used, assignment, props, running, made, torn>>

UnassignResourcePack(r, s) ==
  /\ load_server_at_rest(s) /\ assignment[s] # None /\ Begin(r, "unassign", None, s)
  /\ UNCHANGED <<rows, blobs, used, assignment, props, running, torn>>

\* The file, and then the commit.
WriteProperties(r) ==
  /\ At(r, "assign", "write") \/ At(r, "unassign", "begin")
  /\ props' = [props EXCEPT ![req[r].s] = req[r].p] /\ Goto(r, "commit")
  /\ UNCHANGED <<rows, blobs, used, assignment, running, made, torn>>
AssignCommits(r) ==
  /\ At(r, "assign", "commit") \/ At(r, "unassign", "commit")
  /\ assignment' = [assignment EXCEPT ![req[r].s] = req[r].p] /\ Answer(r)
  /\ torn' = torn \ {req[r].s}
  /\ UNCHANGED <<rows, blobs, used, props, running, made>>

\* A call fails, a deadlock is broken, or the process ends.
Fails(r) ==
  /\ req[r] # None /\ Answer(r)
  /\ torn' = IF req[r].op \in {"assign", "unassign"} /\ req[r].step = "commit" THEN torn \cup {req[r].s} ELSE torn
  /\ UNCHANGED <<rows, blobs, used, assignment, props, running, made>>

\* DownloadResourcePack, public or not: the row, the size, the stream.
DownloadResourcePack(r, p) ==
  /\ p \in rows /\ Begin(r, "download", p, None)
  /\ UNCHANGED <<rows, blobs, used, assignment, props, running, torn>>
size(r) ==
  /\ At(r, "download", "begin") /\ (IF req[r].p \in blobs THEN Goto(r, "stream") ELSE Answer(r))
  /\ UNCHANGED <<rows, blobs, used, assignment, props, running, made, torn>>
Streamed(r) ==
  /\ At(r, "download", "stream") /\ Answer(r)
  /\ UNCHANGED <<rows, blobs, used, assignment, props, running, made, torn>>

StartServer(s) ==
  /\ s \notin running /\ ~Held(s) /\ running' = running \cup {s}
  /\ UNCHANGED <<rows, blobs, used, assignment, props, req, made, torn>>
StopServer(s) ==
  /\ s \in running /\ running' = running \ {s}
  /\ UNCHANGED <<rows, blobs, used, assignment, props, req, made, torn>>

Init ==
  /\ rows = {} /\ blobs = {} /\ used = {} /\ assignment = [s \in Servers |-> None]
  /\ props = [s \in Servers |-> None] /\ running = {} /\ req = [r \in Requests |-> None] /\ made = 0 /\ torn = {}

Next ==
  \/ \E r \in Requests, p \in Packs:
       \/ UploadResourcePack(r, p) \/ DeleteResourcePack(r, p) \/ DownloadResourcePack(r, p)
       \/ \E s \in Servers: AssignResourcePack(r, s, p)
  \/ \E r \in Requests:
       \/ put(r) \/ add(r) \/ delete(r) \/ DeleteCommits(r) \/ delete_blob(r) \/ add_assignment(r)
       \/ WriteProperties(r) \/ AssignCommits(r) \/ Fails(r) \/ size(r) \/ Streamed(r)
       \/ \E s \in Servers: UnassignResourcePack(r, s)
  \/ \E s \in Servers: StartServer(s) \/ StopServer(s)

Spec == Init /\ [][Next]_vars

-----------------------------------------------------------------------------
\* A pack that a server is assigned is there to be downloaded, row and blob, whoever
\* deletes packs meanwhile; and a running server's file names the pack it is
\* assigned, unless the request that wrote the file failed to commit.
PacksServed ==
  /\ rows \subseteq blobs
  /\ \A s \in Servers: assignment[s] # None => assignment[s] \in rows
  /\ \A s \in running \ torn: props[s] = assignment[s]
=============================================================================
