---------------------------- MODULE ServerRecords ----------------------------
(* The rows of the server table as requests create, import, edit, start, stop *)
(* and delete them (servers/application/manage_server.py, export_import.py,   *)
(* adapters/repositories.py), the Bedrock port that a Geyser plugin switches  *)
(* on, and the table of Bedrock tunnels that worker reports open and close    *)
(* (adapters/bedrock_tunnel_sync.py, fleet/adapters/relay_state.py).          *)
(*                                                                            *)
(* A request reads, decides, and writes back every editable column of the row *)
(* it has read; most hold the server's lifecycle lock in between.  Names,     *)
(* slugs and game ports are small numbers here, and so is the one setting     *)
(* that may be edited on a running server.  The contents of the working set   *)
(* are ServerFiles'; Geyser plugins are taken to be enabled.                  *)
EXTENDS Integers, FiniteSets

CONSTANTS
  Servers,      \* server ids
  Requests,
  Values,       \* names, slugs and game ports
  BedrockRange, \* the Bedrock ports of the deployment
  None,         \* no row, no port, no request
  MaxRequests,  \* bound: requests made
  MaxRestarts   \* bound: restarts of the API

VARIABLES
  rows,      \* server -> row, or None
  lock,      \* server -> the request that holds its lifecycle lock, or None
  req,       \* request -> what it is doing, or None
  tunnel,    \* server -> the Bedrock port of its tunnel, or None
  sync,      \* the worker report being handled, or None
  gate,      \* Bedrock is switched on for the deployment
  made, restarts,
  stale      \* history: servers whose setting a stop has written back from an old read

vars == <<rows, lock, req, tunnel, sync, gate, made, restarts, stale>>

Live == {s \in Servers: rows[s] # None}
list_game_ports == {rows[s].game_port: s \in Live}
list_slugs == {rows[s].slug: s \in Live}
list_bedrock_ports == {rows[s].bedrock_port: s \in Live} \ {None}
is_at_rest(s) == rows[s].state = "rest"

pick_lowest_free_port(range, taken) == CHOOSE p \in range \ taken: \A q \in range \ taken: p <= q

\* The unique constraints: what a flush or a commit refuses.
Unique(s, row) ==
  \A t \in Live \ {s}:
    /\ row.name # rows[t].name /\ row.game_port # rows[t].game_port /\ row.slug # rows[t].slug
    /\ row.bedrock_port # None => row.bedrock_port # rows[t].bedrock_port

\* SqlAlchemyServerRepository.update writes every editable column.
Write(s, row) ==
  [rows EXCEPT ![s] = [row EXCEPT !.state = rows[s].state]]

Begin(r, q) == req[r] = None /\ made < MaxRequests /\ made' = made + 1 /\ req' = [req EXCEPT ![r] = q]
Advance(r, step, row) == req' = [req EXCEPT ![r].step = step, ![r].row = row]
Answer(r) == req' = [req EXCEPT ![r] = None]
hold(r, s) == lock[s] = None /\ lock' = [lock EXCEPT ![s] = r]
release(s) == lock' = [lock EXCEPT ![s] = None]
At(r, op, step) == req[r] # None /\ req[r].op = op /\ req[r].step = step

Request(op, s, row, ask) == [op |-> op, s |-> s, step |-> "write", row |-> row, ask |-> ask]

-----------------------------------------------------------------------------
(* Creating and importing *)

Active == {r \in Requests: req[r] # None}
Fresh(s) == rows[s] = None /\ s \notin {req[r].s: r \in Active}

\* CreateServer: the port is the caller's or the lowest free one, the slug the
\* caller's or a random free one; the name is left to the constraint.
CreateServer(r, s, name, port, slug, source) ==
  /\ Fresh(s) /\ port \notin list_game_ports /\ slug \notin list_slugs
  /\ Begin(r, Request("create", s,
             [name |-> name, game_port |-> port, slug |-> slug, bedrock_port |-> None, setting |-> 0, geysers |-> 0, state |-> "rest"],
             source))
  /\ UNCHANGED <<rows, lock, tunnel, sync, gate, restarts, stale>>

CreateCommits(r) ==
  /\ At(r, "create", "write")
  /\ IF Unique(req[r].s, req[r].row)
     THEN rows' = [rows EXCEPT ![req[r].s] = req[r].row] /\ Advance(r, "seed", req[r].row)
     ELSE UNCHANGED rows /\ Answer(r)
  /\ UNCHANGED <<lock, tunnel, sync, gate, made, restarts, stale>>

\* _seed_initial_working_set, and _publish_working_set of an import: a failure is
\* answered and the row stays.
Seed(r) ==
  /\ At(r, "create", "seed")
  /\ Answer(r) \/ (req[r].ask = "import" /\ Advance(r, "plugins", req[r].row))
  /\ UNCHANGED <<rows, lock, tunnel, sync, gate, made, restarts, stale>>

\* allocate_bedrock_port_if_geyser
Allocate(row) ==
  IF gate /\ row.bedrock_port = None
  THEN [row EXCEPT !.bedrock_port = pick_lowest_free_port(BedrockRange, list_bedrock_ports)]
  ELSE row
CanAllocate(row) == ~gate \/ row.bedrock_port # None \/ BedrockRange \ list_bedrock_ports # {}

\* _import_plugins reads the row again under the lock.
ToImportInto(r) == rows[req[r].s]

ImportPlugins(r) ==
  /\ At(r, "create", "plugins") /\ rows[req[r].s] # None /\ hold(r, req[r].s)
  /\ CanAllocate(ToImportInto(r))
  /\ req' = [req EXCEPT ![r] = Request("plugin", req[r].s, [Allocate(ToImportInto(r)) EXCEPT !.geysers = rows[req[r].s].geysers + 1], "import")]
  /\ UNCHANGED <<rows, tunnel, sync, gate, made, restarts, stale>>

\* The row is gone, the ports are exhausted, or the lock is busy.
ImportFails(r) ==
  /\ At(r, "create", "plugins") /\ Answer(r)
  /\ UNCHANGED <<rows, lock, tunnel, sync, gate, made, restarts, stale>>

-----------------------------------------------------------------------------
(* Requests to a server that exists: they read it under its lock *)

Reads(r, s, op, row, ask) ==
  /\ s \in Live /\ hold(r, s) /\ Begin(r, Request(op, s, row, ask))
  /\ UNCHANGED <<rows, tunnel, sync, gate, restarts, stale>>

\* UpdateServer: the checks before the write see what others have committed.
UpdateName(r, s, v) ==
  /\ s \in Live /\ is_at_rest(s) /\ v \notin {rows[t].name: t \in Live \ {s}}
  /\ Reads(r, s, "update", [rows[s] EXCEPT !.name = v], "name")
UpdatePort(r, s, v) ==
  /\ s \in Live /\ is_at_rest(s) /\ v \notin list_game_ports \ {rows[s].game_port}
  /\ Reads(r, s, "update", [rows[s] EXCEPT !.game_port = v], "game_port")
UpdateSlug(r, s, v) ==
  /\ s \in Live /\ v \notin {rows[t].slug: t \in Live \ {s}}
  /\ Reads(r, s, "update", [rows[s] EXCEPT !.slug = v], "slug")
UpdateConfig(r, s) == s \in Live /\ Reads(r, s, "update", [rows[s] EXCEPT !.setting = 1 - @], "setting")

\* InstallPlugin and UninstallPlugin of a Geyser jar.
InstallGeyser(r, s) ==
  /\ s \in Live /\ is_at_rest(s) /\ rows[s].geysers < 2 /\ CanAllocate(rows[s])
  /\ Reads(r, s, "plugin", [Allocate(rows[s]) EXCEPT !.geysers = @ + 1], "install")

\* Defect: the first Geyser jar to go takes the port with it.
ReleasesAtOnce(row) == [row EXCEPT !.geysers = @ - 1, !.bedrock_port = None]
\* The port is released when the last Geyser jar leaves.
Removed(row) ==
  [row EXCEPT !.geysers = @ - 1, !.bedrock_port = IF row.geysers = 1 THEN None ELSE @]
UninstallGeyser(r, s) ==
  /\ s \in Live /\ is_at_rest(s) /\ rows[s].geysers > 0
  /\ Reads(r, s, "plugin", Removed(rows[s]), "uninstall")

\* The write is refused by a constraint, or committed.
Commits(r) ==
  LET s == req[r].s
  IN /\ req[r] # None /\ req[r].op \in {"update", "plugin"}
     /\ rows' = IF Unique(s, req[r].row) THEN Write(s, req[r].row) ELSE rows
     /\ release(s) /\ Answer(r)
     /\ UNCHANGED <<tunnel, sync, gate, made, restarts, stale>>

\* A start claims the row under the lock.
StartServer(s) ==
  /\ s \in Live /\ lock[s] = None /\ is_at_rest(s)
  /\ rows' = [rows EXCEPT ![s].state = "running"]
  /\ UNCHANGED <<lock, req, tunnel, sync, gate, made, restarts, stale>>

\* StopServer reads the row without the lock, and update_lifecycle writes back the
\* configuration it has read.
StopServer(r, s) ==
  /\ s \in Live /\ rows[s].state = "running"
  /\ Begin(r, Request("stop", s, rows[s], "stop"))
  /\ UNCHANGED <<rows, lock, tunnel, sync, gate, restarts, stale>>
StopCommits(r) ==
  LET s == req[r].s
  IN /\ At(r, "stop", "write") /\ Answer(r)
     /\ IF s \in Live /\ rows[s].state = "running"
        THEN /\ rows' = [rows EXCEPT ![s].state = "stopping", ![s].setting = req[r].row.setting]
             /\ stale' = IF rows[s].setting # req[r].row.setting THEN stale \cup {s} ELSE stale
        ELSE UNCHANGED <<rows, stale>>
     /\ UNCHANGED <<lock, tunnel, sync, gate, made, restarts>>

\* DeleteServer: the final pack, the row, and then the tunnel.
DeleteServer(r, s) == s \in Live /\ is_at_rest(s) /\ Reads(r, s, "delete", rows[s], "delete")
DeleteCommits(r) ==
  /\ At(r, "delete", "write") /\ rows' = [rows EXCEPT ![req[r].s] = None]
  /\ release(req[r].s) /\ Advance(r, "close", req[r].row)
  /\ UNCHANGED <<tunnel, sync, gate, made, restarts, stale>>
DeleteCloses(r) ==
  /\ At(r, "delete", "close") /\ tunnel' = [tunnel EXCEPT ![req[r].s] = None] /\ Answer(r)
  /\ UNCHANGED <<rows, lock, sync, gate, made, restarts, stale>>

\* A failed pack, commit or client ends a request that has the lock.
Abandons(r) ==
  /\ req[r] # None /\ req[r].op \in {"update", "plugin", "delete"} /\ req[r].step = "write"
  /\ release(req[r].s) /\ Answer(r)
  /\ UNCHANGED <<rows, tunnel, sync, gate, made, restarts, stale>>

-----------------------------------------------------------------------------
(* The worker's reports: record_observed_state, then the tunnel's sync *)

Report(s, running) ==
  /\ sync = None /\ s \in Live /\ rows[s].state = IF running THEN "running" ELSE "stopping"
  /\ rows' = IF running THEN rows ELSE [rows EXCEPT ![s].state = "rest"]
  /\ sync' = IF rows[s].bedrock_port = None \/ rows[s].geysers = 0 THEN None
             ELSE [s |-> s, running |-> running, port |-> rows[s].bedrock_port]
  /\ UNCHANGED <<lock, req, tunnel, gate, made, restarts, stale>>

\* BedrockTunnelSyncer._open and _close, after the plugins were read.
Synced ==
  /\ sync # None /\ sync' = None
  /\ tunnel' = [tunnel EXCEPT ![sync.s] = IF sync.running THEN sync.port ELSE None]
  /\ UNCHANGED <<rows, lock, req, gate, made, restarts, stale>>

\* A stop settles without a report when the worker is lost or answers not found.
SettlesUnreported(s) ==
  /\ s \in Live /\ rows[s].state = "stopping" /\ (IF sync = None THEN TRUE ELSE sync.s # s)
  /\ rows' = [rows EXCEPT ![s].state = "rest"]
  /\ UNCHANGED <<lock, req, tunnel, sync, gate, made, restarts, stale>>

\* A restart of the API, perhaps with Bedrock switched on, sweeps for servers that
\* have Geyser and no port before it serves (SweepBedrockPorts).
Lacking == {s \in Live: rows[s].bedrock_port = None /\ rows[s].geysers > 0}
SweepBedrockPorts(on, ports) ==
  [s \in Servers |-> IF on /\ s \in Lacking THEN [rows[s] EXCEPT !.bedrock_port = ports[s]] ELSE rows[s]]
Restart(on, ports) ==
  /\ restarts < MaxRestarts /\ restarts' = restarts + 1
  /\ gate => on
  /\ \A s \in Lacking: ports[s] \notin list_bedrock_ports
  /\ \A s, t \in Lacking: s # t => ports[s] # ports[t]
  /\ gate' = on /\ rows' = SweepBedrockPorts(on, ports)
  /\ lock' = [s \in Servers |-> None] /\ req' = [r \in Requests |-> None]
  /\ tunnel' = [s \in Servers |-> None] /\ sync' = None /\ UNCHANGED <<made, stale>>

-----------------------------------------------------------------------------
Init ==
  /\ rows = [s \in Servers |-> None] /\ lock = [s \in Servers |-> None] /\ req = [r \in Requests |-> None]
  /\ tunnel = [s \in Servers |-> None] /\ sync = None /\ gate \in BOOLEAN
  /\ made = 0 /\ restarts = 0 /\ stale = {}

Creates(r, s) ==
  \E port \in Values \ list_game_ports, name \in Values, source \in {"new", "import"}:
     list_slugs # Values /\ CreateServer(r, s, name, port, CHOOSE v \in Values: v \notin list_slugs, source)

Update(r, s) ==
  UpdateConfig(r, s) \/ \E v \in Values: UpdateName(r, s, v) \/ UpdatePort(r, s, v) \/ UpdateSlug(r, s, v)

Next ==
  \/ \E r \in Requests, s \in Servers:
       \/ Creates(r, s) \/ Update(r, s) \/ InstallGeyser(r, s) \/ UninstallGeyser(r, s)
       \/ StopServer(r, s) \/ DeleteServer(r, s)
  \/ \E r \in Requests:
       \/ CreateCommits(r) \/ Seed(r) \/ ImportPlugins(r) \/ ImportFails(r) \/ Commits(r)
       \/ StopCommits(r) \/ DeleteCommits(r) \/ DeleteCloses(r) \/ Abandons(r)
  \/ \E s \in Servers: StartServer(s) \/ Report(s, TRUE) \/ Report(s, FALSE) \/ SettlesUnreported(s)
  \/ Synced
  \/ \E on \in BOOLEAN, ports \in [Servers -> BedrockRange]: Restart(on, ports)

Spec == Init /\ [][Next]_vars

-----------------------------------------------------------------------------
\* While Bedrock is on, a server has a Bedrock port exactly if it has a Geyser
\* plugin, and no two servers have the same one (plugins.py, bedrock_sweep.py).
BedrockPorts ==
  /\ \A s \in Live: rows[s].bedrock_port # None => rows[s].geysers > 0
  /\ gate => \A s \in Live: rows[s].geysers > 0 => rows[s].bedrock_port # None
  /\ \A s, t \in Live: s # t => rows[s].bedrock_port = None \/ rows[s].bedrock_port # rows[t].bedrock_port

\* No request undoes what another has committed: a write changes the columns its
\* request is about and no others.  A stop is left out, which writes back the
\* setting it read without the lock (repositories.py, update_lifecycle).
Columns == {"name", "game_port", "slug", "setting"}
OnlyAsked ==
  \A s \in Servers, c \in Columns:
    (s \in Live /\ rows'[s] # None /\ rows'[s][c] # rows[s][c] /\ ~(c = "setting" /\ s \in stale'))
      => \E r \in Requests: req[r] # None /\ req[r].s = s /\ req[r].ask = c

\* The table of tunnels forgets a deleted server (DeleteServer's last step).
TunnelsClosed ==
  \A s \in Servers: tunnel[s] # None /\ rows[s] = None =>
     \E r \in Requests: req[r] # None /\ req[r].s = s /\ req[r].step = "close"

=============================================================================
