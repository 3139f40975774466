---------------------------- MODULE ServerDataMC -----------------------------
(* Small instances of what is kept for a server, for TLC: its files and       *)
(* server.properties, the groups attached to it, its plugins, the resolution  *)
(* of their dependencies with the version ranges it rests on, and resource    *)
(* packs.  A behaviour is of one of them.                                     *)
EXTENDS Integers, Sequences

CONSTANTS None, Dir, X

VARIABLES
  part,    \* the component this behaviour is of
  srv, holder, row, tree, ring, live, req, torn,
  file, before, op,
  groupSrv, groupHolder, players, attached, mark, groupFile, groupLive, row_lock,
  groupReq, lost,
  pluginSrv, pluginHolder, rows, disk, cache, gc, pluginReq, served, pluginTorn,
  reused, odd,
  packRows, blobs, used, assignment, props, running, packReq, made, packTorn,
  catalog, plugins, plan, upsets, history

filesVars == <<srv, holder, row, tree, ring, live, req, torn>>
propertiesVars == <<file, before, op>>
groupVars == <<groupSrv, groupHolder, players, attached, mark, groupFile, groupLive,
  row_lock, groupReq, lost>>
pluginVars == <<pluginSrv, pluginHolder, rows, disk, cache, gc, pluginReq, served,
  pluginTorn, reused, odd>>
packVars == <<packRows, blobs, used, assignment, props, running, packReq, made,
  packTorn>>
resolutionVars == <<catalog, plugins, plan, upsets, history>>

Requests == {"r1", "r2"}
\* Requests for files are served under the lifecycle lock from beginning to end.
FileRequests == {"r1"}
Groups == {"g1", "g2"}
Ports == {1, 2}
Players == {"p1"}
Names == {"a"}
Packs == {"p1", "p2"}
Servers == {"s1", "s2"}
PackRequests == {"r1", "r2", "r3"}
Projects == {"a", "b", "c"}

F == INSTANCE ServerFiles WITH Requests <- FileRequests, NoOne <- None, Retention <- 1
P == INSTANCE ServerProperties WITH MaxLines <- 3
G == INSTANCE PlayerGroups WITH srv <- groupSrv, holder <- groupHolder,
  file <- groupFile, live <- groupLive, req <- groupReq, NoOne <- None, NoGroup <- None
J == INSTANCE ServerPlugins WITH srv <- pluginSrv, holder <- pluginHolder,
  req <- pluginReq, torn <- pluginTorn, NoOne <- None,
  Ids <- Ports, Contents <- Ports, Nothing <- None, MaxRequests <- 3
R == INSTANCE ResourcePacks WITH rows <- packRows, req <- packReq, torn <- packTorn,
  Requests <- PackRequests, MaxRequests <- 4
N == INSTANCE PluginResolution WITH Root <- "r",
  MAX_RESOLUTION_DEPTH <- 2, MaxNeeds <- 2, MaxUpsets <- 1

\* The variables of a component that is not the one at work are put aside.
AllInit ==
  /\ part \in {"files", "properties", "groups", "plugins", "packs", "resolution",
           "ranges"}
  /\ IF part = "files" THEN F!Init
     ELSE srv = 0 /\ holder = 0 /\ row = 0 /\ tree = 0 /\ ring = 0 /\ live = 0
          /\ req = 0 /\ torn = 0
  /\ IF part = "properties" THEN P!Init
     ELSE file = 0 /\ before = 0 /\ op = 0
  /\ IF part = "groups" THEN G!Init
     ELSE groupSrv = 0 /\ groupHolder = 0 /\ players = 0 /\ attached = 0 /\ mark = 0
          /\ groupFile = 0 /\ groupLive = 0 /\ row_lock = 0 /\ groupReq = 0
          /\ lost = 0
  /\ IF part = "plugins" THEN J!Init
     ELSE pluginSrv = 0 /\ pluginHolder = 0 /\ rows = 0 /\ disk = 0 /\ cache = 0
          /\ gc = 0 /\ pluginReq = 0 /\ served = 0 /\ pluginTorn = 0 /\ reused = 0
          /\ odd = 0
  /\ IF part = "packs" THEN R!Init
     ELSE packRows = 0 /\ blobs = 0 /\ used = 0 /\ assignment = 0 /\ props = 0
          /\ running = 0 /\ packReq = 0 /\ made = 0 /\ packTorn = 0
  /\ IF part = "resolution" THEN N!Init
     ELSE catalog = 0 /\ plugins = 0 /\ plan = 0 /\ upsets = 0 /\ history = 0

AllNext ==
  \/ part = "files" /\ F!Next /\ UNCHANGED <<part, propertiesVars, groupVars,
     pluginVars, packVars, resolutionVars>>
  \/ part = "properties" /\ P!Next /\ UNCHANGED <<part, filesVars, groupVars,
     pluginVars, packVars, resolutionVars>>
  \/ part = "groups" /\ G!Next /\ UNCHANGED <<part, filesVars, propertiesVars,
     pluginVars, packVars, resolutionVars>>
  \/ part = "plugins" /\ J!Next /\ UNCHANGED <<part, filesVars, propertiesVars,
     groupVars, packVars, resolutionVars>>
  \/ part = "packs" /\ R!Next /\ UNCHANGED <<part, filesVars, propertiesVars,
     groupVars, pluginVars, resolutionVars>>
  \/ part = "resolution" /\ N!Next /\ UNCHANGED <<part, filesVars, propertiesVars,
     groupVars, pluginVars, packVars>>

allVars == <<part, filesVars, propertiesVars, groupVars, pluginVars, packVars,
             resolutionVars>>
AllSpec == AllInit /\ [][AllNext]_allVars

\* Versions of up to three numbers, some with a qualifier at the end.
Releases == UNION {[1..n -> 0..2]: n \in 1..3}
Versions == Releases \cup {Append(v, -1): v \in Releases}

-----------------------------------------------------------------------------
\* Whatever users write, upload, rename, delete or roll back, the copy a server runs
\* with has the row's port and pack; and nothing is written to the store's tree between
\* a start's claim and the return of the worker's copy, so no edit is silently lost
\* under a running server (files._guard_at_rest_properties, the lifecycle lock).
FilesAgree ==
  /\ [](part = "files" => F!PlatformKeysAgree)
  /\ [][part = "files" => F!NoEditUnderStart]_allVars

\* The guard on platform keys sees every value Java will read, in however many lines it
\* is spelt, and after the platform's own rewrites the server reads each key once and
\* the others as before (server_properties.py parse, apply_platform_properties).
PropertiesRead == part = "properties" => P!GuardReadsWhatJavaReads /\ P!RewritesRead

\* A server that is owed no sync has exactly the players of its attached groups in the
\* copy it runs with or will start with (groups.py mark_sync_pending).
GroupsApplied == part = "groups" => G!OwedOrApplied

\* Rows and jars of plugins agree once no request holds the server, and the blob a row
\* refers to is in the cache: the collector never takes one between its upload and the
\* commit of its row (catalog.py, plugin_cache_gc.py).
PluginsDeployed == part = "plugins" => J!JarsMatchRows /\ J!BlobsKept

\* The pack a server is assigned is there to be downloaded, whoever deletes packs
\* meanwhile, and a running server's file names it (resource_packs.py).
PacksServed == part = "packs" => R!PacksServed

\* A finished plan of imports covers exactly what the plugins transitively require, and
\* applying it puts nothing beside a plugin that refuses it (plugin_resolution.py); the
\* ranges it relies on mean what their dialects say (version_range.py).
PlansHold ==
  /\ part = "resolution" => N!PlanCloses /\ N!AppliesNoClash
  /\ part = "ranges" => \A v \in Versions, t \in Releases: N!RangesAgree(v, t)
==============================================================================
