------------------------------- MODULE FleetMC -------------------------------
(* Small instances of what looks after the fleet, for TLC: placement on the   *)
(* Workers, the log of game sessions, the servers' records, the pool of their *)
(* JARs and the event streams of their viewers.  Each owns its own state, so  *)
(* a behaviour is of one of them.                                             *)
EXTENDS PlacementRegistry, TLC

CONSTANTS r1, r2, None

VARIABLES
  part,    \* the component this behaviour is of
  open, over, pendStarts, pendEnds, droppedStarts, flight, reg, rows, refused, faults,
  lost,
  recordRows, lock, req, tunnel, sync, gate, made, restarts, stale,
  now, hash_algorithm, upstream, cache, pool, jarRows, jarStart, gc, downloads,
  collections,
  db, unpublished, sub, relay, client, gone, allowed, due, writes, noise, connects,
  late

logVars == <<open, over, pendStarts, pendEnds, droppedStarts, flight, reg, rows,
  refused, faults, lost>>
recordVars == <<recordRows, lock, req, tunnel, sync, gate, made, restarts, stale>>
jarVars == <<now, hash_algorithm, upstream, cache, pool, jarRows, jarStart, gc,
  downloads, collections>>
eventVars == <<db, unpublished, sub, relay, client, gone, allowed, due, writes, noise,
  connects, late>>

Sessions == {"a", "b", "c"}
Requests == {r1, r2}
Values == {1, 2}

G == INSTANCE GameSessions WITH MaxBufferedEvents <- 1,
  ChunkSize <- 2, MaxFaults <- 2
S == INSTANCE ServerRecords WITH rows <- recordRows, BedrockRange <- Values,
  MaxRequests <- 3, MaxRestarts <- 1
J == INSTANCE JarPool WITH rows <- jarRows, start <- jarStart, Junk <- 9, GC_SAFETY_WINDOW <- 2, cache_ttl <- 1,
  MaxBuild <- 2, MaxTime <- 2, MaxDownloads <- 2, MaxCollections <- 1
E == INSTANCE EventRelay WITH Foreign <- "f", max_queue <- 2,
  MaxWrites <- 3, MaxNoise <- 1, MaxConnects <- 1

\* The variables of a component that is not the one at work are put aside.
AllInit ==
  /\ part \in {"placement", "sessions", "records", "jars", "events"}
  /\ Init
  /\ IF part = "sessions" THEN G!Init
     ELSE open = 0 /\ over = 0 /\ pendStarts = 0 /\ pendEnds = 0 /\ droppedStarts = 0
          /\ flight = 0 /\ reg = 0 /\ rows = 0 /\ refused = 0 /\ faults = 0
          /\ lost = 0
  /\ IF part = "records" THEN S!Init
     ELSE recordRows = 0 /\ lock = 0 /\ req = 0 /\ tunnel = 0 /\ sync = 0 /\ gate = 0
          /\ made = 0 /\ restarts = 0 /\ stale = 0
  /\ IF part = "jars" THEN J!Init
     ELSE now = 0 /\ hash_algorithm = 0 /\ upstream = 0 /\ cache = 0 /\ pool = 0
          /\ jarRows = 0 /\ jarStart = 0 /\ gc = 0 /\ downloads = 0 /\ collections = 0
  /\ IF part = "events" THEN E!Init
     ELSE db = 0 /\ unpublished = 0 /\ sub = 0 /\ relay = 0 /\ client = 0 /\ gone = 0
          /\ allowed = 0 /\ due = 0 /\ writes = 0 /\ noise = 0 /\ connects = 0
          /\ late = 0

AllNext ==
  \/ part = "placement" /\ Next /\ UNCHANGED <<part, logVars, recordVars, jarVars,
     eventVars>>
  \/ part = "sessions" /\ G!Next /\ UNCHANGED <<part, vars, recordVars, jarVars,
     eventVars>>
  \/ part = "records" /\ S!Next /\ UNCHANGED <<part, vars, logVars, jarVars,
     eventVars>>
  \/ part = "jars" /\ J!Next /\ UNCHANGED <<part, vars, logVars, recordVars,
     eventVars>>
  \/ part = "events" /\ E!Next /\ UNCHANGED <<part, vars, logVars, recordVars,
     jarVars>>

allVars == <<part, vars, logVars, recordVars, jarVars, eventVars>>
AllSpec == AllInit /\ [][AllNext]_allVars

CapacityMC == [w \in Workers |-> 1]
Symmetry == Permutations(Servers) \cup Permutations({r1, r2})

-----------------------------------------------------------------------------
\* A session that is open on the relay is never closed in the log, and once everything
\* is delivered the log agrees with the relay, whatever is repeated, lost, dropped at
\* the buffer's cap or registered meanwhile (reporter.go, relay_server.py).
SessionLogAgrees == part = "sessions" => G!LiveNotClosed /\ G!LogAgrees

\* What a server's row says holds: a Bedrock port exactly with a Geyser plugin and never
\* shared, no tunnel for a deleted server, no request undoing a column another has
\* committed (plugins.py, manage_server.py), and a pooled JAR to hydrate from, however
\* collections and releases upstream come between (ensure_jar.py, jar_gc.py).
RecordsHold ==
  /\ [](part = "records" => S!BedrockPorts /\ S!TunnelsClosed)
  /\ [](part = "jars" => J!JarsKept)
  /\ [][part = "records" => S!OnlyAsked]_allVars

\* A viewer that has been sent everything shows every server of its stream as it is,
\* however many events its buffer lost; and one that may not listen any more is soon
\* sent nothing, however busy the stream (events.py).
ViewersConverge == part = "events" => E!Converges /\ E!RevocationTakesHold
==============================================================================
