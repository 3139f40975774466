-------------------------- MODULE ServerLifecycleMC --------------------------
(* Small instances of what drives a server, for TLC: its lifecycle flows, the *)
(* reconciler's grace and backoff, the cadence of snapshots, and backups.     *)
(* Each owns its own state, so a behaviour is of one of them.                 *)
EXTENDS ServerLifecycle, TLC

CONSTANTS None

VARIABLES
  part,    \* the component this behaviour is of
  now, reconcilerRow, connected, held, op, attempts, refused, tick, ticked, events,
  starts, well, tried,
  cadenceNow, cadenceTicked, cadenceRow, world, cadenceConnected, next_due,
  nothing_held, trigger, cadenceFaults, captured, idle,
  srv, holder, rows, archive, made, current, policy, today, server, todo, late

reconcilerVars == <<now, reconcilerRow, connected, held, op, attempts, refused, tick,
  ticked, events, starts, well, tried>>
cadenceVars == <<cadenceNow, cadenceTicked, cadenceRow, world, cadenceConnected,
  next_due, nothing_held, trigger, cadenceFaults, captured, idle>>
backupVars == <<srv, holder, rows, archive, made, current, policy, today, server,
  todo, late>>

Overrides == {None, 1, 2}
Requests == {"r1"}

R == INSTANCE Reconciliation WITH row <- reconcilerRow, grace_seconds <- 4,
  held_start_grace_seconds <- 2, refused_stop_grace_seconds <- 1,
  restart_timeout_seconds <- 5, backoff_base_seconds <- 2, backoff_max_seconds <- 4,
  command_timeout_seconds <- 1, hydrate_timeout_seconds <- 2,
  stop_timeout_seconds <- 3, MaxTime <- 9, MaxEvents <- 2
C == INSTANCE SnapshotCadence WITH now <- cadenceNow, ticked <- cadenceTicked,
  row <- cadenceRow, connected <- cadenceConnected, faults <- cadenceFaults,
  default_interval_seconds <- 3, min_interval_seconds <- 2, jitter_seconds <- 1,
  MaxTime <- 9, MaxReports <- 4, MaxFaults <- 1
K == INSTANCE ServerBackups WITH NoOne <- None, MaxBackups <- 2,
  MaxDay <- 1

\* The variables of a component that is not the one at work are put aside.
AllInit ==
  /\ part \in {"lifecycle", "reconciler", "cadence", "backups"}
  /\ Init /\ online = Workers
  /\ IF part = "reconciler" THEN R!Init
     ELSE now = 0 /\ reconcilerRow = 0 /\ connected = 0 /\ held = 0 /\ op = 0
          /\ attempts = 0 /\ refused = 0 /\ tick = 0 /\ ticked = 0 /\ events = 0
          /\ starts = 0 /\ well = 0 /\ tried = 0
  /\ IF part = "cadence" THEN C!Init
     ELSE cadenceNow = 0 /\ cadenceTicked = 0 /\ cadenceRow = 0 /\ world = 0
          /\ cadenceConnected = 0 /\ next_due = 0 /\ nothing_held = 0 /\ trigger = 0
          /\ cadenceFaults = 0 /\ captured = 0 /\ idle = 0
  /\ IF part = "backups" THEN K!Init
     ELSE srv = 0 /\ holder = 0 /\ rows = 0 /\ archive = 0 /\ made = 0 /\ current = 0
          /\ policy = 0 /\ today = 0 /\ server = 0 /\ todo = 0 /\ late = 0

AllNext ==
  \/ part = "lifecycle" /\ Next /\ UNCHANGED <<part, reconcilerVars, cadenceVars,
     backupVars>>
  \/ part = "reconciler" /\ R!Next /\ UNCHANGED <<part, vars, cadenceVars,
     backupVars>>
  \/ part = "cadence" /\ C!Next /\ UNCHANGED <<part, vars, reconcilerVars,
     backupVars>>
  \/ part = "backups" /\ K!Next /\ UNCHANGED <<part, vars, reconcilerVars,
     cadenceVars>>

allVars == <<part, vars, reconcilerVars, cadenceVars, backupVars>>
AllSpec == AllInit /\ [][AllNext]_allVars

Symmetry == Permutations(Workers) \cup Permutations(Flows)

\* A backup request uses the policy and the day it finds as it begins: they change
\* between requests, while there is a scheduled backup, the only kind they matter to.
\* And of the archives at most one becomes unreadable, at most one lands late.
BackupBounds ==
  part = "backups" =>
    /\ (policy' = policy /\ today' = today)
       \/ (holder = None /\ \E b \in DOMAIN rows: rows[b].source = "scheduled")
    /\ \A b, c \in DOMAIN rows:
         b # c => archive'[b] # "unreadable" \/ archive'[c] # "unreadable"
    /\ \A b, c \in late': b = c

-----------------------------------------------------------------------------
\* The periodic loops are in time.  The reconciler retries a server that keeps failing
\* at growing intervals, does not act under an operator's command, and leaves a
\* diverged server alone no longer than the longest grace (reconciler.py).  A connected
\* Worker's world is published at least once an interval and its jitter
\* (snapshot_scheduler.py).
LoopsInTime ==
  /\ [](part = "reconciler" => R!RestartsDamped)
  /\ [](part = "cadence" => C!CapturedInTime)
  /\ [][part = "reconciler" => R!ActsInTime]_allVars

\* An archive in the store has a row to find it by wherever a request is cut off, what
\* is condemned is not sound, and a prune takes only scheduled backups superseded under
\* the policy it read (backups.py, backup_integrity.py, backup_retention.py).
BackupsKept ==
  /\ [](part = "backups" => K!ArchivesFound /\ K!VerdictsHold)
  /\ [][part = "backups" => K!PrunesOnlySuperseded]_allVars
==============================================================================
