--------------------------- MODULE SnapshotCadence ---------------------------
(* The periodic snapshots of a server's world                                 *)
(* (servers/application/snapshot_scheduler.py, domain/snapshot_cadence.py).   *)
(* One server of one worker.  The tick runs once every unit of time, and      *)
(* anything may happen while its trigger is under way.  A trigger that        *)
(* reaches a crashed instance publishes its world and gives the working set   *)
(* up.  A report's time is its number here.                                   *)
EXTENDS Integers

CONSTANTS
  None,
  default_interval_seconds, min_interval_seconds, jitter_seconds,
  Overrides,   \* per-server intervals a config may hold; None for none
  MaxTime,     \* bound: the clock
  MaxReports,  \* bound: reports of the worker
  MaxFaults    \* bound: disconnects, failed triggers and restarts of the API

VARIABLES
  now, ticked,
  row,           \* assigned, observed, observed_at, override
  world,         \* "held" while the worker holds a working set, or None
  connected,
  next_due, nothing_held,
  trigger,       \* the row a trigger under way was sent for, or None
  faults,
  captured,      \* history: when the world was last published, or first needed to be
  idle           \* history: triggers answered "nothing held" since the last report

vars == <<now, ticked, row, world, connected, next_due, nothing_held, trigger, faults, captured, idle>>

Fault == faults < MaxFaults /\ faults' = faults + 1

override_from_config(o) == IF o = None THEN TRUE ELSE o >= min_interval_seconds
effective_interval_seconds(o) ==
  LET chosen == IF o = None THEN default_interval_seconds ELSE o
  IN IF chosen >= min_interval_seconds THEN chosen ELSE min_interval_seconds

\* None: an override below the floor is skipped.
interval_for == IF override_from_config(row.override) THEN effective_interval_seconds(row.override) ELSE None

schedule_next == next_due' = now + interval_for + jitter_seconds

Reported(observed) ==
  /\ row.observed_at < MaxReports
  /\ row' = [row EXCEPT !.observed = observed, !.observed_at = @ + 1, !.assigned = TRUE]
  /\ idle' = 0

-----------------------------------------------------------------------------
(* A tick *)

\* A server that is not to run is forgotten; a new one waits for its jitter.
Forgets ==
  /\ ~ticked /\ ticked' = TRUE /\ ~row.assigned /\ next_due' = None /\ nothing_held' = None
  /\ UNCHANGED <<now, row, world, connected, trigger, faults, captured, idle>>
Meets ==
  /\ ~ticked /\ ticked' = TRUE /\ row.assigned /\ interval_for # None /\ next_due = None
  /\ next_due' = now + jitter_seconds
  /\ UNCHANGED <<now, row, world, connected, nothing_held, trigger, faults, captured, idle>>

\* Nothing was held when the server last reported, and it has not reported since.
StillNothing == nothing_held = row.observed_at

IsDue == row.assigned /\ interval_for # None /\ next_due # None /\ IF next_due = None THEN FALSE ELSE now >= next_due

Waits ==
  /\ ~ticked /\ ticked' = TRUE /\ row.assigned
  /\ \/ interval_for = None /\ UNCHANGED nothing_held
     \/ interval_for # None /\ (IF next_due = None THEN FALSE ELSE now < next_due) /\ UNCHANGED nothing_held
     \/ IsDue /\ nothing_held # None /\ StillNothing /\ UNCHANGED nothing_held
     \/ IsDue /\ ~connected /\ (nothing_held # None => ~StillNothing) /\ nothing_held' = None
  /\ UNCHANGED <<now, row, world, connected, next_due, trigger, faults, captured, idle>>

\* _dispatch, and what comes of it.
dispatch ==
  /\ ~ticked /\ ticked' = TRUE /\ IsDue /\ connected
  /\ (nothing_held # None => ~StillNothing)
  /\ trigger' = row /\ nothing_held' = None /\ UNCHANGED <<now, row, world, connected, next_due, faults, captured, idle>>

Answered == trigger # None /\ trigger' = None /\ schedule_next /\ UNCHANGED <<now, ticked, row, connected>>
SnapshotTaken ==
  /\ Answered /\ connected /\ world # None
  /\ world' = IF row.observed = "running" THEN world ELSE None
  /\ captured' = now /\ nothing_held' = IF trigger.observed = "crashed" THEN trigger.observed_at ELSE None
  /\ UNCHANGED <<faults, idle>>
NothingHeld ==
  /\ Answered /\ connected /\ world = None /\ nothing_held' = trigger.observed_at
  /\ idle' = IF trigger.observed_at = row.observed_at THEN idle + 1 ELSE idle
  /\ UNCHANGED <<world, faults, captured>>
\* Refused, or the worker could not be reached: another interval is allowed for.
TriggerFails ==
  /\ Answered /\ IF connected THEN Fault ELSE UNCHANGED faults
  /\ captured' = now /\ UNCHANGED <<world, nothing_held, idle>>

-----------------------------------------------------------------------------
(* The world *)

Starts ==
  /\ ~row.assigned /\ connected /\ Reported("running")
  /\ world' = "held" /\ captured' = now
  /\ UNCHANGED <<now, ticked, connected, next_due, nothing_held, trigger, faults>>
Restarts ==
  /\ row.assigned /\ row.observed # "running" /\ connected /\ Reported("running")
  /\ world' = "held" /\ captured' = (IF world = None THEN now ELSE captured)
  /\ UNCHANGED <<now, ticked, connected, next_due, nothing_held, trigger, faults>>
Crashes ==
  /\ row.assigned /\ row.observed = "running" /\ connected /\ Reported("crashed")
  /\ UNCHANGED <<now, ticked, world, connected, next_due, nothing_held, trigger, faults, captured>>
\* A stop takes a final snapshot and gives the working set up.
Stops ==
  /\ row.assigned /\ row' = [row EXCEPT !.assigned = FALSE] /\ world' = None
  /\ UNCHANGED <<now, ticked, connected, next_due, nothing_held, trigger, faults, captured, idle>>
Disconnects ==
  /\ connected /\ Fault /\ connected' = FALSE
  /\ IF row.assigned THEN Reported("unknown") ELSE UNCHANGED <<row, idle>>
  /\ UNCHANGED <<now, ticked, world, next_due, nothing_held, trigger, captured>>
\* The worker may come back without its scratch.
Reconnects(holds) ==
  /\ ~connected /\ connected' = TRUE /\ captured' = now /\ world' = IF holds THEN world ELSE None
  /\ UNCHANGED <<now, ticked, row, next_due, nothing_held, trigger, faults, idle>>
Restart ==
  /\ Fault /\ next_due' = None /\ nothing_held' = None /\ trigger' = None /\ idle' = 0
  /\ UNCHANGED <<now, ticked, row, world, connected, captured>>

Time == now < MaxTime /\ ticked /\ trigger = None /\ now' = now + 1 /\ ticked' = FALSE
        /\ UNCHANGED <<row, world, connected, next_due, nothing_held, trigger, faults, captured, idle>>

Init ==
  /\ now = 0 /\ ticked = FALSE /\ world = None /\ connected = TRUE /\ next_due = None /\ nothing_held = None /\ trigger = None
  /\ \E o \in Overrides: row = [assigned |-> FALSE, observed |-> "stopped", observed_at |-> 0, override |-> o]
  /\ faults = 0 /\ captured = 0 /\ idle = 0

Next ==
  \/ Forgets \/ Meets \/ Waits \/ dispatch \/ SnapshotTaken \/ NothingHeld \/ TriggerFails
  \/ Starts \/ Restarts \/ Crashes \/ Stops \/ Disconnects \/ (\E holds \in BOOLEAN: Reconnects(holds))
  \/ Restart \/ Time

Spec == Init /\ [][Next]_vars

-----------------------------------------------------------------------------
\* A world that a connected worker holds is published at least once an interval and
\* its jitter, crashed or not, a tick and one forgotten schedule aside: the bound on
\* what a lost worker can cost (snapshot_scheduler.py, FR-DATA-5).  And a worker that
\* holds nothing is asked once, not at every tick.
CapturedInTime ==
  /\ (ticked /\ connected /\ row.assigned /\ world # None /\ interval_for # None)
       => now <= captured + interval_for + (1 + faults) * jitter_seconds + 1
  /\ idle <= 1
=============================================================================
