--------------------------- MODULE Reconciliation ---------------------------
(* When the reconciler acts on a server (servers/application/reconciler.py):  *)
(* its graces, its backoff and how an entry of it is forgiven or expires.     *)
(* What a replayed start or stop does to the rows of the fleet is             *)
(* ServerLifecycle's subject; here it has an outcome and takes time.          *)
(*                                                                            *)
(* One server and its worker.  The clock stands still until the tick of the   *)
(* current time has run, and a timeout that is due fires before it.           *)
EXTENDS Integers, Sequences

CONSTANTS
  None,
  grace_seconds, held_start_grace_seconds, refused_stop_grace_seconds, restart_timeout_seconds,
  backoff_base_seconds, backoff_max_seconds,
  command_timeout_seconds, hydrate_timeout_seconds, stop_timeout_seconds,
  MaxTime,    \* bound: the clock
  MaxEvents   \* bound: requests of operators, and crashes and disconnects of the worker

VARIABLES
  now,
  row,        \* desired, worker, observed, and since: the last commit or report
  connected, held,
  op,         \* an operator's command in flight, or None
  attempts,   \* the server's _Backoff, or None
  refused,    \* when its last stop was refused, or None
  tick,       \* the action of the tick in progress, or None
  ticked,     \* a tick has run at this time
  events,
  starts,     \* history: the times of the counted failures since the server was well
  well,       \* history: since when it has been settled, or None
  tried       \* history: when the last action ended

vars == <<now, row, connected, held, op, attempts, refused, tick, ticked, events, starts, well, tried>>
history == <<starts, well, tried>>

Least(a, b) == IF a <= b THEN a ELSE b
Most(a, b) == IF a >= b THEN a ELSE b

is_at_rest(r) == r.desired = "stopped" /\ r.observed \in {"stopped", "crashed", "unknown"}
is_settled(r) ==
  IF r.desired = "running" THEN r.observed = "running" /\ r.worker ELSE ~r.worker /\ is_at_rest(r)

\* A row as it is written or reported now; the server is well while it is settled.
Becomes(r) ==
  /\ row' = [r EXCEPT !.since = now]
  /\ well' = IF ~is_settled(r) THEN None ELSE IF is_settled(row) THEN well ELSE now

-----------------------------------------------------------------------------
(* What a row calls for *)

list_reconcilable(r) ==
  \/ r.desired = "running" /\ (r.observed \notin {"starting", "running"} \/ ~r.worker)
  \/ r.desired = "stopped" /\ r.observed = "running"
  \/ r.desired = "stopped" /\ r.worker /\ r.observed \in {"stopped", "unknown", "crashed", "stopping"}

stopped_intent_action(r) ==
  CASE ~r.worker -> None
    [] r.worker /\ r.observed \in {"stopped", "crashed"} -> "clear_stale_assignment"
    [] r.worker /\ r.observed \in {"unknown", "stopping"} -> IF connected THEN "redispatch_stop" ELSE "clear_stale_assignment"
    [] OTHER -> IF connected THEN "redispatch_stop" ELSE None

action_for(r) ==
  CASE r.desired = "running" /\ ~r.worker -> "place_and_start"
    [] r.desired = "running" /\ r.worker ->
         IF r.observed \in {"starting", "running"} \/ ~connected THEN None ELSE "redispatch_start"
    [] OTHER -> stopped_intent_action(r)

previous_stop_refused(r) == IF refused = None THEN FALSE ELSE refused >= r.since

\* Defect: a restart's stop leg is given no more time than a start.
GraceWithoutFloor(r, action) ==
  IF action = "redispatch_start" /\ held THEN held_start_grace_seconds ELSE grace_seconds

grace_for(r, action) ==
  LET floor == IF r.observed = "stopping" THEN restart_timeout_seconds ELSE 0
  IN CASE action = "redispatch_stop" /\ previous_stop_refused(r) -> refused_stop_grace_seconds
       [] action = "redispatch_start" -> Most(IF held THEN held_start_grace_seconds ELSE grace_seconds, floor)
       [] OTHER -> grace_seconds

-----------------------------------------------------------------------------
(* The backoff *)

record_failure(at) ==
  LET failures == IF attempts = None THEN 1 ELSE attempts.failures + 1
      delay == Least(backoff_base_seconds * 2^(failures - 1), backoff_max_seconds)
  IN /\ attempts' = [failures |-> failures, next_eligible_at |-> at + delay, delay |-> delay,
                     settled_since |-> None, last_settled_at |-> None]
     /\ starts' = Append(starts, at)

\* An entry is forgiven once every tick for as long as its delay has found the
\* server settled.
forgive_settled(a) ==
  IF a = None THEN None
  ELSE IF list_reconcilable(row) \/ ~is_settled(row) THEN [a EXCEPT !.settled_since = None]
  ELSE LET from == IF a.settled_since = None THEN now ELSE a.settled_since
       IN IF now - from >= a.delay THEN None ELSE [a EXCEPT !.settled_since = from, !.last_settled_at = now]

expire_stale(a) ==
  IF a = None THEN None
  ELSE LET last == IF a.last_settled_at = None THEN a.next_eligible_at ELSE Most(a.next_eligible_at, a.last_settled_at)
       IN IF now >= last + backoff_max_seconds THEN None ELSE a

-----------------------------------------------------------------------------
(* The tick *)

Overdue == op # None /\ IF op = None THEN FALSE ELSE op.ends <= now

Starts == {"place_and_start", "redispatch_start"}
Budget(action) ==
  IF action \in Starts THEN (IF held /\ action = "redispatch_start" THEN 0 ELSE hydrate_timeout_seconds) + command_timeout_seconds
  ELSE stop_timeout_seconds

\* tick, up to the dispatch: the entry, the grace and the backoff.
Tick ==
  /\ tick = None /\ ~ticked /\ ~Overdue /\ ticked' = TRUE
  /\ LET entry == expire_stale(forgive_settled(attempts))
         action == action_for(row)
         goes == /\ list_reconcilable(row) /\ action # None
                 /\ now - row.since >= grace_for(row, action)
                 /\ IF entry = None THEN TRUE ELSE now >= entry.next_eligible_at
     IN /\ attempts' = entry
        /\ tick' = IF goes THEN [action |-> action, at |-> now, ends |-> now + Budget(action)] ELSE None
  /\ UNCHANGED <<now, row, connected, held, op, refused, events, history>>

Dispatched ==
  /\ tick # None /\ tick' = None /\ tried' = now
  /\ UNCHANGED <<now, connected, op, ticked, events>>

\* The use case looks at the row again before it acts.
StillDue == tick # None /\ IF tick = None THEN FALSE ELSE action_for(row) = tick.action

\* A start that was sent to a server seen crashed counts as a failure.
StartGoes ==
  /\ Dispatched /\ StillDue /\ tick.action \in Starts
  /\ IF row.observed = "crashed" THEN record_failure(tick.at) ELSE attempts' = None /\ starts' = <<>>
  /\ Becomes([row EXCEPT !.worker = TRUE, !.observed = "starting"]) /\ held' = TRUE /\ UNCHANGED refused
StopGoes ==
  /\ Dispatched /\ StillDue /\ tick.action \notin Starts
  /\ attempts' = None /\ starts' = <<>>
  /\ Becomes([row EXCEPT !.worker = FALSE,
                         !.observed = CASE tick.action = "redispatch_stop" -> "stopped"
                                        [] row.observed = "stopping" -> "unknown"
                                        [] OTHER -> @])
  /\ UNCHANGED <<held, refused>>
DispatchFails ==
  /\ Dispatched /\ record_failure(tick.at) /\ UNCHANGED <<row, held, well>>
  /\ UNCHANGED refused \/ (tick.action = "redispatch_stop" /\ refused' = now)
\* Busy, for a start, or another stop of the server in progress: not a failure.
DispatchRefused == Dispatched /\ UNCHANGED <<row, held, attempts, refused, starts, well>>

-----------------------------------------------------------------------------
(* Operators *)

Event == events < MaxEvents /\ events' = events + 1
Command(kind, budget) == [kind |-> kind, stage |-> "sent", ends |-> now + budget]
Idle == tick = None /\ op = None

StartServer ==
  /\ Idle /\ Event /\ row.desired = "stopped" /\ is_at_rest(row) /\ ~row.worker /\ connected
  /\ Becomes([row EXCEPT !.desired = "running", !.worker = TRUE])
  /\ op' = Command("start", (IF held THEN 0 ELSE hydrate_timeout_seconds) + command_timeout_seconds)
  /\ starts' = <<>> /\ UNCHANGED <<now, connected, held, attempts, refused, tick, ticked, tried>>
StopServer ==
  /\ Idle /\ Event /\ row.desired = "running" /\ row.worker /\ connected
  /\ Becomes([row EXCEPT !.desired = "stopped"])
  /\ op' = Command("stop", stop_timeout_seconds) /\ refused' = None
  /\ starts' = <<>> /\ UNCHANGED <<now, connected, held, attempts, tick, ticked, tried>>
RestartServer ==
  /\ Idle /\ Event /\ row.desired = "running" /\ row.observed = "running" /\ row.worker /\ connected
  /\ op' = Command("restart", restart_timeout_seconds)
  /\ starts' = <<>> /\ UNCHANGED <<now, row, connected, held, attempts, refused, tick, ticked, well, tried>>

\* The worker enters a stop: it says so, once.
StopEntered ==
  /\ op # None /\ op.kind \in {"stop", "restart"} /\ op.stage = "sent" /\ row.worker
  /\ Becomes([row EXCEPT !.observed = "stopping"]) /\ op' = [op EXCEPT !.stage = "entered"]
  /\ UNCHANGED <<now, connected, held, attempts, refused, tick, ticked, events, starts, tried>>

\* The command is done; a stop has had its final snapshot.
CommandDone ==
  /\ op # None /\ op' = None /\ held' = TRUE
  /\ Becomes(IF op.kind = "stop" THEN [row EXCEPT !.observed = "stopped", !.worker = FALSE] ELSE [row EXCEPT !.observed = "starting"])
  /\ UNCHANGED <<now, connected, attempts, refused, tick, ticked, events, starts, tried>>
\* It failed or its answer was lost: a start that was not sent is undone.
CommandFails(undone, is_refused) ==
  /\ op # None /\ op' = None
  /\ IF undone THEN op.kind = "start" /\ Becomes([row EXCEPT !.desired = "stopped", !.worker = FALSE])
     ELSE UNCHANGED <<row, well>>
  /\ refused' = IF op.kind = "stop" /\ is_refused THEN now ELSE refused
  /\ UNCHANGED <<now, connected, held, attempts, tick, ticked, events, starts, tried>>

-----------------------------------------------------------------------------
(* The worker and the clock *)

Launched ==
  /\ row.observed = "starting" /\ connected /\ Becomes([row EXCEPT !.observed = "running"])
  /\ UNCHANGED <<now, connected, held, op, attempts, refused, tick, ticked, events, starts, tried>>
Crashes ==
  /\ row.observed \in {"starting", "running"} /\ row.worker /\ connected /\ op = None
  /\ Becomes([row EXCEPT !.observed = "crashed"])
  /\ UNCHANGED <<now, connected, held, op, attempts, refused, tick, ticked, events, starts, tried>>
Disconnects ==
  /\ connected /\ Event /\ connected' = FALSE /\ op' = None
  /\ IF row.worker THEN Becomes([row EXCEPT !.observed = "unknown"]) ELSE UNCHANGED <<row, well>>
  /\ UNCHANGED <<now, held, attempts, refused, tick, ticked, starts, tried>>
Reconnects(holds) ==
  /\ ~connected /\ connected' = TRUE /\ held' = holds
  /\ UNCHANGED <<now, row, op, attempts, refused, tick, ticked, events, history>>

\* A server that was well for as long as the first delay has a clean record.
Time ==
  /\ now < MaxTime /\ (ticked \/ tick # None) /\ ~Overdue
  /\ IF tick = None THEN TRUE ELSE now < tick.ends
  /\ now' = now + 1 /\ ticked' = FALSE
  /\ starts' = IF well # None /\ (IF well = None THEN FALSE ELSE now' - well >= backoff_base_seconds) THEN <<>> ELSE starts
  /\ UNCHANGED <<row, connected, held, op, attempts, refused, tick, events, well, tried>>

Init ==
  /\ now = 0 /\ row = [desired |-> "stopped", worker |-> FALSE, observed |-> "stopped", since |-> 0]
  /\ connected = TRUE /\ held = FALSE /\ op = None /\ attempts = None /\ refused = None
  /\ tick = None /\ ticked = FALSE /\ events = 0 /\ starts = <<>> /\ well = 0 /\ tried = 0

Next ==
  \/ Tick \/ StartGoes \/ StopGoes \/ DispatchFails \/ DispatchRefused
  \/ StartServer \/ StopServer \/ RestartServer \/ StopEntered \/ CommandDone
  \/ (\E undone, is_refused \in BOOLEAN: CommandFails(undone, is_refused))
  \/ Launched \/ Crashes \/ Disconnects \/ (\E holds \in BOOLEAN: Reconnects(holds)) \/ Time

Spec == Init /\ [][Next]_vars

-----------------------------------------------------------------------------
\* A server that keeps failing is retried at growing intervals, however it flaps in
\* between: unless it was well for the first delay, or somebody saw to it, its third
\* failure comes at least the first two delays after its first (reconciler.py: "a
\* server must stay healthy as long as it was backed off").
RestartsDamped ==
  \A i \in 1..(Len(starts) - 2):
    starts[i + 2] - starts[i] >= backoff_base_seconds + Least(2 * backoff_base_seconds, backoff_max_seconds)

\* The reconciler's timing.  Not too early: it does not act while a command of an
\* operator's is in flight.  Not too late: it leaves a diverged server alone no longer
\* than the longest grace since the last news of it, or the longest backoff since its
\* last attempt.
Longest == Most(grace_seconds, restart_timeout_seconds)
ActsInTime ==
  (ticked' /\ ~ticked) =>
     IF tick' # None THEN op = None
     ELSE list_reconcilable(row) /\ action_for(row) # None =>
            now < Most(row.since + Longest, tried + backoff_max_seconds)
=============================================================================
