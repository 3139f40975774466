--------------------------- MODULE ServerLifecycle ---------------------------
(***************************************************************************)
(* The lifecycle of one server: its row in the database, the start, stop   *)
(* and reconcile flows of the API that read and write the row, and the     *)
(* workers that execute their commands.                                    *)
(*                                                                         *)
(*   - A flow is one coroutine.  It runs to its next await (a database     *)
(*     transaction or a command's result) in one step; everything else may *)
(*     happen at the await.                                                *)
(*   - A worker runs the server's commands one at a time in arrival order  *)
(*     (its per-server lane).  Results and status changes share the stream *)
(*     back; its single sender picks among the two channels.               *)
(*   - Sessions drop and return, workers reboot, the API restarts, commands *)
(*     time out while the worker still executes them, callers go away.     *)
(*                                                                         *)
(* The grace of the reconciler is longer than any start's round trips, so  *)
(* its start arms begin once no start is under way; its backoff is left    *)
(* open, and its stop arms may run whenever their selection rule allows.   *)
(***************************************************************************)
EXTENDS Integers, Sequences, FiniteSets

CONSTANTS
    Workers,         \* worker ids
    Flows,           \* coroutine slots for operator requests and the reconciler
    NoWorker,        \* the row's NULL assigned_worker_id
    NoFlow,          \* the awaiter of a command nobody awaits any more
    MaxRequests,     \* bound: operator starts, stops, restarts and drains
    MaxFaults,       \* bound: disconnects, crashes, timeouts, cancellations
    MaxLane,         \* bound: commands queued at one worker
    MaxUplink,       \* bound: messages under way from one worker
    Races            \* the narrow races of AllRaces that this instance admits

\* The races whose windows are short or that a grace period makes unlikely.  Each
\* breaks an invariant below, so it is admitted where that is the question asked.
\*   "overtaken_status": a result may overtake a status the worker sent before it
\*   "hasty_stop": a stop may overlap the launch it means to end
\*   "late_revert": a start may commit while a failed one still owes its revert
AllRaces == {"overtaken_status", "hasty_stop", "late_revert"}

ASSUME IdsAssumption == NoWorker \notin Workers /\ NoFlow \notin Flows
ASSUME LifecycleBounds ==
    MaxRequests \in Nat /\ MaxFaults \in Nat /\ MaxLane \in Nat /\ MaxUplink \in Nat
ASSUME RacesAssumption == Races \subseteq AllRaces

VARIABLES
    desired,   \* row: desired_state
    observed,  \* row: observed_state
    assigned,  \* row: assigned_worker_id
    flow,      \* per flow: operation, program counter and locals
    online,    \* workers with a live session
    teardown,  \* workers whose disconnect still owes the bulk "unknown" write
    unreset,   \* the reconciler still owes its startup reset of observed_state
    lane,      \* per worker: commands sent and not executed
    upload,    \* per worker: the snapshot at the head of the lane is uploading
    detached,  \* per worker: the command a dropped session left executing
    inst,      \* per worker: the server's process there
    uplink,    \* per worker: results and status changes under way to the API
    forsaken,  \* history: workers ever given up because they could not be reached
    requests,  \* operator requests so far
    faults     \* faults so far

row == <<desired, observed, assigned>>
wire == <<lane, upload, uplink>>
links == <<online, teardown, unreset>>
bounds == <<requests, faults>>
vars == <<row, flow, links, wire, detached, inst, forsaken, bounds>>

Idle == [op |-> "none", pc |-> "idle", worker |-> NoWorker, skip |-> FALSE,
         attempted |-> FALSE, release |-> FALSE, fresh |-> FALSE]
Begin(op, pc, w) == [Idle EXCEPT !.op = op, !.pc = pc, !.worker = w]

\* A flow at one of these holds the server's stop-convergence claim.
StopPcs == {"stop", "stopping", "confirmed", "gone", "snapshot", "uploading",
            "release", "releaseUnknown"}
\* A flow at one of these has stamped the observed_at of its next write.
StampedPcs == {"converge", "confirmed", "gone", "releaseUnknown"}
\* A flow at one of these awaits a command's result.
AwaitPcs == {"hydrating", "launching", "stopping", "uploading"}

NotRunning == {"stopped", "stopping", "crashed", "unknown"}
AtRest == {"stopped", "unknown", "crashed"}

\* One step of f to the program counter pc.  Entering a stamped one reads the clock.
Goto(f, pc) == [flow EXCEPT ![f].pc = pc, ![f].fresh = pc \in StampedPcs]
Finish(f) == [flow EXCEPT ![f] = Idle]

\* An observed_state write is fresher than every stamp taken before it.
Outdated(fl) == [g \in Flows |-> [fl[g] EXCEPT !.fresh = FALSE]]

Command(op, f) == [kind |-> "command", op |-> op, flow |-> f]
Result(op, f, status) == [kind |-> "result", op |-> op, flow |-> f, status |-> status]
Status(state) == [kind |-> "status", state |-> state]

Elems(s) == {s[i] : i \in 1 .. Len(s)}
Queued(w) == Elems(lane[w])
Messages(w) == Elems(uplink[w])

\* final_snapshot_outstanding: a final snapshot's result is not consumed yet.
Outstanding ==
    \E w \in Workers :
        \/ \E c \in Queued(w) : c.op = "snapshot"
        \/ \E m \in Messages(w) : m.kind = "result" /\ m.op = "snapshot"

\* StopConvergenceGuard.in_flight.
InFlight == Outstanding \/ \E g \in Flows : flow[g].pc \in StopPcs

\* A start that may yet send another command: it has to hydrate first, or it
\* skipped the hydrate and may be told that the working set is absent.
Launching ==
    \E g \in Flows :
        \/ flow[g].pc \in {"launch", "hydrating"}
        \/ flow[g].pc = "launching" /\ flow[g].skip

\* Reconciler._within_grace, on the start arms: every earlier start has ended.
StartsSettled == \A g \in Flows : flow[g].op \notin {"start", "place", "redispatch"}

\* The caller of a stop claims the server, or is refused.
Claim == ~InFlight /\ ("hasty_stop" \in Races \/ ~Launching)

\* What a connected worker did for an earlier start is on the row: the grace of the
\* reconciler's release, which an operator's repeated stop does not wait for.
Reported(w) ==
    /\ StartsSettled
    /\ w \in online =>
          /\ detached[w] = "none"
          /\ \A c \in Queued(w) : c.op # "start"
          /\ \A m \in Messages(w) : m.kind # "status"

\* A running intent without a worker is the orphan the reconciler places anew.  A
\* worker may have yet to register.
Init ==
    /\ desired \in {"stopped", "running"}
    /\ observed = "stopped"
    /\ assigned = NoWorker
    /\ flow = [f \in Flows |-> Idle]
    /\ online \in SUBSET Workers
    /\ teardown = {}
    /\ unreset = TRUE
    /\ lane = [w \in Workers |-> <<>>]
    /\ upload = [w \in Workers |-> FALSE]
    /\ detached = [w \in Workers |-> "none"]
    /\ inst = [w \in Workers |-> "none"]
    /\ uplink = [w \in Workers |-> <<>>]
    /\ forsaken = {}
    /\ requests = 0
    /\ faults = 0

Request == requests < MaxRequests /\ requests' = requests + 1 /\ UNCHANGED faults
Fault == faults < MaxFaults /\ faults' = faults + 1 /\ UNCHANGED requests

\* What f's release does to the history: a worker given up because it could not be
\* reached may keep a process nobody commands any more.
Forsake(f) == forsaken' = IF flow[f].release THEN forsaken
                                             ELSE forsaken \cup {flow[f].worker}

-----------------------------------------------------------------------------
\* Starts: StartServer, place_and_start and redispatch_start share _launch.

\* StartServer.__call__ up to its commit: only a stopped, unassigned row starts.
Start(f, w) ==
    /\ Request
    /\ flow[f] = Idle
    /\ desired = "stopped" /\ assigned = NoWorker
    /\ w \in online
    /\ "late_revert" \in Races \/ \A g \in Flows : flow[g].pc # "revert"
    /\ desired' = "running"
    /\ assigned' = w
    /\ flow' = [flow EXCEPT ![f] = Begin("start", "launch", w)]
    /\ UNCHANGED <<observed, links, wire, detached, inst, forsaken>>

\* place_and_start: a running intent without a worker is placed anew.  The
\* reconciler does not tick before its startup reset.
PlaceAndStart(f, w) ==
    /\ flow[f] = Idle
    /\ ~unreset /\ StartsSettled
    /\ desired = "running" /\ assigned = NoWorker
    /\ w \in online
    /\ assigned' = w
    /\ flow' = [flow EXCEPT ![f] = Begin("place", "launch", w)]
    /\ UNCHANGED <<desired, observed, links, wire, detached, inst, forsaken, bounds>>

\* redispatch_start: the assigned, connected worker is sent the start again.
RedispatchStart(f) ==
    /\ flow[f] = Idle
    /\ ~unreset /\ StartsSettled
    /\ desired = "running" /\ assigned \in online
    /\ observed \in NotRunning
    /\ flow' = [flow EXCEPT ![f] = Begin("redispatch", "launch", assigned)]
    /\ UNCHANGED <<row, links, wire, detached, inst, forsaken, bounds>>

\* The start command was never sent, so the placement may be taken back.
UnsentOrUnanswered(fl) ==
    fl.pc \in {"launch", "hydrating", "launching"} /\ fl.op # "redispatch"
Unsent(fl) ==
    fl.pc \in {"launch", "hydrating"} /\ fl.op # "redispatch" /\ ~fl.attempted

\* _final_snapshot's verdict: the upload is over.  One that timed out may be live.
SettledRegardless(fl, timedOut) == fl.pc \in {"snapshot", "uploading"} /\ fl.release
Settled(fl, timedOut) ==
    fl.pc \in {"snapshot", "uploading"} /\ fl.release /\ ~timedOut

\* What a flow does when its command cannot be sent or loses its answer.
Lost(fl, timedOut) ==
    CASE Unsent(fl)            -> [fl EXCEPT !.pc = "revert"]
      [] Settled(fl, timedOut) -> [fl EXCEPT !.pc = "release"]
      [] OTHER                 -> Idle

\* GrpcControlPlane.dispatch: f sends op and waits as sent says.
Dispatch(f, op, sent) ==
    LET w == flow[f].worker
    IN IF w \in online
       THEN /\ Len(lane[w]) < MaxLane
            /\ lane' = [lane EXCEPT ![w] = Append(@, Command(op, f))]
            /\ flow' = [flow EXCEPT ![f] = sent]
       ELSE /\ flow' = [flow EXCEPT ![f] = Lost(@, FALSE)]
            /\ UNCHANGED lane

SendHydrate(f) ==
    Dispatch(f, "hydrate", [flow[f] EXCEPT !.pc = "hydrating", !.skip = FALSE])
SendStart(f, skip) ==
    Dispatch(f, "start", [flow[f] EXCEPT !.pc = "launching", !.skip = skip,
                                         !.attempted = TRUE])

\* _launch: the hydrate is skipped when the worker is known to hold a fresh
\* working set; a placement always hydrates.
Launch(f) ==
    /\ flow[f].pc = "launch"
    /\ SendHydrate(f) \/ (flow[f].op # "place" /\ SendStart(f, TRUE))
    /\ UNCHANGED <<row, links, upload, uplink, detached, inst, forsaken, bounds>>

\* The verdict on a failed launch.  INVALID_STATE says the server already runs
\* there, BUSY that its fate is open; anything else says it did not start.
Refused(fl, status) ==
    CASE status = "invalid" /\ (fl.op = "redispatch" \/ (fl.op = "start" /\ fl.attempted))
            -> [fl EXCEPT !.pc = "converge", !.fresh = TRUE]
      [] fl.op = "start" /\ ~(fl.attempted /\ status \in {"invalid", "busy"})
            -> [fl EXCEPT !.pc = "revert"]
      [] fl.op = "place" /\ ~fl.attempted
            -> [fl EXCEPT !.pc = "revert"]
      [] OTHER -> Idle

\* _compensate matches any running row; _unassign only this flow's placement.
Revertible(f) ==
    desired = "running" /\ (flow[f].op = "start" \/ assigned = flow[f].worker)

\* _compensate gives up the intent, _unassign only the placement.
Revert(f) ==
    /\ flow[f].pc = "revert"
    /\ IF Revertible(f)
       THEN /\ desired' = IF flow[f].op = "start" THEN "stopped" ELSE desired
            /\ assigned' = NoWorker
       ELSE UNCHANGED <<desired, assigned>>
    /\ flow' = Finish(f)
    /\ UNCHANGED <<observed, links, wire, detached, inst, forsaken, bounds>>

\* record_observed_state: a write lands on the worker's own row, unless a fresher
\* one came first.
Lands(f) == flow[f].fresh /\ assigned = flow[f].worker

\* The worker said the server already runs: observed_state follows.
Converge(f) ==
    /\ flow[f].pc = "converge"
    /\ observed' = IF Lands(f) THEN "running" ELSE observed
    /\ flow' = IF Lands(f) THEN Outdated(Finish(f)) ELSE Finish(f)
    /\ UNCHANGED <<desired, assigned, links, wire, detached, inst, forsaken, bounds>>

\* RestartServer leaves the row as it is and awaits nothing it acts on.
\* The endpoint: the placement picks the worker.
start_server(f) == \E w \in Workers : Start(f, w)

Restart ==
    /\ Request
    /\ desired = "running" /\ assigned \in online
    /\ Len(lane[assigned]) < MaxLane
    /\ lane' = [lane EXCEPT ![assigned] = Append(@, Command("restart", NoFlow))]
    /\ UNCHANGED <<row, flow, links, upload, uplink, detached, inst, forsaken>>

-----------------------------------------------------------------------------
\* Stops.

\* _mark_stopped: the intent of a placed, running row becomes stopped.
Stoppable == desired = "running" /\ assigned # NoWorker

\* StopServer._stop on a running row, up to its commit.
Stop(f) ==
    /\ Request
    /\ flow[f] = Idle
    /\ Claim
    /\ Stoppable
    /\ desired' = "stopped"
    /\ flow' = [flow EXCEPT ![f] = Begin("stop", "stop", assigned)]
    /\ UNCHANGED <<observed, assigned, links, wire, detached, inst, forsaken>>

\* StopServersAssignedToWorker: a drain records the intent and nothing else.
Drain ==
    /\ Request
    /\ Stoppable
    /\ desired' = "stopped"
    /\ UNCHANGED <<observed, assigned, flow, links, wire, detached, inst, forsaken>>

\* stopped_intent_action: a gone process is released, an unreachable worker whose
\* process is in doubt is given up, anything else is sent the stop again.
OwedReleaseWhenGone == observed \in {"stopped", "crashed"}
OwedRelease == \/ observed \in {"stopped", "crashed"}
               \/ observed \in {"unknown", "stopping"} /\ assigned \notin online

\* _redispatch_stop, by the reconciler or by an operator's repeated stop.
RedispatchStop(f) ==
    /\ flow[f] = Idle
    /\ Claim
    /\ desired = "stopped" /\ assigned \in online
    /\ ~OwedRelease
    /\ flow' = [flow EXCEPT ![f] = Begin("stop", "stop", assigned)]
    /\ UNCHANGED <<row, links, wire, detached, inst, forsaken, bounds>>

\* _clear_stale_assignment, steps A and B: a gone process on a connected worker
\* owes its final snapshot first.
ClearStale(f) ==
    /\ flow[f] = Idle
    /\ Claim
    /\ desired = "stopped" /\ assigned # NoWorker
    /\ OwedRelease
    /\ "hasty_stop" \in Races \/ Reported(assigned)
    /\ flow' = [flow EXCEPT ![f] =
          CASE observed \in {"stopped", "crashed"} /\ assigned \in online
                  -> [Begin("clear", "snapshot", assigned) EXCEPT !.release = TRUE]
            [] observed = "stopping"
                  -> [Begin("clear", "releaseUnknown", assigned) EXCEPT !.fresh = TRUE]
            [] OTHER -> Begin("clear", "release", assigned)]
    /\ UNCHANGED <<row, links, wire, detached, inst, forsaken, bounds>>

SendStop(f) ==
    /\ flow[f].pc = "stop"
    /\ Dispatch(f, "stop", [flow[f] EXCEPT !.pc = "stopping"])
    /\ UNCHANGED <<row, links, upload, uplink, detached, inst, forsaken, bounds>>

\* The stop's answer.  A refusal is left to a later replay.
StopAnswered(fl, status) ==
    CASE status = "ok"       -> [fl EXCEPT !.pc = "confirmed", !.fresh = TRUE]
      [] status = "notfound" -> [fl EXCEPT !.pc = "gone", !.fresh = TRUE]
      [] OTHER               -> Idle

\* _record_stopped_then_final_snapshot: the release follows whether or not this
\* write lands.
RecordStopped(f) ==
    /\ flow[f].pc = "confirmed"
    /\ observed' = IF Lands(f) THEN "stopped" ELSE observed
    /\ LET after == [Goto(f, "snapshot") EXCEPT ![f].release = TRUE]
       IN flow' = IF Lands(f) THEN Outdated(after) ELSE after
    /\ UNCHANGED <<desired, assigned, links, wire, detached, inst, forsaken, bounds>>

\* _release_after_final_snapshot: a crash stands, anything else becomes stopped,
\* and the release follows only if the row was found or put at rest.
RecordGone(f) ==
    LET crashed == observed = "crashed" /\ assigned = flow[f].worker
        after == [Goto(f, "snapshot") EXCEPT ![f].release = crashed \/ Lands(f)]
    IN /\ flow[f].pc = "gone"
       /\ observed' = IF ~crashed /\ Lands(f) THEN "stopped" ELSE observed
       /\ flow' = IF ~crashed /\ Lands(f) THEN Outdated(after) ELSE after
       /\ UNCHANGED <<desired, assigned, links, wire, detached, inst, forsaken, bounds>>

\* _final_snapshot.
SendSnapshot(f) ==
    /\ flow[f].pc = "snapshot"
    /\ Dispatch(f, "snapshot", [flow[f] EXCEPT !.pc = "uploading"])
    /\ UNCHANGED <<row, links, upload, uplink, detached, inst, forsaken, bounds>>

\* clear_assignment_after_final_snapshot.
Clearable(w) == desired = "stopped" /\ assigned = w

Release(f) ==
    LET w == flow[f].worker
    IN /\ flow[f].pc = "release"
       /\ IF Clearable(w) THEN assigned' = NoWorker /\ Forsake(f)
                          ELSE UNCHANGED <<assigned, forsaken>>
       /\ flow' = Finish(f)
       /\ UNCHANGED <<desired, observed, links, wire, detached, inst, bounds>>

\* Step C on a row wedged at stopping: unknown and unassigned in one write.
ReleaseUnknown(f) ==
    LET w == flow[f].worker
    IN /\ flow[f].pc = "releaseUnknown"
       /\ IF Lands(f)
          THEN /\ observed' = "unknown" /\ assigned' = NoWorker /\ Forsake(f)
               /\ flow' = Outdated(Finish(f))
          ELSE UNCHANGED <<observed, assigned, forsaken>> /\ flow' = Finish(f)
       /\ UNCHANGED <<desired, links, wire, detached, inst, bounds>>

-----------------------------------------------------------------------------
\* The API's inbound side: one message of a worker at a time.

Without(s, i) == SubSeq(s, 1, i - 1) \o SubSeq(s, i + 1, Len(s))

\* The sender's select: the oldest message of either channel.
SendableInAnyOrder(w, i) == i \in 1 .. Len(uplink[w])
Sendable(w, i) ==
    /\ i \in 1 .. Len(uplink[w])
    /\ \A j \in 1 .. (i - 1) :
          "overtaken_status" \in Races /\ uplink[w][j].kind # uplink[w][i].kind

\* ServersServerStateSink.record_observed_state: only the owner is heard.
ReceiveStatus(w, i) ==
    /\ Sendable(w, i) /\ w \in online
    /\ uplink[w][i].kind = "status"
    /\ uplink' = [uplink EXCEPT ![w] = Without(@, i)]
    /\ IF assigned = w
       THEN observed' = uplink[w][i].state /\ flow' = Outdated(flow)
       ELSE UNCHANGED <<observed, flow>>
    /\ UNCHANGED <<desired, assigned, links, lane, upload, detached, inst, forsaken,
                   bounds>>

\* ControlPlaneState.resolve, and the awaiting flow up to its next await.
ReceiveResult(w, i) ==
    LET r == uplink[w][i]
        f == r.flow
    IN /\ Sendable(w, i) /\ w \in online
       /\ r.kind = "result" /\ f # NoFlow
       /\ uplink' = [uplink EXCEPT ![w] = Without(@, i)]
       /\ CASE r.op = "hydrate" /\ r.status = "ok" -> SendStart(f, FALSE)
            [] r.op = "hydrate" /\ r.status # "ok" ->
                  flow' = [flow EXCEPT ![f] = Refused(@, r.status)] /\ UNCHANGED lane
            [] r.op = "start" /\ r.status = "ok" -> flow' = Finish(f) /\ UNCHANGED lane
            [] r.op = "start" /\ r.status = "absent" /\ flow[f].skip -> SendHydrate(f)
            [] r.op = "start" /\ r.status # "ok"
               /\ ~(r.status = "absent" /\ flow[f].skip) ->
                  flow' = [flow EXCEPT ![f] = Refused(@, r.status)] /\ UNCHANGED lane
            [] r.op = "stop" ->
                  flow' = [flow EXCEPT ![f] = StopAnswered(@, r.status)] /\ UNCHANGED lane
            [] r.op = "snapshot" ->
                  flow' = [flow EXCEPT ![f] = Lost(@, FALSE)] /\ UNCHANGED lane
       /\ UNCHANGED <<row, links, upload, detached, inst, forsaken, bounds>>

\* A result nobody awaits.  A final snapshot's releases the row it still holds,
\* unless another convergence is in flight (clear_assignment_after_late_snapshot).
ReceiveLate(w, i) ==
    LET r == uplink[w][i]
    IN /\ Sendable(w, i) /\ w \in online
       /\ r.kind = "result" /\ r.flow = NoFlow
       /\ uplink' = [uplink EXCEPT ![w] = Without(@, i)]
       /\ UNCHANGED <<desired, observed, flow, links, lane, upload, detached, inst,
                      forsaken, bounds>>
       /\ assigned' = IF /\ r.op = "snapshot" /\ ~InFlight'
                         /\ Clearable(w) /\ observed \in {"stopped", "crashed"}
                      THEN NoWorker ELSE assigned

-----------------------------------------------------------------------------
\* The worker: the lane executes one command at a time.

Tell(w, messages) ==
    /\ Len(uplink[w]) + Len(messages) <= MaxUplink
    /\ uplink' = [uplink EXCEPT ![w] = @ \o messages]
Becomes(w, state) == inst' = [inst EXCEPT ![w] = state] /\ UNCHANGED forsaken

Alive(w) == inst[w] # "none"
Up(w) == inst[w] \in {"starting", "running"}

\* What a command may do there: the process afterwards, the status changes it emits
\* and the answer.
Outcome(p, emitted, status) == [to |-> p, emits |-> emitted, status |-> status]
Unmoved(w, status) == Outcome(inst[w], <<>>, status)
StatusesOfStop == <<Status("stopping"), Status("stopped")>>

\* Manager.reserve: a live instance refuses a hydrate and a start, an orphan leaves
\* their fate open.
Reserved(w, outcomes) ==
    IF Up(w) THEN {Unmoved(w, "invalid")}
    ELSE IF Alive(w) THEN {Unmoved(w, "busy")}
    ELSE outcomes

HydrateOutcomes(w) == Reserved(w, {Unmoved(w, "ok"), Unmoved(w, "failed")})

StartOutcomes(w) ==
    Reserved(w, {Outcome("starting", <<Status("starting")>>, "ok"),
                 Unmoved(w, "failed"), Unmoved(w, "absent")})

\* A stop that fails to confirm the process dead leaves it an orphan.
StopOutcomes(w) ==
    IF ~Alive(w) THEN {Unmoved(w, "notfound")}
    ELSE {Outcome("none", StatusesOfStop, "ok"),
          Outcome("orphan", <<Status("stopping")>>, "failed")}

RestartOutcomes(w) ==
    IF ~Up(w) THEN {Unmoved(w, "refused")}
    ELSE {Outcome("starting", StatusesOfStop \o <<Status("starting")>>, "ok"),
          Outcome("none", StatusesOfStop, "failed"),
          Outcome("orphan", <<Status("stopping")>>, "failed")}

\* Manager.Handle: the id's reservation, then the command's handler.
Outcomes(w, op) ==
    IF detached[w] # "none" THEN {Unmoved(w, "busy")}
    ELSE CASE op = "hydrate" -> HydrateOutcomes(w)
           [] op = "start"   -> StartOutcomes(w)
           [] op = "stop"    -> StopOutcomes(w)
           [] op = "restart" -> RestartOutcomes(w)

\* A command no flow awaits is answered to nobody, except a final snapshot.
Answer(c, status) == IF c.flow = NoFlow THEN <<>> ELSE <<Result(c.op, c.flow, status)>>

\* The lane executes its head.
Execute(w) ==
    LET c == Head(lane[w])
    IN /\ lane[w] # <<>> /\ c.op # "snapshot"
       /\ \E o \in Outcomes(w, c.op) :
             /\ Becomes(w, o.to)
             /\ Tell(w, o.emits \o Answer(c, o.status))
       /\ lane' = [lane EXCEPT ![w] = Tail(@)]
       /\ UNCHANGED <<row, flow, links, upload, detached, bounds>>

\* handleSnapshot: the upload runs under the id's reservation, or is refused.
BeginUpload(w) ==
    /\ lane[w] # <<>> /\ Head(lane[w]).op = "snapshot" /\ ~upload[w]
    /\ detached[w] = "none" /\ inst[w] # "orphan"
    /\ upload' = [upload EXCEPT ![w] = TRUE]
    /\ UNCHANGED <<row, flow, links, lane, uplink, detached, inst, forsaken, bounds>>

\* The snapshot is answered: published, failed, abandoned at its deadline, or
\* refused (busy, no working set).
EndUpload(w) ==
    LET c == Head(lane[w])
    IN /\ lane[w] # <<>> /\ c.op = "snapshot"
       /\ Tell(w, <<Result("snapshot", c.flow, "done")>>)
       /\ lane' = [lane EXCEPT ![w] = Tail(@)]
       /\ upload' = [upload EXCEPT ![w] = FALSE]
       /\ UNCHANGED <<row, flow, links, detached, inst, forsaken, bounds>>

\* discard_if_stale: an abandoned command still in the outbound queue is dropped.
DropStale(w) ==
    \E i \in 1 .. Len(lane[w]) :
        /\ lane[w][i].flow = NoFlow
        /\ i > 1 \/ ~upload[w]
        /\ lane' = [lane EXCEPT ![w] = Without(@, i)]
        /\ UNCHANGED <<row, flow, links, upload, uplink, detached, inst, forsaken, bounds>>

\* The command a dropped session left executing ends; its answer is lost.
DetachedEnds(w) ==
    /\ detached[w] # "none"
    /\ \E o \in CASE detached[w] = "start" ->
                       {[to |-> "starting", emits |-> <<Status("starting")>>],
                        [to |-> "none", emits |-> <<>>]}
                  [] detached[w] = "stop" ->
                       {[to |-> "none", emits |-> <<Status("stopping"), Status("stopped")>>],
                        [to |-> "orphan", emits |-> <<Status("stopping")>>]}
                  [] detached[w] = "hydrate" -> {[to |-> "none", emits |-> <<>>]} :
          Becomes(w, o.to) /\ Tell(w, o.emits)
    /\ detached' = [detached EXCEPT ![w] = "none"]
    /\ UNCHANGED <<row, flow, links, lane, upload, bounds>>

\* The process becomes ready, dies on its own, or an orphan is confirmed dead.
Ready(w) ==
    /\ inst[w] = "starting" /\ detached[w] = "none"
    /\ Becomes(w, "running")
    /\ Tell(w, <<Status("running")>>)
    /\ UNCHANGED <<row, flow, links, lane, upload, detached, bounds>>

Crash(w) ==
    /\ Fault
    /\ Up(w) /\ detached[w] = "none"
    /\ Becomes(w, "none")
    /\ Tell(w, <<Status("crashed")>>)
    /\ UNCHANGED <<row, flow, links, lane, upload, detached>>

OrphanDies(w) ==
    /\ inst[w] = "orphan" /\ detached[w] = "none"
    /\ Becomes(w, "none")
    /\ Tell(w, <<Status("stopped")>>)
    /\ UNCHANGED <<row, flow, links, lane, upload, detached, bounds>>

-----------------------------------------------------------------------------
\* Faults.

Disowned(s, f) ==
    [i \in 1 .. Len(s) |->
        IF s[i].kind # "status" /\ s[i].flow = f THEN [s[i] EXCEPT !.flow = NoFlow]
                                                 ELSE s[i]]
\* f stops waiting: its command goes on without it.
Abandon(f) ==
    /\ lane' = [w \in Workers |-> Disowned(lane[w], f)]
    /\ uplink' = [w \in Workers |-> Disowned(uplink[w], f)]

\* The dispatch deadline passes.
Timeout(f) ==
    /\ Fault
    /\ flow[f].pc \in AwaitPcs
    /\ Abandon(f)
    /\ flow' = [flow EXCEPT ![f] = Lost(@, TRUE)]
    /\ UNCHANGED <<row, links, upload, detached, inst, forsaken>>

\* The caller is cancelled or the flow's transaction fails: it ends where it is.
\* Nothing is compensated on the way out.
Fail(f) ==
    /\ Fault
    /\ flow[f].pc # "idle"
    /\ Abandon(f)
    /\ flow' = Finish(f)
    /\ UNCHANGED <<row, links, upload, detached, inst, forsaken>>

\* A dropped session keeps at most the command its lane was executing, and only
\* one that had passed its reservation; an upload dies with its session.
Detachable(w) ==
    IF lane[w] = <<>> \/ detached[w] # "none" THEN {}
    ELSE LET op == Head(lane[w]).op
         IN IF (op \in {"hydrate", "start"} /\ ~Alive(w)) \/ (op = "stop" /\ Alive(w))
            THEN {op} ELSE {}

\* The status changes in s, in their order.
Statuses(s) ==
    LET kept == {i \in 1 .. Len(s) : s[i].kind = "status"}
        Nth(k) == CHOOSE i \in kept : Cardinality({j \in kept : j <= i}) = k
    IN [k \in 1 .. Cardinality(kept) |-> s[Nth(k)]]

\* The worker's side of a lost session: results go with it, statuses stay queued.
Cut(ws) ==
    /\ lane' = [w \in Workers |-> IF w \in ws THEN <<>> ELSE lane[w]]
    /\ upload' = [w \in Workers |-> upload[w] /\ w \notin ws]
    /\ uplink' = [w \in Workers |-> IF w \in ws THEN Statuses(uplink[w]) ELSE uplink[w]]
    /\ \E keep \in SUBSET {w \in ws : Detachable(w) # {}} :
          detached' = [w \in Workers |->
              IF w \in keep THEN Head(lane[w]).op ELSE detached[w]]

\* Session's finally and _teardown: the pending commands fail and the worker goes
\* offline in one await-free section, then the bulk write is owed.
Disconnect(w) ==
    /\ Fault
    /\ w \in online
    /\ online' = online \ {w}
    /\ teardown' = teardown \cup {w}
    /\ Cut({w})
    /\ flow' = [f \in Flows |->
          IF flow[f].pc \in AwaitPcs /\ flow[f].worker = w THEN Lost(flow[f], FALSE)
                                                           ELSE flow[f]]
    /\ UNCHANGED <<row, unreset, inst, forsaken>>

\* mark_worker_servers_unknown.  A session that is not the current one any more
\* skips it, unless the worker came back after the check.
MarkUnknown(w) ==
    /\ w \in teardown
    /\ teardown' = teardown \ {w}
    /\ \/ /\ assigned = w
          /\ observed' = "unknown"
          /\ flow' = Outdated(flow)
       \/ /\ assigned # w \/ w \in online
          /\ UNCHANGED <<observed, flow>>
    /\ UNCHANGED <<desired, assigned, online, unreset, wire, detached, inst, forsaken,
                   bounds>>

\* Registration and ResyncStatus: the worker reports what it still holds.
Reconnect(w) ==
    /\ w \notin online
    /\ online' = online \cup {w}
    /\ Tell(w, IF inst[w] = "orphan" THEN <<Status("unknown")>>
               ELSE IF Up(w) /\ detached[w] # "stop" THEN <<Status(inst[w])>>
               ELSE <<>>)
    /\ UNCHANGED <<row, flow, teardown, unreset, lane, upload, detached, inst, forsaken,
                   bounds>>

\* The worker process restarts: its boot sweep ends what ran, and reports it.
Reboot(w) ==
    /\ Fault
    /\ w \notin online
    /\ Becomes(w, "none")
    /\ detached' = [detached EXCEPT ![w] = "none"]
    /\ uplink' = [uplink EXCEPT ![w] =
          IF Alive(w) \/ detached[w] = "start" THEN <<Status("stopped")>> ELSE <<>>]
    /\ UNCHANGED <<row, flow, links, lane, upload>>

\* The API process restarts: flows and sessions are gone, and the reconciler loop starts
\* anew with its reset_done unset.
ApiRestart ==
    /\ Fault
    /\ flow' = [f \in Flows |-> Idle]
    /\ online' = {}
    /\ teardown' = {}
    /\ unreset' = TRUE
    /\ Cut(Workers)
    /\ UNCHANGED <<row, inst, forsaken>>

\* reset_unverifiable_observed_states, the reconciler's first action after a restart:
\* sessions and requests do not wait for it.
ResetUnverifiable ==
    /\ unreset
    /\ unreset' = FALSE
    /\ IF assigned # NoWorker /\ observed \in {"starting", "running", "stopping"}
       THEN observed' = "unknown" /\ flow' = Outdated(flow)
       ELSE UNCHANGED <<observed, flow>>
    /\ UNCHANGED <<desired, assigned, online, teardown, wire, detached, inst, forsaken,
                   bounds>>

-----------------------------------------------------------------------------
FlowStep(f) ==
    \/ Launch(f) \/ Revert(f) \/ Converge(f)
    \/ SendStop(f) \/ RecordStopped(f) \/ RecordGone(f) \/ SendSnapshot(f)
    \/ Release(f) \/ ReleaseUnknown(f)

Reconcile(f) ==
    \/ \E w \in Workers : PlaceAndStart(f, w)
    \/ RedispatchStart(f) \/ RedispatchStop(f) \/ ClearStale(f)

Inbound(w) ==
    \E i \in DOMAIN uplink[w] : ReceiveStatus(w, i) \/ ReceiveResult(w, i) \/ ReceiveLate(w, i)

LaneStep(w) == Execute(w) \/ BeginUpload(w) \/ EndUpload(w)
WorkerStep(w) == LaneStep(w) \/ DetachedEnds(w) \/ Ready(w) \/ OrphanDies(w)

Next ==
    \/ \E f \in Flows :
          \/ start_server(f) \/ Stop(f) \/ Reconcile(f) \/ FlowStep(f) \/ Timeout(f) \/ Fail(f)
    \/ Restart \/ Drain
    \/ \E w \in Workers :
          \/ Inbound(w) \/ WorkerStep(w) \/ DropStale(w) \/ Crash(w)
          \/ Disconnect(w) \/ MarkUnknown(w) \/ Reconnect(w) \/ Reboot(w)
    \/ ApiRestart \/ ResetUnverifiable

Spec == Init /\ [][Next]_vars

\* What the code keeps doing: a coroutine is scheduled again, the reconciler ticks,
\* a worker works off its lane and its detached command and kills its orphan in the
\* end, a live stream delivers, a teardown completes.  Nothing is assumed of
\* operators and faults, nor that a lost worker returns.  (Strong fairness where
\* MaxUplink may be what disables the step for a moment.)
Fairness ==
    /\ \A f \in Flows : WF_vars(FlowStep(f))
    /\ WF_vars(\E f \in Flows : RedispatchStop(f))
    /\ WF_vars(\E f \in Flows : ClearStale(f))
    /\ WF_vars(ResetUnverifiable)
    /\ \A w \in Workers :
          /\ WF_vars(Inbound(w)) /\ WF_vars(MarkUnknown(w))
          /\ WF_vars(LaneStep(w))
          /\ SF_vars(DetachedEnds(w)) /\ SF_vars(OrphanDies(w))

FairSpec == Spec /\ Fairness

-----------------------------------------------------------------------------
Ops == {"start", "place", "redispatch", "stop", "clear"}
Pcs == {"launch", "hydrating", "launching", "revert", "converge"} \cup StopPcs
Verbs == {"hydrate", "start", "stop", "restart", "snapshot"}
States == {"stopped", "starting", "running", "stopping", "crashed", "unknown"}
Awaiters == Flows \cup {NoFlow}
BusyRecords ==
    [op : Ops, pc : Pcs, worker : Workers, skip : BOOLEAN, attempted : BOOLEAN,
     release : BOOLEAN, fresh : BOOLEAN]
FlowRecords == {Idle} \cup BusyRecords
CommandRecords == [kind : {"command"}, op : Verbs, flow : Awaiters]
ResultRecords == [kind : {"result"}, op : Verbs, flow : Awaiters,
                  status : {"ok", "failed", "absent", "invalid", "busy", "notfound",
                            "refused", "done"}]
StatusRecords == [kind : {"status"}, state : States]

TypeOK ==
    /\ desired \in {"stopped", "running"}
    /\ observed \in States
    /\ assigned \in Workers \cup {NoWorker}
    /\ flow \in [Flows -> FlowRecords]
    /\ online \subseteq Workers
    /\ teardown \subseteq Workers
    /\ unreset \in BOOLEAN
    /\ lane \in [Workers -> Seq(CommandRecords)]
    /\ upload \in [Workers -> BOOLEAN]
    /\ detached \in [Workers -> {"none", "hydrate", "start", "stop"}]
    /\ inst \in [Workers -> {"none", "starting", "running", "orphan"}]
    /\ uplink \in [Workers -> Seq(ResultRecords \cup StatusRecords)]
    /\ forsaken \subseteq Workers
    /\ requests \in 0 .. MaxRequests
    /\ faults \in 0 .. MaxFaults

\* Nothing reconciles a stopped row without a worker, so one that still reads
\* starting, running or stopping is wedged: neither at rest nor converging.
NoWedgedRow == desired = "stopped" /\ assigned = NoWorker => observed \in AtRest

\* A stop that heard from its worker leaves no wedged row behind.  The exception is
\* a worker given up while it could not be reached, whose process may live on.
ReleasedAtRest == forsaken = {} => NoWedgedRow

\* A process runs only on the worker the row names, so a later start cannot put a
\* second one elsewhere.  The exception is a worker released while unreachable.
NoLeakedProcess == \A w \in Workers : Alive(w) => assigned = w \/ w \in forsaken

\* The assignment is held while a final snapshot of the server is uploading, so no
\* start hydrates the generation before the one being published.
HeldWhileUploading == \A w \in Workers : upload[w] => assigned = w

\* A stopped intent does not hold a worker for ever: whatever is lost on the way, the
\* stop or the reconciler's replays of it release the row.
StopsConverge == desired = "stopped" ~> assigned = NoWorker
==============================================================================
