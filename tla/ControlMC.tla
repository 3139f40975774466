------------------------------ MODULE ControlMC ------------------------------
(* Small instances of the control plane for TLC: the routing of commands to   *)
(* their workers' sessions, and the flows that stop a server.  Each is        *)
(* followed to its end, and owns its own state, so a behaviour is of one.     *)
EXTENDS CommandRouter

CONSTANTS f1, f2, NoFlow

VARIABLES
    part,    \* the component this behaviour is of
    desired, observed, assigned, flow, online, teardown, unreset, lane, upload,
    detached, inst, uplink, forsaken, requests, faults

lifecycleVars == <<desired, observed, assigned, flow, online, teardown, unreset, lane,
    upload, detached, inst, uplink, forsaken, requests, faults>>

Flows == {f1, f2}

L == INSTANCE ServerLifecycle WITH MaxRequests <- 2, MaxFaults <- 1, MaxLane <- 2,
    MaxUplink <- 4, Races <- {"overtaken_status"}

\* The lifecycle's variables are put aside while the router is at work; the router
\* stays in its initial state while the lifecycle is.
AllInit ==
    /\ part \in {"router", "lifecycle"}
    /\ Init
    /\ IF part = "lifecycle" THEN L!Init
       ELSE /\ desired = "aside" /\ observed = 0 /\ assigned = 0 /\ flow = 0
            /\ online = 0 /\ teardown = 0 /\ unreset = 0 /\ lane = 0 /\ upload = 0
            /\ detached = 0 /\ inst = 0 /\ uplink = 0 /\ forsaken = 0 /\ requests = 0
            /\ faults = 0

AllNext ==
    \/ part = "router" /\ Next /\ UNCHANGED <<part, lifecycleVars>>
    \/ part = "lifecycle" /\ L!Next /\ UNCHANGED <<part, vars>>

allVars == <<part, vars, lifecycleVars>>
AllSpec == AllInit /\ [][AllNext]_allVars

\* Each component has the fairness its own specification states.
RouterFair ==
    /\ \A t \in Tokens :
          /\ WF_vars(part = "router" /\ Teardown(t))
          /\ WF_vars(part = "router" /\ ~peer[t] /\ End(t))
          /\ WF_vars(part = "router" /\ phase[t] \in {"ending", "closed"} /\ PeerDies(t))
    /\ \A c \in Commands :
          /\ WF_vars(part = "router" /\ Send(c)) /\ WF_vars(part = "router" /\ Answer(c))
          /\ WF_vars(part = "router" /\ Handle(c)) /\ WF_vars(part = "router" /\ Discard(c))
LifecycleFair ==
    /\ \A f \in Flows : WF_lifecycleVars(part = "lifecycle" /\ L!FlowStep(f))
    /\ WF_lifecycleVars(part = "lifecycle" /\ \E f \in Flows : L!RedispatchStop(f))
    /\ WF_lifecycleVars(part = "lifecycle" /\ \E f \in Flows : L!ClearStale(f))
    /\ WF_lifecycleVars(part = "lifecycle" /\ L!ResetUnverifiable)
    /\ \A w \in Workers :
          /\ WF_lifecycleVars(part = "lifecycle" /\ L!Inbound(w))
          /\ WF_lifecycleVars(part = "lifecycle" /\ L!MarkUnknown(w))
          /\ WF_lifecycleVars(part = "lifecycle" /\ L!LaneStep(w))
          /\ SF_lifecycleVars(part = "lifecycle" /\ L!DetachedEnds(w))
          /\ SF_lifecycleVars(part = "lifecycle" /\ L!OrphanDies(w))
FairAllSpec == AllSpec /\ RouterFair /\ LifecycleFair

-----------------------------------------------------------------------------
\* A stopped intent does not hold a worker for ever: whatever is lost on the way, the
\* stop or the reconciler's replays of it release the row (stop_server.py,
\* reconciler.py).
StopsConverge == L!StopsConverge
==============================================================================
