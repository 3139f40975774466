----------------------------- MODULE DeliveryMC ------------------------------
(* Small instances of what must be delivered in the end, for TLC: players to  *)
(* their tunnels and due schedules to their runs.  Each owns its own state,   *)
(* so a behaviour is of one of them.                                          *)
EXTENDS TunnelRendezvous

VARIABLES
  part,    \* the component this behaviour is of
  clock, server, action, row, runs, edit, tick, run, lastTick, retry, notifying,
  warned, edits, crashes, boot, dispatched, replay, sent, resent

scheduleVars == <<clock, server, action, row, runs, edit, tick, run, lastTick, retry,
  notifying, warned, edits, crashes, boot, dispatched, replay, sent, resent>>

ScheduleIds == {"s1"}
Servers == {"v1"}
Periods == {2, 3}

S == INSTANCE Schedules WITH Schedules <- ScheduleIds, Jitter <- 0, LateGrace <- 1, RetryDelay <- 1, WarnOffset <- 1,
  WarnGrace <- 0, HistoryCap <- 1, MaxTime <- 4, MaxCrash <- 1, MaxEdit <- 1

\* The variables of a component that is not the one at work are put aside.
AllInit ==
  /\ part \in {"tunnels", "schedules"}
  /\ Init /\ (part = "tunnels" \/ presented = [d \in Dialbacks |-> CHOOSE p \in Players: TRUE])
  /\ IF part = "schedules" THEN S!Init
     ELSE clock = 0 /\ server = 0 /\ action = 0 /\ row = 0 /\ runs = 0 /\ edit = 0
          /\ tick = 0 /\ run = 0 /\ lastTick = 0 /\ retry = 0 /\ notifying = 0
          /\ warned = 0 /\ edits = 0 /\ crashes = 0 /\ boot = 0 /\ dispatched = 0
          /\ replay = 0 /\ sent = 0 /\ resent = 0

AllNext ==
  \/ part = "tunnels" /\ Next /\ UNCHANGED <<part, scheduleVars>>
  \/ part = "schedules" /\ S!Next /\ UNCHANGED <<part, vars>>

allVars == <<part, vars, scheduleVars>>
AllSpec == AllInit /\ [][AllNext]_allVars

\* Each component has the fairness its own specification states.
TunnelsFair ==
  /\ \A p \in Players:
       /\ WF_vars(part = "tunnels" /\ GiveUp(p)) /\ WF_vars(part = "tunnels" /\ Cancel(p))
       /\ WF_vars(part = "tunnels" /\ \E d \in Dialbacks \cup {NoDialback}: Drain(p, d))
  /\ \A d \in Dialbacks:
       /\ WF_vars(part = "tunnels" /\ Send(d))
       /\ WF_vars(part = "tunnels" /\ (Match(d) \/ Reject(d)))
SchedulesFair ==
  /\ WF_scheduleVars(part = "schedules" /\ S!RunnerStep)
  /\ SF_scheduleVars(part = "schedules" /\ S!RunRecord("s1"))
FairAllSpec == AllSpec /\ TunnelsFair /\ SchedulesFair

-----------------------------------------------------------------------------
\* An occurrence is dispatched once, whatever dies, fails or is edited in between; a
\* stop that fell due while the API was down is not carried out later than the grace
\* (#1947), and one run catches up with any number of missed occurrences
\* (schedule_runner.py).
FiresOnce ==
  [][part = "schedules" => S!FiresOnce /\ S!NoStaleStop /\ S!CatchesUpAtOnce]_allVars

\* A due schedule is run, skipped or quarantined in the end, and never stays due for
\* ever behind a slow or failing sibling (schedule_runner.py).
DueIsHandled ==
  (part = "schedules" /\ S!Due("s1")) ~> (part = "schedules" => ~S!Due("s1"))
==============================================================================
