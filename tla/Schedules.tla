------------------------------ MODULE Schedules ------------------------------
(* Scheduled actions: the schedule rows, their edits through the API, and the *)
(* runner that polls and dispatches them (servers/application/schedules.py,   *)
(* schedule_runner.py, servers/adapters/schedule_repository.py).              *)
(*                                                                            *)
(* The runner holds no row lock while an action executes, and an edit reads   *)
(* the row before it writes it: the two overlap in every order.  A crash      *)
(* loses the runner's memory (retries, warnings sent, incidents notified).    *)
EXTENDS Integers, FiniteSets

CONSTANTS
  Schedules, Servers,
  Periods,      \* the cadences an edit may choose
  Jitter,       \* the fixed offset of a cadence, below every period
  LateGrace,    \* LATE_RUN_GRACE
  RetryDelay,   \* _BACKUP_RETRY_DELAY
  WarnOffset,   \* the offset of a stop schedule's warning step
  WarnGrace,    \* effective_warning_grace
  HistoryCap,   \* _HISTORY_CAP
  MaxTime,      \* bound on the clock
  MaxCrash,     \* bound on restarts of the API
  MaxEdit       \* bound on edits, deletes and spoilt rows

None == -1
Times == 0..MaxTime
\* No occurrence computed within the bound on the clock is later.
Latest == MaxTime + Jitter + CHOOSE p \in Periods: \A q \in Periods: q <= p

VARIABLES
  clock,
  server,    \* the server each schedule belongs to
  action,    \* what it does: "backup", or "stop" for any other
  row,       \* the schedule rows
  runs,      \* how many run-history rows each schedule has
  edit,      \* the PATCH in flight on each schedule: what it will write
  tick,      \* the tick in progress: its phase, its instant, what is left to do
  run,       \* where the run of each schedule is
  lastTick, retry, notifying, warned  \* the runner's memory

\* History.
VARIABLES
  edits,          \* edits, deletes and spoilt rows so far
  crashes, boot,  \* restarts, and when the last one was
  dispatched,     \* the occurrences dispatched
  replay,         \* those a crash, a failed record or an overlapping edit may repeat
  sent, resent    \* the occurrences ahead warned of since the last restart; one was again

scope == <<server, action>>
memory == <<lastTick, retry, notifying, warned>>
history == <<edits, crashes, boot, dispatched, replay, sent, resent>>
vars == <<clock, scope, row, runs, edit, tick, run, memory, history>>

NoRow == [state |-> "none", valid |-> TRUE, enabled |-> FALSE, next |-> None,
          period |-> CHOOSE p \in Periods: TRUE]
NoTick == [pc |-> "idle", now |-> 0, prev |-> None, todo |-> {}, handled |-> {},
           occ |-> [s \in Schedules |-> None]]
NoRun == [pc |-> "idle", outcome |-> "none"]
BackupSchedules == {s \in Schedules: action[s] = "backup"}
IsBackup(s) == action[s] = "backup"
Outcomes == {"success", "failure", "corrupt", "skipped"}

TypeOK ==
  /\ clock \in Times /\ server \in [Schedules -> Servers]
  /\ action \in [Schedules -> {"backup", "stop"}]
  /\ row \in [Schedules -> [state: {"none", "live", "deleted"}, valid: BOOLEAN,
                            enabled: BOOLEAN, next: None..Latest, period: Periods]]
  /\ runs \in [Schedules -> 0..HistoryCap]
  /\ \A s \in Schedules: edit[s] = NoRow \/ edit[s].state = "live"
  /\ tick.pc \in {"idle", "runs", "retries", "warnings"}
  /\ tick.todo \subseteq Schedules /\ tick.handled \subseteq Schedules
  /\ run \in [Schedules -> [pc: {"idle", "claimed", "ran"}, outcome: Outcomes \cup {"none"}]]
  /\ lastTick \in None..MaxTime /\ retry \in [Schedules -> None..(MaxTime + RetryDelay)]
  /\ notifying \subseteq Schedules /\ warned \subseteq Schedules \X (0..Latest)

Init ==
  /\ clock = 0 /\ server \in [Schedules -> Servers]
  /\ action \in [Schedules -> {"backup", "stop"}]
  /\ row = [s \in Schedules |-> NoRow] /\ runs = [s \in Schedules |-> 0]
  /\ edit = [s \in Schedules |-> NoRow]
  /\ tick = NoTick /\ run = [s \in Schedules |-> NoRun]
  /\ lastTick = None /\ retry = [s \in Schedules |-> None]
  /\ notifying = {} /\ warned = {}
  /\ edits = 0 /\ crashes = 0 /\ boot = 0
  /\ dispatched = [s \in Schedules |-> {}] /\ replay = [s \in Schedules |-> {}]
  /\ sent = {} /\ resent = FALSE

-----------------------------------------------------------------------------
(* Occurrences.                                                               *)

\* next_interval_run: the first point of the cadence strictly after an instant.
NextAfter(p, t) == ((t - Jitter) \div p + 1) * p + Jitter

\* The columns of a row as an edit at this instant computes them.
Edited(r, p, on) ==
  [r EXCEPT !.state = "live", !.period = p, !.enabled = on,
            !.next = IF on THEN NextAfter(p, clock) ELSE None]

\* SqlAlchemyScheduleRepository.lock: the row, unless deleted or not hydratable.
Lockable(s) == row[s].state = "live" /\ row[s].valid

Counted == edits < MaxEdit /\ edits' = edits + 1

-----------------------------------------------------------------------------
(* The clock and the schedule endpoints.                                      *)

Tock ==
  /\ clock < MaxTime
  /\ clock' = clock + 1
  /\ UNCHANGED <<scope, row, runs, edit, tick, run, memory, history>>

CreateSchedule(s, p, on) ==
  /\ row[s].state = "none"
  /\ row' = [row EXCEPT ![s] = Edited(NoRow, p, on)]
  /\ UNCHANGED <<clock, scope, runs, edit, tick, run, memory, history>>

\* UpdateSchedule reads the row without a lock and computes every column it will write.
UpdateReads(s, p, on) ==
  /\ Lockable(s) /\ edit[s] = NoRow /\ Counted
  /\ edit' = [edit EXCEPT ![s] = Edited(row[s], p, on)]
  /\ UNCHANGED <<clock, scope, row, runs, tick, run, memory, crashes, boot, dispatched, replay,
                 sent, resent>>

\* The UPDATE writes them all; it matches nothing once the row is gone.
\* An edit that overlapped a run may put back the occurrence that run has fired.
UpdateWrites(s) ==
  /\ edit[s] # NoRow
  /\ edit' = [edit EXCEPT ![s] = NoRow]
  /\ IF row[s].state = "live"
       THEN /\ row' = [row EXCEPT ![s] = [edit[s] EXCEPT !.valid = row[s].valid]]
            /\ replay' = [replay EXCEPT ![s] = @ \cup ({edit[s].next} \cap dispatched[s])]
       ELSE UNCHANGED <<row, replay>>
  /\ UNCHANGED <<clock, scope, runs, tick, run, memory, edits, crashes, boot, dispatched,
                 sent, resent>>

\* Its own delete, or the cascade of its server's: the history rows go with the row.
DeleteSchedule(s) ==
  /\ row[s].state = "live" /\ Counted
  /\ row' = [row EXCEPT ![s] = [NoRow EXCEPT !.state = "deleted"]]
  /\ runs' = [runs EXCEPT ![s] = 0]
  /\ UNCHANGED <<clock, scope, edit, tick, run, memory, crashes, boot, dispatched, replay, sent,
                 resent>>

\* The endpoints, for a caller who may manage schedules and run their actions.
create_schedule(s) == \E p \in Periods, on \in BOOLEAN: CreateSchedule(s, p, on)
update_schedule(s) == UpdateWrites(s) \/ \E p \in Periods, on \in BOOLEAN: UpdateReads(s, p, on)
delete_schedule(s) == DeleteSchedule(s)

\* A row stops being hydratable: its time zone left the database of zones, or the row
\* was changed by hand.
Spoils(s) ==
  /\ Lockable(s) /\ row[s].enabled /\ Counted
  /\ row' = [row EXCEPT ![s].valid = FALSE]
  /\ UNCHANGED <<clock, scope, runs, edit, tick, run, memory, crashes, boot, dispatched, replay,
                 sent, resent>>

-----------------------------------------------------------------------------
(* ExecuteScheduleAction.                                                     *)

ServerStates == {"absent", "running", "rest", "transitional"}

\* _precondition_skip, for a server found in state st.
PreconditionSkip(s, st, onlyWhenRunning) ==
  \/ st \in {"absent", "transitional"}
  \/ st = "rest" /\ (IsBackup(s) => onlyWhenRunning)

\* What an execution may end with; the dispatch may itself find the precondition gone.
Results(s) ==
  {"skipped"} \cup
  {o \in {"success", "failure"} \cup (IF IsBackup(s) THEN {"corrupt"} ELSE {}):
     \E st \in ServerStates, only \in BOOLEAN: ~PreconditionSkip(s, st, only)}

-----------------------------------------------------------------------------
(* RunScheduleTick._record, for a run whose occurrence is o.                  *)

\* advance_run_state: nothing moves unless the row is enabled and still at the
\* occurrence that fired; the next one is computed at this instant.
AdvanceRunState(s, o) ==
  IF row[s].enabled /\ row[s].next = o
    THEN [row[s] EXCEPT !.next = NextAfter(row[s].period, clock)]
    ELSE row[s]

\* The failing edge notifies once, the next success clears it, a skip leaves it; a
\* schedule found deleted is forgotten.
Notifies(s, outcome, recorded) ==
  notifying' = (CASE ~recorded -> notifying \ {s}
                  [] outcome \in {"failure", "corrupt"} -> notifying \cup {s}
                  [] outcome = "success" -> notifying \ {s}
                  [] OTHER -> notifying)

\* _reschedule_retry, after a recorded run of a backup's occurrence.
Rearmed(s, outcome) ==
  CASE outcome = "failure" -> clock + RetryDelay
    [] outcome = "success" -> None
    [] OTHER -> retry[s]

\* One transaction that locks the row first: the run is added, the history pruned to
\* its cap and the row advanced, or nothing is recorded at all.
Record(s, outcome, advance, o) ==
  /\ runs' = IF Lockable(s)
               THEN [runs EXCEPT ![s] = IF @ < HistoryCap THEN @ + 1 ELSE @] ELSE runs
  /\ row' = IF Lockable(s) /\ advance
              THEN [row EXCEPT ![s] = AdvanceRunState(s, o)] ELSE row
  /\ Notifies(s, outcome, Lockable(s))

-----------------------------------------------------------------------------
(* The tick: due runs, grouped by server, then retries, then warnings.        *)

Due(s) == row[s].state = "live" /\ row[s].enabled /\ row[s].next <= clock

\* list_due, which disables the due rows it cannot hydrate.
Poll ==
  /\ tick.pc = "idle"
  /\ LET due == {s \in Schedules: Due(s)}
         bad == {s \in due: ~row[s].valid}
     IN  /\ tick' = [pc |-> "runs", now |-> clock, prev |-> lastTick, todo |-> due \ bad,
                     handled |-> due \ bad,
                     occ |-> [s \in Schedules |-> IF s \in due \ bad THEN row[s].next ELSE None]]
         /\ row' = [s \in Schedules |->
                      IF s \in bad THEN [row[s] EXCEPT !.enabled = FALSE, !.next = None] ELSE row[s]]
  /\ lastTick' = clock
  /\ UNCHANGED <<clock, scope, runs, edit, run, retry, notifying, warned, history>>

\* Its server's turn: the runs of one server follow one another.
Turn(s) ==
  /\ tick.pc = "runs" /\ s \in tick.todo /\ run[s].pc = "idle"
  /\ \A u \in tick.todo \ {s}: server[u] = server[s] =>
       run[u].pc = "idle" /\ tick.occ[s] <= tick.occ[u]

\* _is_stale: too late, and not because a sibling of this process was slow.
IsStale(s) ==
  ~IsBackup(s) /\ tick.now - tick.occ[s] > LateGrace
    /\ ~(tick.prev # None /\ tick.occ[s] > tick.prev)

Finished(s) == tick' = [tick EXCEPT !.todo = @ \ {s}]

RunStaleDropped(s) ==
  /\ Turn(s) /\ IsStale(s) /\ Finished(s)
  /\ UNCHANGED <<clock, scope, row, runs, edit, run, memory, history>>

\* A stale occurrence is advanced and recorded as skipped.
RunStale(s) ==
  /\ Turn(s) /\ IsStale(s)
  /\ Record(s, "skipped", TRUE, tick.occ[s])
  /\ retry' = IF Lockable(s) THEN retry ELSE [retry EXCEPT ![s] = None]
  /\ Finished(s)
  /\ UNCHANGED <<clock, scope, edit, run, lastTick, warned, history>>

\* _claim re-reads the row under its lock: a schedule deleted since the poll is
\* forgotten, one disabled or rescheduled is not dispatched.
RunClaim(s) ==
  /\ Turn(s) /\ ~IsStale(s)
  /\ IF Lockable(s) /\ row[s].enabled /\ row[s].next = tick.occ[s]
       THEN /\ run' = [run EXCEPT ![s] = [NoRun EXCEPT !.pc = "claimed"]]
            /\ UNCHANGED tick
       ELSE UNCHANGED run /\ Finished(s)
  /\ IF Lockable(s)
       THEN UNCHANGED <<retry, notifying>>
       ELSE retry' = [retry EXCEPT ![s] = None] /\ notifying' = notifying \ {s}
  /\ UNCHANGED <<clock, scope, row, runs, edit, lastTick, warned, history>>

\* The action executes, with no lock held.
RunExecute(s) ==
  /\ tick.pc = "runs" /\ run[s].pc = "claimed"
  /\ \E o \in Results(s): run' = [run EXCEPT ![s].pc = "ran", ![s].outcome = o]
  /\ dispatched' = [dispatched EXCEPT ![s] = @ \cup {tick.occ[s]}]
  /\ UNCHANGED <<clock, scope, row, runs, edit, tick, memory, edits, crashes, boot, replay,
                 sent, resent>>

RunRecordRetrying(s) ==
  /\ tick.pc = "runs" /\ run[s].pc = "ran"
  /\ Record(s, run[s].outcome, run[s].outcome # "failure", tick.occ[s])
  /\ run' = [run EXCEPT ![s] = NoRun] /\ Finished(s)
  /\ UNCHANGED <<clock, scope, edit, lastTick, retry, warned, history>>

\* Every outcome advances the row; a failed backup also arms one retry.
RunRecord(s) ==
  /\ tick.pc = "runs" /\ run[s].pc = "ran"
  /\ Record(s, run[s].outcome, TRUE, tick.occ[s])
  /\ retry' = [retry EXCEPT ![s] = CASE ~Lockable(s) -> None
                                     [] IsBackup(s) -> Rearmed(s, run[s].outcome)
                                     [] OTHER -> @]
  /\ run' = [run EXCEPT ![s] = NoRun] /\ Finished(s)
  /\ UNCHANGED <<clock, scope, edit, lastTick, warned, history>>

\* The transaction raises: the tick goes on, and the occurrence is due again.
RunRecordFails(s) ==
  /\ tick.pc = "runs" /\ run[s].pc = "ran"
  /\ run' = [run EXCEPT ![s] = NoRun] /\ Finished(s)
  /\ replay' = [replay EXCEPT ![s] = @ \cup {tick.occ[s]}]
  /\ UNCHANGED <<clock, scope, row, runs, edit, memory, edits, crashes, boot, dispatched,
                 sent, resent>>

RetriesBegin ==
  /\ tick.pc = "runs" /\ tick.todo = {}
  /\ tick' = [tick EXCEPT !.pc = "retries",
                !.todo = {s \in Schedules \ tick.handled: retry[s] # None /\ retry[s] <= tick.now}]
  /\ UNCHANGED <<clock, scope, row, runs, edit, run, memory, history>>

\* The retry is spent before anything else: it fires at most once.
RetryClaim(s) ==
  /\ tick.pc = "retries" /\ s \in tick.todo /\ \A u \in Schedules: run[u].pc = "idle"
  /\ retry' = [retry EXCEPT ![s] = None]
  /\ IF Lockable(s) /\ row[s].enabled
       THEN /\ run' = [run EXCEPT ![s] = [NoRun EXCEPT !.pc = "claimed"]]
            /\ UNCHANGED tick
       ELSE UNCHANGED run /\ Finished(s)
  /\ notifying' = IF Lockable(s) THEN notifying ELSE notifying \ {s}
  /\ UNCHANGED <<clock, scope, row, runs, edit, lastTick, warned, history>>

RetryExecute(s) ==
  /\ tick.pc = "retries" /\ run[s].pc = "claimed"
  /\ \E o \in Results(s): run' = [run EXCEPT ![s].pc = "ran", ![s].outcome = o]
  /\ UNCHANGED <<clock, scope, row, runs, edit, tick, memory, history>>

\* A retry is recorded and never advances the row.
RetryRecord(s) ==
  /\ tick.pc = "retries" /\ run[s].pc = "ran"
  /\ Record(s, run[s].outcome, FALSE, None)
  /\ run' = [run EXCEPT ![s] = NoRun] /\ Finished(s)
  /\ UNCHANGED <<clock, scope, edit, lastTick, retry, warned, history>>

\* The warnings whose occurrence is still ahead of the tick.
Ahead(S) == {w \in S: w[2] > tick.now}

\* list_warning_candidates: the enabled stop schedules ahead, within the longest offset.
WarningsBegin ==
  /\ tick.pc = "retries" /\ tick.todo = {}
  /\ warned' = Ahead(warned) /\ sent' = Ahead(sent)
  /\ LET ahead == {s \in Schedules \ BackupSchedules:
                     /\ Lockable(s) /\ row[s].enabled
                     /\ row[s].next > tick.now /\ row[s].next <= tick.now + WarnOffset}
     IN  tick' = [tick EXCEPT !.pc = "warnings", !.todo = ahead,
                    !.occ = [s \in Schedules |-> IF s \in ahead THEN row[s].next ELSE None]]
  /\ UNCHANGED <<clock, scope, row, runs, edit, run, lastTick, retry, notifying, edits, crashes, boot,
                 dispatched, replay, resent>>

\* _warn_schedule: a step past its window is marked, a due one is marked, then sent if
\* the server runs.
Warn(s) ==
  /\ tick.pc = "warnings" /\ s \in tick.todo /\ Finished(s)
  /\ LET key == <<s, tick.occ[s]>>
         missed == tick.now - (tick.occ[s] - WarnOffset) > WarnGrace
     IN  /\ warned' = warned \cup {key}
         /\ \/ UNCHANGED <<sent, resent>>
            \/ /\ key \notin warned /\ ~missed
               /\ sent' = sent \cup {key} /\ resent' = (resent \/ key \in sent)
  /\ UNCHANGED <<clock, scope, row, runs, edit, run, lastTick, retry, notifying, edits,
                 crashes, boot, dispatched, replay>>

TickEnds ==
  /\ tick.pc = "warnings" /\ tick.todo = {}
  /\ tick' = NoTick
  /\ UNCHANGED <<clock, scope, row, runs, edit, run, memory, history>>

\* The API dies and boots.
Crash ==
  /\ crashes < MaxCrash
  /\ crashes' = crashes + 1 /\ boot' = clock
  /\ tick' = NoTick /\ run' = [s \in Schedules |-> NoRun] /\ edit' = [s \in Schedules |-> NoRow]
  /\ lastTick' = None /\ retry' = [s \in Schedules |-> None]
  /\ notifying' = {} /\ warned' = {} /\ sent' = {}
  /\ replay' = [s \in Schedules |->
                  replay[s] \cup IF tick.pc = "runs" /\ run[s].pc = "ran" THEN {tick.occ[s]} ELSE {}]
  /\ UNCHANGED <<clock, scope, row, runs, edits, dispatched, resent>>

RunnerStep ==
  \/ Poll \/ RetriesBegin \/ WarningsBegin \/ TickEnds
  \/ \E s \in Schedules:
       RunStale(s) \/ RunClaim(s) \/ RunExecute(s) \/ RunRecord(s) \/ RetryClaim(s)
         \/ RetryExecute(s) \/ RetryRecord(s) \/ Warn(s)

Next ==
  \/ Tock \/ Crash \/ RunnerStep
  \/ \E s \in Schedules: RunRecordFails(s) \/ Spoils(s)
  \/ \E s \in Schedules: create_schedule(s) \/ update_schedule(s) \/ delete_schedule(s)

\* The lifespan loop keeps ticking and each awaited call returns.  The database does not
\* refuse a run's record for ever.
Fairness == WF_vars(RunnerStep) /\ \A s \in Schedules: SF_vars(RunRecord(s))

Spec == Init /\ [][Next]_vars /\ Fairness

-----------------------------------------------------------------------------
(* Properties.                                                                *)

\* An occurrence is dispatched once.  It is repeated only when the API died between the
\* action and its record, when that record failed, or when an edit that read the row
\* before the run wrote it after.
FiresOnce ==
  \A s \in Schedules:
    tick.pc = "runs" /\ run[s].pc = "claimed" /\ run'[s].pc = "ran" =>
      tick.occ[s] \notin dispatched[s] \/ tick.occ[s] \in replay[s]

\* A stop that fell due while the API was down is not carried out later than the grace:
\* the players of the evening are not stopped by the morning's schedule (#1947).
NoStaleStop ==
  \A s \in Schedules \ BackupSchedules:
    tick.pc = "runs" /\ run[s].pc = "claimed" /\ run'[s].pc = "ran" =>
      tick.now - tick.occ[s] <= LateGrace \/ tick.occ[s] > boot

\* A recorded run moves the row past the present, so any number of missed occurrences
\* is caught up by one run.
CatchesUpAtOnce ==
  \A s \in Schedules:
    row'[s].next # row[s].next /\ run'[s] # run[s] => row'[s].next > clock

\* A due schedule is run, skipped or quarantined in the end, and never stays due for
\* ever behind a slow or failing sibling.
DueIsHandled == \A s \in Schedules: Due(s) ~> ~Due(s)

=============================================================================
