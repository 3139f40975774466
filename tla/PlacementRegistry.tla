-------------------------- MODULE PlacementRegistry --------------------------
(***************************************************************************)
(* The in-memory worker registry's placement accounting, and the flows     *)
(* that keep it in step with the server rows of the database:              *)
(*                                                                         *)
(*   - a start reserves a slot, commits the row, then confirms the slot    *)
(*     (StartServer and Reconciler.place_and_start share these steps);     *)
(*   - a stop, a drain or a failed start commits the row out of "running"  *)
(*     and only then decrements the worker's load;                         *)
(*   - a (re)registration empties the worker's committed set and rebuilds  *)
(*     it from the rows, reading them one await before it writes.          *)
(*                                                                         *)
(* Registry calls are synchronous on one event loop, so each is one atomic *)
(* step; every await between them is a point where other flows run.        *)
(***************************************************************************)
EXTENDS Integers, FiniteSets

CONSTANTS
    Workers,            \* worker ids
    Servers,            \* server ids
    Capacity,           \* advertised max_servers per worker, 0 = no cap
    NoWorker,           \* the row's NULL assigned_worker_id
    MaxSessions,        \* bound: sessions ever opened
    MaxSeq,             \* bound: confirms and decrements ever stamped
    SupersededRebuilds, \* whether a session's rebuild may outlive its stream
    OvertakenDecrements \* whether a restart may overtake an owed decrement

ASSUME CapacityAssumption == Capacity \in [Workers -> Nat]
ASSUME NoWorkerAssumption == NoWorker \notin Workers
ASSUME BoundsAssumption == MaxSessions \in Nat /\ MaxSeq \in Nat
ASSUME TimingAssumption ==
    SupersededRebuilds \in BOOLEAN /\ OvertakenDecrements \in BOOLEAN

VARIABLES
    desired,       \* row: desired_state, per server
    assigned,      \* row: assigned_worker_id, per server
    connected,     \* the workers the registry knows and resolves as ONLINE
    known,         \* the workers that have ever registered (keys of _committed)
    session,       \* _sessions: token owning each worker id, -1 = none yet
    nextSession,   \* _next_session
    committed,     \* _committed: servers counted per worker
    reserved,      \* _reserved: tentative placements per worker
    confirmedSeq,  \* _confirmed_seq: per worker and server, -1 = absent
    decrementedSeq,\* _decremented_seq: per worker and server, -1 = absent
    nextSeq,       \* _next_seq
    start,         \* the start flow of each server: its step and its worker
    owed,          \* decrements owed by committed stops and reverts: <<w, s>>
    rebuild,       \* per session token, the rebuild of that session's handler
    dropped,       \* history: <<w, s>> released though its commit had landed
    overtaken      \* history: <<w, s>> confirmed after a stop had decremented it

rowVars == <<desired, assigned>>
sessionVars == <<connected, known, session, nextSession>>
countVars == <<committed, reserved, confirmedSeq, decrementedSeq, nextSeq>>
flowVars == <<start, owed, rebuild>>
history == <<dropped, overtaken>>
vars == <<rowVars, sessionVars, countVars, flowVars, history>>

Tokens == 0 .. (MaxSessions - 1)
Idle == [step |-> "idle", worker |-> NoWorker]
NoRebuild == [step |-> "none", worker |-> NoWorker, epoch |-> 0, tally |-> {}]

\* running_assignment_ids: the servers the rows place on w with desired=running.
Tally(w) == {s \in Servers : desired[s] = "running" /\ assigned[s] = w}

\* _load: committed assignments plus reservations still in flight.  The two
\* dicts are summed, so a server in both counts twice.
Load(w) == Cardinality(committed[w]) + Cardinality(reserved[w])

\* PlacementCandidate.can_host, on the count axis.
CanHost(w) == Capacity[w] = 0 \/ Load(w) + 1 <= Capacity[w]

\* candidates_for_placement then place: the least loaded eligible worker.
\* The tie-break (declared CPU, then the id) is left open.
Placeable(w) ==
    /\ w \in connected
    /\ CanHost(w)
    /\ \A v \in connected : CanHost(v) => Load(w) <= Load(v)

\* A flow took s out of "running" in the database and has yet to decrement.
OwesDecrement(s) == \E w \in Workers : <<w, s>> \in owed

Init ==
    /\ desired = [s \in Servers |-> "stopped"]
    /\ assigned = [s \in Servers |-> NoWorker]
    /\ connected = {}
    /\ known = {}
    /\ session = [w \in Workers |-> -1]
    /\ nextSession = 0
    /\ committed = [w \in Workers |-> {}]
    /\ reserved = [w \in Workers |-> {}]
    /\ confirmedSeq = [w \in Workers |-> [s \in Servers |-> -1]]
    /\ decrementedSeq = [w \in Workers |-> [s \in Servers |-> -1]]
    /\ nextSeq = 0
    /\ start = [s \in Servers |-> Idle]
    /\ owed = {}
    /\ rebuild = [t \in Tokens |-> NoRebuild]
    /\ dropped = {}
    /\ overtaken = {}

-----------------------------------------------------------------------------
\* Sessions.

\* Session: register() under a fresh token, then _rebuild_assignments reads the
\* epoch, with no await in between.  A stream that died cancels its handler, so
\* the worker's earlier rebuild ends here unless SupersededRebuilds says that
\* its transport is half-open and its handler still waits for the database.
Register(w) ==
    /\ nextSession < MaxSessions
    /\ connected' = connected \cup {w}
    /\ known' = known \cup {w}
    /\ session' = [session EXCEPT ![w] = nextSession]
    /\ nextSession' = nextSession + 1
    /\ committed' = [committed EXCEPT ![w] = {}]
    /\ confirmedSeq' = [confirmedSeq EXCEPT ![w] = [s \in Servers |-> -1]]
    /\ decrementedSeq' = [decrementedSeq EXCEPT ![w] = [s \in Servers |-> -1]]
    /\ rebuild' = [t \in Tokens |->
          IF t = nextSession
          THEN [step |-> "reading", worker |-> w, epoch |-> nextSeq, tally |-> {}]
          ELSE IF rebuild[t].worker = w /\ ~SupersededRebuilds
          THEN NoRebuild
          ELSE rebuild[t]]
    /\ dropped' = {p \in dropped : p[1] # w}
    /\ overtaken' = {p \in overtaken : p[1] # w}
    /\ UNCHANGED <<rowVars, reserved, nextSeq, start, owed>>

\* The database answers running_assignment_ids.
ReadTally(t) ==
    /\ rebuild[t].step = "reading"
    /\ rebuild' = [rebuild EXCEPT ![t].step = "writing",
                                  ![t].tally = Tally(rebuild[t].worker)]
    /\ UNCHANGED <<rowVars, sessionVars, countVars, start, owed, history>>

\* Rows whose confirm is stamped at or after the rebuild's epoch.
NothingPreserved(w, epoch) == {}
Preserved(w, epoch) == {s \in committed[w] : confirmedSeq[w][s] >= epoch}

\* Rows whose decrement is stamped at or after the rebuild's epoch.
Tombstoned(w, epoch) == {s \in Servers : decrementedSeq[w][s] >= epoch}

\* set_assignment: rows confirmed since the epoch are kept, rows decremented
\* since the epoch are not resurrected, reservations in the tally are dropped.
SetAssignment(t) ==
    LET r == rebuild[t]
        w == r.worker
        preserved == Preserved(w, r.epoch)
        filtered == r.tally \ Tombstoned(w, r.epoch)
    IN /\ r.step = "writing"
       /\ committed' = [committed EXCEPT ![w] = filtered \cup preserved]
       /\ confirmedSeq' = [confirmedSeq EXCEPT ![w] = [s \in Servers |->
              IF s \in filtered \cup preserved THEN confirmedSeq[w][s] ELSE -1]]
       /\ reserved' = [reserved EXCEPT ![w] = @ \ filtered]
       /\ rebuild' = [rebuild EXCEPT ![t].step = "done"]
       /\ UNCHANGED <<rowVars, sessionVars, decrementedSeq, nextSeq, start, owed,
                      history>>

\* _teardown, or the abort of a failed rebuild: mark_disconnected is guarded by
\* the token, so a superseded session's teardown leaves the worker online.
Teardown(t) ==
    LET w == rebuild[t].worker
    IN /\ rebuild[t].step # "none"
       /\ connected' = IF session[w] = t THEN connected \ {w} ELSE connected
       /\ rebuild' = [rebuild EXCEPT ![t] = NoRebuild]
       /\ UNCHANGED <<rowVars, known, session, nextSession, countVars, start, owed,
                      history>>

-----------------------------------------------------------------------------
\* Starts.  Each holds the server's lifecycle lock up to its commit, so there is
\* at most one per server; a stop takes no lock.

\* The row is read, then a worker is chosen and its slot reserved in one
\* await-free section.
Place(s, w) ==
    /\ start[s].step = "idle"
    /\ assigned[s] = NoWorker
    /\ OvertakenDecrements \/ ~OwesDecrement(s)
    /\ Placeable(w)
    /\ reserved' = [reserved EXCEPT ![w] = @ \cup {s}]
    /\ start' = [start EXCEPT ![s] = [step |-> "placed", worker |-> w]]
    /\ UNCHANGED <<rowVars, sessionVars, committed, confirmedSeq, decrementedSeq,
                   nextSeq, owed, rebuild, history>>

\* update_lifecycle and commit land in the database.
CommitStart(s) ==
    /\ start[s].step = "placed"
    /\ assigned[s] = NoWorker
    /\ desired' = [desired EXCEPT ![s] = "running"]
    /\ assigned' = [assigned EXCEPT ![s] = start[s].worker]
    /\ start' = [start EXCEPT ![s].step = "committed"]
    /\ UNCHANGED <<sessionVars, countVars, owed, rebuild, history>>

\* increment_assignment, once the commit returned.
Confirm(s) ==
    LET w == start[s].worker
    IN /\ start[s].step = "committed"
       /\ nextSeq < MaxSeq
       /\ start' = [start EXCEPT ![s] = Idle]
       /\ IF s \in reserved[w]
          THEN /\ reserved' = [reserved EXCEPT ![w] = @ \ {s}]
               /\ committed' = [committed EXCEPT ![w] = @ \cup {s}]
               /\ confirmedSeq' = [confirmedSeq EXCEPT ![w][s] = nextSeq]
               /\ nextSeq' = nextSeq + 1
          ELSE UNCHANGED <<reserved, committed, confirmedSeq, nextSeq>>
       /\ overtaken' = IF s \in Tally(w) THEN overtaken
                                         ELSE overtaken \cup {<<w, s>>}
       /\ UNCHANGED <<rowVars, sessionVars, decrementedSeq, owed, rebuild, dropped>>

\* release_reservation.
KeepReservation(w, s) == UNCHANGED reserved
ReleaseReservation(w, s) == reserved' = [reserved EXCEPT ![w] = @ \ {s}]

\* The except arm: a failed or cancelled compare-and-set or commit releases the
\* reservation.  A commit that landed all the same leaves its row uncounted.
Abandon(s) ==
    LET w == start[s].worker
    IN /\ start[s].step \in {"placed", "committed"}
       /\ ReleaseReservation(w, s)
       /\ dropped' = IF start[s].step = "committed" THEN dropped \cup {<<w, s>>}
                                                    ELSE dropped
       /\ start' = [start EXCEPT ![s] = Idle]
       /\ UNCHANGED <<rowVars, sessionVars, committed, confirmedSeq,
                      decrementedSeq, nextSeq, owed, rebuild, overtaken>>

-----------------------------------------------------------------------------
\* Stops, drains and reverts: the row leaves "running on w" in the database and
\* the decrement follows once the commit returned.

\* StopServer and drain's stop_assigned keep the assignment for the final
\* snapshot; _compensate and _unassign clear it.
Stoppable(s) == desired[s] = "running" /\ assigned[s] # NoWorker

CommitStop(s) ==
    /\ Stoppable(s)
    /\ desired' = [desired EXCEPT ![s] = "stopped"]
    /\ owed' = owed \cup {<<assigned[s], s>>}
    /\ UNCHANGED <<assigned, sessionVars, countVars, start, rebuild, history>>

CommitRevert(s) ==
    /\ Stoppable(s)
    /\ start[s].step = "idle"
    /\ \E d \in {"stopped", "running"} : desired' = [desired EXCEPT ![s] = d]
    /\ assigned' = [assigned EXCEPT ![s] = NoWorker]
    /\ owed' = owed \cup {<<assigned[s], s>>}
    /\ UNCHANGED <<sessionVars, countVars, start, rebuild, history>>

\* decrement_assignment.  A decrement that finds the server placed on the worker
\* again removes the new placement's row.
Decrement(w, s) ==
    /\ <<w, s>> \in owed
    /\ nextSeq < MaxSeq
    /\ owed' = owed \ {<<w, s>>}
    /\ committed' = [committed EXCEPT ![w] = @ \ {s}]
    /\ confirmedSeq' = [confirmedSeq EXCEPT ![w][s] = -1]
    /\ decrementedSeq' = [decrementedSeq EXCEPT ![w][s] = nextSeq]
    /\ nextSeq' = nextSeq + 1
    /\ UNCHANGED <<rowVars, sessionVars, reserved, start, rebuild, history>>

\* The stop's final snapshot has settled: the assignment is released.
Release(s) ==
    /\ desired[s] = "stopped"
    /\ assigned[s] # NoWorker
    /\ OvertakenDecrements \/ ~OwesDecrement(s)
    /\ assigned' = [assigned EXCEPT ![s] = NoWorker]
    /\ UNCHANGED <<desired, sessionVars, countVars, flowVars, history>>

Next ==
    \/ \E w \in Workers : Register(w)
    \/ \E t \in Tokens : ReadTally(t) \/ SetAssignment(t) \/ Teardown(t)
    \/ \E s \in Servers :
          \/ \E w \in Workers : Place(s, w)
          \/ CommitStart(s)
          \/ Confirm(s)
          \/ Abandon(s)
          \/ CommitStop(s)
          \/ CommitRevert(s)
          \/ Release(s)
    \/ \E w \in Workers, s \in Servers : Decrement(w, s)

Spec == Init /\ [][Next]_vars

-----------------------------------------------------------------------------
Seqs == -1 .. MaxSeq
Pairs == Workers \X Servers
Starts == {Idle} \cup [step : {"placed", "committed"}, worker : Workers]
Rebuilds == {NoRebuild} \cup
    [step : {"reading", "writing", "done"}, worker : Workers,
     epoch : 0 .. MaxSeq, tally : SUBSET Servers]

RowsOK ==
    /\ desired \in [Servers -> {"running", "stopped"}]
    /\ assigned \in [Servers -> Workers \cup {NoWorker}]
SessionsOK ==
    /\ connected \subseteq known
    /\ known \subseteq Workers
    /\ session \in [Workers -> Tokens \cup {-1}]
    /\ nextSession \in 0 .. MaxSessions
CountsOK ==
    /\ committed \in [Workers -> SUBSET Servers]
    /\ reserved \in [Workers -> SUBSET Servers]
    /\ confirmedSeq \in [Workers -> [Servers -> Seqs]]
    /\ decrementedSeq \in [Workers -> [Servers -> Seqs]]
    /\ nextSeq \in 0 .. MaxSeq
FlowsOK ==
    /\ start \in [Servers -> Starts]
    /\ owed \subseteq Pairs
    /\ dropped \subseteq Pairs
    /\ overtaken \subseteq Pairs
RebuildsOK == rebuild \in [Tokens -> Rebuilds]

TypeOK == RowsOK /\ SessionsOK /\ CountsOK /\ FlowsOK /\ RebuildsOK

\* A slot is held only on behalf of a start that has yet to confirm or release
\* it: whatever fails or is cancelled, no reservation outlives its start.
NoLeakedReservation ==
    \A w \in Workers : \A s \in reserved[w] :
        start[s].step \in {"placed", "committed"} /\ start[s].worker = w

\* The session owning w has rebuilt its load.
Rebuilt(w) == session[w] # -1 /\ rebuild[session[w]].step = "done"

\* A server the rows place on a worker is in that worker's load, so placement
\* cannot hand its slot out twice.  The exceptions are the ones the code accepts:
\* the rebuild is not done yet, or a start released a commit that had landed.
PlacedServersCounted ==
    \A w \in Workers : Rebuilt(w) =>
        \A s \in Tally(w) : \/ s \in committed[w] \cup reserved[w]
                            \/ <<w, s>> \in dropped

\* A server that left "running on w" leaves that worker's load with its
\* decrement, and no rebuild brings it back from a tally read before the stop.
\* The exception is a stop that ran before the start it stops had confirmed.
StoppedServersUncounted ==
    \A w \in Workers : \A s \in committed[w] :
        s \in Tally(w) \/ <<w, s>> \in owed \/ <<w, s>> \in overtaken

\* The registry's load is what the rows say: every placed server is counted on its
\* worker and no stopped one is, once nothing about it is in flight
\* (registry.py, placement.py, the rebuild on reconnection).
LoadMatchesRows == PlacedServersCounted /\ StoppedServersUncounted

=============================================================================
