---------------------------- MODULE CommandRouter ----------------------------
(***************************************************************************)
(* The API's command routing: ControlPlaneState, the dispatch of one       *)
(* command, and the session handlers that open, serve and tear down a      *)
(* worker's stream.                                                        *)
(*                                                                         *)
(*   - Every command goes into the outbound queue of the session that owns *)
(*     the worker; its caller awaits a future under a deadline.            *)
(*   - A caller whose deadline passes, or who is cancelled, abandons its   *)
(*     future; it forgets the command only when its task runs again.       *)
(*   - A final snapshot is tracked beyond its caller: its late result      *)
(*     releases the server's assignment.                                   *)
(*   - A worker reconnects while its old session's handler is anywhere     *)
(*     between registration and teardown.                                  *)
(*                                                                         *)
(* State changes without an await in between are one step.                 *)
(***************************************************************************)
EXTENDS Integers, TLAPS

CONSTANTS
    Workers,         \* worker ids
    Commands,        \* command ids; each is dispatched once
    Snapshots,       \* the commands that are final snapshots
    NoWorker,        \* the worker of a token not handed out yet
    MaxSessions,     \* bound: sessions ever registered
    CancelsResolved  \* whether a deadline may strike a call already resolved

ASSUME SnapshotsAssumption == Snapshots \subseteq Commands
ASSUME WorkersAssumption == NoWorker \notin Workers
ASSUME SessionsAssumption == MaxSessions \in Nat
ASSUME CancelsAssumption == CancelsResolved \in BOOLEAN

VARIABLES
    nextToken,      \* sessions registered so far
    workerOf,       \* per token: the worker that registered it
    phase,          \* per token: where its handler is
    peer,           \* per token: whether the worker's end of the stream lives
    current,        \* registry: the token owning each worker id, -1 = none
    owner,          \* _sessions and _outbound: the token whose queue is used
    latestOpened,   \* _latest_opened, -1 = none
    tokenOf,        \* per command: the session whose queue took it, -1 = none
    place,          \* per command: where the message or its result is
    pending,        \* _pending: commands whose future is tracked
    snapshotServers,\* _snapshot_servers: tracked for a waiting caller
    lateSnapshots,  \* _late_snapshots: abandoned by the caller
    caller,         \* per command: the coroutine that dispatched it
    cleared         \* history: late results handed to the late-snapshot sink

sessionVars == <<nextToken, workerOf, phase, peer, current>>
routeVars == <<owner, latestOpened>>
recordVars == <<pending, snapshotServers, lateSnapshots>>
vars == <<sessionVars, routeVars, tokenOf, place, recordVars, caller, cleared>>

Tokens == 0 .. (MaxSessions - 1)

\* The commands the current or an earlier session of w took.
Of(w) == {c \in Commands : tokenOf[c] # -1 /\ workerOf[tokenOf[c]] = w}

Init ==
    /\ nextToken = 0
    /\ workerOf = [t \in Tokens |-> NoWorker]
    /\ phase = [t \in Tokens |-> "none"]
    /\ peer = [t \in Tokens |-> FALSE]
    /\ current = [w \in Workers |-> -1]
    /\ owner = [w \in Workers |-> -1]
    /\ latestOpened = [w \in Workers |-> -1]
    /\ tokenOf = [c \in Commands |-> -1]
    /\ place = [c \in Commands |-> "none"]
    /\ pending = {}
    /\ snapshotServers = {}
    /\ lateSnapshots = {}
    /\ caller = [c \in Commands |-> "new"]
    /\ cleared = {}

-----------------------------------------------------------------------------
\* Sessions.

\* A worker runs one session at a time; the API registers it under a new token.
Register(w) ==
    /\ nextToken < MaxSessions
    /\ \A t \in Tokens : workerOf[t] = w => ~peer[t]
    /\ workerOf' = [workerOf EXCEPT ![nextToken] = w]
    /\ phase' = [phase EXCEPT ![nextToken] = "registered"]
    /\ peer' = [peer EXCEPT ![nextToken] = TRUE]
    /\ current' = [current EXCEPT ![w] = nextToken]
    /\ nextToken' = nextToken + 1
    /\ UNCHANGED <<routeVars, tokenOf, place, recordVars, caller, cleared>>

\* _retire_worker_commands: waiting callers fail, and no record of the worker's
\* commands outlives its session.
KeepCommands(w) == UNCHANGED <<recordVars, caller>>
Retire(w) ==
    /\ snapshotServers' = snapshotServers \ (pending \cap Of(w))
    /\ lateSnapshots' = lateSnapshots \ Of(w)
    /\ pending' = pending \ Of(w)
    /\ caller' = [c \in Commands |->
          IF c \in pending \cap Of(w) /\ caller[c] = "waiting" THEN "unreachable"
                                                               ELSE caller[c]]

\* A new session retires what an earlier one still tracks.
Supersede(w) == Retire(w)

\* The rebuild is over and the session is still the current one: open_session.
Open(t) ==
    LET w == workerOf[t]
    IN /\ phase[t] = "registered"
       /\ current[w] = t /\ latestOpened[w] <= t
       /\ Supersede(w)
       /\ owner' = [owner EXCEPT ![w] = t]
       /\ latestOpened' = [latestOpened EXCEPT ![w] = t]
       /\ phase' = [phase EXCEPT ![t] = "open"]
       /\ UNCHANGED <<nextToken, workerOf, peer, current, tokenOf, place, cleared>>

\* The registration is superseded, refused or its rebuild fails; or the stream of
\* an open session ends, by either side or by the liveness watchdog.
End(t) ==
    /\ phase[t] \in {"registered", "open"}
    /\ phase' = [phase EXCEPT ![t] = "ending"]
    /\ UNCHANGED <<nextToken, workerOf, peer, current, routeVars, tokenOf, place,
                   recordVars, caller, cleared>>

\* fail_worker_pending and close_session, both only for the owning session.
Owns(t) == owner[workerOf[t]] = t

\* _teardown, up to its await.
Teardown(t) ==
    LET w == workerOf[t]
    IN /\ phase[t] = "ending"
       /\ phase' = [phase EXCEPT ![t] = "closed"]
       /\ IF Owns(t)
          THEN Retire(w) /\ owner' = [owner EXCEPT ![w] = -1]
          ELSE UNCHANGED <<recordVars, caller, owner>>
       /\ UNCHANGED <<nextToken, workerOf, peer, current, latestOpened, tokenOf, place,
                      cleared>>

\* The worker's end of the stream is gone, and what it executed with it; a result
\* already received may still be handled.
PeerDies(t) ==
    /\ peer[t]
    /\ peer' = [peer EXCEPT ![t] = FALSE]
    /\ \E lost \in {{"executing"}, {"executing", "result"}} :
          place' = [c \in Commands |->
              IF tokenOf[c] = t /\ place[c] \in lost THEN "gone" ELSE place[c]]
    /\ UNCHANGED <<nextToken, workerOf, phase, current, routeVars, tokenOf, recordVars,
                   caller, cleared>>

-----------------------------------------------------------------------------
\* Commands.

\* dispatch up to its await: register_pending and the put on the owner's queue.
Dispatch(c, w) ==
    /\ caller[c] = "new"
    /\ owner[w] # -1
    /\ tokenOf' = [tokenOf EXCEPT ![c] = owner[w]]
    /\ place' = [place EXCEPT ![c] = "queued"]
    /\ pending' = pending \cup {c}
    /\ snapshotServers' = snapshotServers \cup ({c} \cap Snapshots)
    /\ caller' = [caller EXCEPT ![c] = "waiting"]
    /\ UNCHANGED <<sessionVars, routeVars, lateSnapshots, cleared>>

\* dispatch without a session, or of a message over the size limit.
Refuse(c) ==
    /\ caller[c] = "new"
    /\ caller' = [caller EXCEPT ![c] = "unreachable"]
    /\ UNCHANGED <<sessionVars, routeVars, tokenOf, place, recordVars, cleared>>

\* The deadline passes or the caller is cancelled: the future is cancelled, and the
\* command is forgotten only once the caller's task runs.  A call that was resolved
\* in the same turn of the event loop may still be struck.
Expire(c) ==
    /\ caller[c] = "waiting" \/ (CancelsResolved /\ caller[c] = "resolved")
    /\ caller' = [caller EXCEPT ![c] = "expired"]
    /\ UNCHANGED <<sessionVars, routeVars, tokenOf, place, recordVars, cleared>>

\* What discard_pending keeps of c: a final snapshot's record is promoted.
PromotedNever(c) == {}
Promoted(c) == {c} \cap snapshotServers

\* discard_pending.
Discard(c) ==
    /\ caller[c] = "expired"
    /\ caller' = [caller EXCEPT ![c] = "gaveUp"]
    /\ pending' = pending \ {c}
    /\ snapshotServers' = snapshotServers \ {c}
    /\ lateSnapshots' = lateSnapshots \cup Promoted(c)
    /\ UNCHANGED <<sessionVars, routeVars, tokenOf, place, cleared>>

\* The caller's task runs with its result.
Resume(c) ==
    /\ caller[c] = "resolved"
    /\ caller' = [caller EXCEPT ![c] = "answered"]
    /\ UNCHANGED <<sessionVars, routeVars, tokenOf, place, recordVars, cleared>>

\* discard_if_stale: what becomes of the late records when c is dropped unsent.
LateUnlessStale(c) == lateSnapshots \ {c}

\* The session's sender takes c from the queue and drops it if it was abandoned.
Send(c) ==
    LET t == tokenOf[c]
    IN /\ place[c] = "queued" /\ phase[t] = "open"
       /\ IF c \in pending
          THEN /\ place' = [place EXCEPT ![c] = IF peer[t] THEN "executing" ELSE "gone"]
               /\ UNCHANGED lateSnapshots
          ELSE /\ place' = [place EXCEPT ![c] = "gone"]
               /\ lateSnapshots' = LateUnlessStale(c)
       /\ UNCHANGED <<sessionVars, routeVars, tokenOf, pending, snapshotServers, caller,
                      cleared>>

\* The worker answers.
Answer(c) ==
    /\ place[c] = "executing"
    /\ place' = [place EXCEPT ![c] = "result"]
    /\ UNCHANGED <<sessionVars, routeVars, tokenOf, recordVars, caller, cleared>>

\* The late results resolve hands to the sink: the command was abandoned, whether
\* its caller has forgotten it yet or not.
LateOrAnswered(c) == {c} \cap (lateSnapshots \cup snapshotServers)
Late(c) == {c} \cap (lateSnapshots \cup
                        IF caller[c] = "expired" THEN snapshotServers \cap pending ELSE {})

\* The snapshots still tracked for a waiting caller once c's result is in.
TrackedAfter(c) == IF c \in pending THEN snapshotServers \ {c} ELSE snapshotServers

\* resolve.
Handle(c) ==
    /\ place[c] = "result" /\ phase[tokenOf[c]] = "open"
    /\ place' = [place EXCEPT ![c] = "gone"]
    /\ cleared' = cleared \cup Late(c)
    /\ caller' = IF c \in pending /\ caller[c] = "waiting"
                 THEN [caller EXCEPT ![c] = "resolved"] ELSE caller
    /\ pending' = pending \ {c}
    /\ snapshotServers' = TrackedAfter(c)
    /\ lateSnapshots' = IF c \in pending THEN lateSnapshots ELSE lateSnapshots \ {c}
    /\ UNCHANGED <<sessionVars, routeVars, tokenOf>>

-----------------------------------------------------------------------------
Next ==
    \/ \E w \in Workers : Register(w)
    \/ \E t \in Tokens : Open(t) \/ End(t) \/ Teardown(t) \/ PeerDies(t)
    \/ \E c \in Commands :
          \/ \E w \in Workers : Dispatch(c, w)
          \/ Refuse(c) \/ Expire(c) \/ Discard(c) \/ Resume(c)
          \/ Send(c) \/ Answer(c) \/ Handle(c)

Spec == Init /\ [][Next]_vars

\* A handler, a caller's task and a sender run when they can; a live worker answers;
\* a dead stream is noticed by the watchdog.  No deadline is assumed to pass.
Fairness ==
    /\ \A t \in Tokens : /\ WF_vars(Teardown(t))
                         /\ WF_vars(~peer[t] /\ End(t))
                         /\ WF_vars(phase[t] \in {"ending", "closed"} /\ PeerDies(t))
    /\ \A c \in Commands :
          WF_vars(Send(c)) /\ WF_vars(Answer(c)) /\ WF_vars(Handle(c)) /\ WF_vars(Discard(c))

FairSpec == Spec /\ Fairness

-----------------------------------------------------------------------------
Phases == {"none", "registered", "open", "ending", "closed"}
Places == {"none", "queued", "executing", "result", "gone"}
Callers == {"new", "waiting", "resolved", "expired", "answered", "gaveUp", "unreachable"}

TypeOK ==
    /\ nextToken \in 0 .. MaxSessions
    /\ workerOf \in [Tokens -> Workers \cup {NoWorker}]
    /\ phase \in [Tokens -> Phases]
    /\ peer \in [Tokens -> BOOLEAN]
    /\ current \in [Workers -> Tokens \cup {-1}]
    /\ owner \in [Workers -> Tokens \cup {-1}]
    /\ latestOpened \in [Workers -> Tokens \cup {-1}]
    /\ tokenOf \in [Commands -> Tokens \cup {-1}]
    /\ place \in [Commands -> Places]
    /\ pending \subseteq Commands
    /\ snapshotServers \subseteq Snapshots \cap pending
    /\ lateSnapshots \subseteq Snapshots \ pending
    /\ caller \in [Commands -> Callers]
    /\ cleared \subseteq Snapshots

\* final_snapshot_outstanding, per command.
Outstanding == snapshotServers \cup lateSnapshots

\* The record of a final snapshot belongs to the session that owns the worker and
\* goes when its result is handled or dropped: left behind, it would hold the
\* server's stop convergence in flight for good.  A stream the worker has left keeps
\* its records until the watchdog ends it.
NoStrandedRecord ==
    \A c \in Outstanding :
        /\ owner[workerOf[tokenOf[c]]] = tokenOf[c]
        /\ phase[tokenOf[c]] \in {"open", "ending"}
        /\ place[c] = "gone" => ~peer[tokenOf[c]]

\* The converse: while a worker on a served session executes a final snapshot, the
\* snapshot counts as outstanding, so no other flow releases the row under its
\* upload.
LiveUploadTracked ==
    \A c \in Snapshots :
        place[c] = "executing" /\ phase[tokenOf[c]] = "open" => c \in Outstanding

\* A waiting caller can still be woken: the session it waits on owns the worker.
NoForgottenCaller ==
    \A c \in Commands : caller[c] = "waiting" =>
        c \in pending /\ owner[workerOf[tokenOf[c]]] = tokenOf[c]

\* The result of an outstanding final snapshot reaches its caller or the sink, in
\* whatever order the deadline, the caller's task and the result come.
ResultsReachSomeone ==
    [][\A c \in Snapshots :
          c \in Outstanding /\ place[c] = "result" /\ place'[c] = "gone" /\ peer' = peer
          => c \in cleared' \/ caller'[c] = "resolved"]_vars

\* The routing implements the hold the stop flow relies on.
Standing(c) ==
    LET answered == caller[c] \in {"resolved", "answered"}
    IN CASE c \in Outstanding                                     -> "held"
         [] c \notin Outstanding /\ c \in cleared /\ ~answered    -> "released"
         [] c \notin Outstanding /\ c \notin cleared /\ answered  -> "answered"
         [] c \notin Outstanding /\ c \in cleared /\ answered     -> "consumed twice"
         [] caller[c] = "new"                                      -> "none"
         [] OTHER                                                  -> "lost"
Hold == INSTANCE FinalSnapshotHold WITH hold <- [c \in Snapshots |-> Standing(c)]
HoldSpec == Hold!Spec

\* No caller depends on its deadline: whatever session ends, is superseded or is
\* torn down late, every call is answered or fails.
CallersFreed == \A c \in Commands : caller[c] = "waiting" ~> caller[c] # "waiting"

-----------------------------------------------------------------------------
\* The inductive invariant of the proofs.  TypeOK relates the records to each other; the rest
\* ties them to the sessions and to the callers.

\* Tokens are handed out in order, and a handler past registration has a worker.
SessionsInv ==
    /\ \A t \in Tokens : t >= nextToken => phase[t] = "none" /\ ~peer[t]
    /\ \A t \in Tokens : phase[t] # "none" => workerOf[t] \in Workers
    /\ \A t \in Tokens : peer[t] => phase[t] # "none" /\ current[workerOf[t]] = t

\* The session in _sessions is its worker's, opened and not torn down.
OwnerInv ==
    \A w \in Workers : owner[w] # -1 =>
        workerOf[owner[w]] = w /\ phase[owner[w]] \in {"open", "ending"}

\* A command was taken by a session that was open then; only a live stream executes.
PlaceInv ==
    /\ \A c \in Commands : tokenOf[c] = -1 => place[c] = "none"
    /\ \A c \in Commands : tokenOf[c] # -1 => phase[tokenOf[c]] \notin {"none", "registered"}
    /\ \A c \in Commands : place[c] \in {"executing", "result"} => tokenOf[c] # -1
    /\ \A c \in Commands : place[c] = "executing" => peer[tokenOf[c]]

\* What is tracked was taken by the session that owns its worker.
RecordInv ==
    /\ \A c \in pending \cup lateSnapshots :
          tokenOf[c] # -1 /\ owner[workerOf[tokenOf[c]]] = tokenOf[c]
    /\ pending \cap Snapshots \subseteq snapshotServers
    /\ \A c \in lateSnapshots \cup snapshotServers :
          place[c] = "gone" => ~peer[tokenOf[c]]

\* Where a caller stands says whether its command is tracked.
CallerInv ==
    /\ \A c \in Commands : caller[c] = "new" => tokenOf[c] = -1
    /\ \A c \in Commands : caller[c] = "waiting" => c \in pending
    /\ \A c \in pending : caller[c] \in {"waiting", "expired"}
    /\ \A c \in lateSnapshots : caller[c] = "gaveUp"

RouterInv == TypeOK /\ SessionsInv /\ OwnerInv /\ PlaceInv /\ RecordInv /\ CallerInv
                /\ LiveUploadTracked

\* The router starts without sessions and without commands.
LEMMA RouterInit == Init => RouterInv
  BY SnapshotsAssumption, WorkersAssumption, SessionsAssumption
  DEF Init, RouterInv, TypeOK, SessionsInv, OwnerInv, PlaceInv, RecordInv, CallerInv,
      LiveUploadTracked, Outstanding, Tokens, Phases, Places, Callers

\* Every action keeps every part of the invariant.
LEMMA RouterStep == RouterInv /\ [Next]_vars => RouterInv'
<1> SUFFICES ASSUME RouterInv, [Next]_vars PROVE RouterInv'
  OBVIOUS
<1> USE SnapshotsAssumption, WorkersAssumption, SessionsAssumption DEF RouterInv
<1>s. ASSUME UNCHANGED <<nextToken, workerOf, phase, peer, current>>
      PROVE  SessionsInv'
  BY <1>s DEF SessionsInv
<1>o. ASSUME UNCHANGED <<owner, workerOf, phase>>
      PROVE  OwnerInv'
  BY <1>o DEF OwnerInv
<1>p. ASSUME UNCHANGED <<tokenOf, place, phase, peer>>
      PROVE  PlaceInv'
  BY <1>p DEF PlaceInv
<1>r. ASSUME UNCHANGED <<pending, snapshotServers, lateSnapshots, tokenOf, owner,
                      workerOf, place, peer>>
      PROVE  RecordInv'
  BY <1>r DEF RecordInv
<1>c. ASSUME UNCHANGED <<caller, tokenOf, pending, lateSnapshots>>
      PROVE  CallerInv'
  BY <1>c DEF CallerInv
<1>l. ASSUME UNCHANGED <<place, tokenOf, phase, snapshotServers, lateSnapshots>>
      PROVE  LiveUploadTracked'
  BY <1>l DEF LiveUploadTracked, Outstanding
<1>1. ASSUME NEW w \in Workers, Register(w) PROVE RouterInv'
  <2>1. TypeOK'
    BY <1>1 DEF Register, TypeOK, Tokens, Phases, routeVars, recordVars
  <2>2. SessionsInv'
    BY <1>1 DEF Register, SessionsInv, TypeOK, Tokens
  <2>3. OwnerInv'
    BY <1>1 DEF Register, OwnerInv, TypeOK, Tokens, SessionsInv, routeVars
  <2>4. PlaceInv'
    BY <1>1 DEF Register, PlaceInv, TypeOK, Tokens, SessionsInv
  <2>5. RecordInv'
    BY <1>1 DEF Register, RecordInv, TypeOK, Tokens, SessionsInv, PlaceInv,
       routeVars, recordVars
  <2>6. LiveUploadTracked'
    BY <1>1 DEF Register, LiveUploadTracked, TypeOK, Tokens, SessionsInv,
       PlaceInv, recordVars, Outstanding
  <2> QED
    BY <1>1, <2>1, <2>2, <2>3, <2>4, <2>5, <1>c, <2>6 DEF Register, routeVars,
       recordVars
<1>2. ASSUME NEW t \in Tokens, Open(t) PROVE RouterInv'
  <2>1. TypeOK'
    BY <1>2 DEF Open, Supersede, Retire, Of, TypeOK, Phases, Callers
  <2>2. SessionsInv'
    BY <1>2 DEF Open, Supersede, Retire, Of, SessionsInv, TypeOK
  <2>3. OwnerInv'
    BY <1>2 DEF Open, Supersede, Retire, Of, OwnerInv, TypeOK, SessionsInv
  <2>4. PlaceInv'
    BY <1>2 DEF Open, Supersede, Retire, Of, PlaceInv, TypeOK
  <2>5. RecordInv'
    BY <1>2 DEF Open, Supersede, Retire, Of, RecordInv, TypeOK, SessionsInv
  <2>6. CallerInv'
    BY <1>2 DEF Open, Supersede, Retire, Of, CallerInv, TypeOK
  <2>7. LiveUploadTracked'
    BY <1>2 DEF Open, Supersede, Retire, Of, LiveUploadTracked, TypeOK,
       SessionsInv, PlaceInv, Outstanding
  <2> QED
    BY <1>2, <2>1, <2>2, <2>3, <2>4, <2>5, <2>6, <2>7
<1>3. ASSUME NEW t \in Tokens, End(t) PROVE RouterInv'
  <2>1. TypeOK'
    BY <1>3 DEF End, TypeOK, Phases, routeVars, recordVars
  <2>2. SessionsInv'
    BY <1>3 DEF End, SessionsInv, TypeOK
  <2>3. OwnerInv'
    BY <1>3 DEF End, OwnerInv, TypeOK, routeVars
  <2>4. PlaceInv'
    BY <1>3 DEF End, PlaceInv, TypeOK
  <2>5. LiveUploadTracked'
    BY <1>3 DEF End, LiveUploadTracked, TypeOK, PlaceInv, recordVars,
       Outstanding
  <2> QED
    BY <1>3, <2>1, <2>2, <2>3, <2>4, <1>r, <1>c, <2>5 DEF End, routeVars,
       recordVars
<1>4. ASSUME NEW t \in Tokens, Teardown(t) PROVE RouterInv'
  <2>1. TypeOK'
    BY <1>4 DEF Teardown, Owns, Retire, Of, TypeOK, Phases, Callers, recordVars
  <2>2. SessionsInv'
    BY <1>4 DEF Teardown, Owns, Retire, Of, SessionsInv, TypeOK
  <2>3. OwnerInv'
    BY <1>4 DEF Teardown, Owns, Retire, Of, OwnerInv, TypeOK, SessionsInv
  <2>4. PlaceInv'
    BY <1>4 DEF Teardown, Owns, Retire, Of, PlaceInv, TypeOK
  <2>5. RecordInv'
    BY <1>4 DEF Teardown, Owns, Retire, Of, RecordInv, TypeOK, SessionsInv,
       PlaceInv, recordVars
  <2>6. CallerInv'
    BY <1>4 DEF Teardown, Owns, Retire, Of, CallerInv, TypeOK, recordVars
  <2>7. LiveUploadTracked'
    BY <1>4 DEF Teardown, Owns, Retire, Of, LiveUploadTracked, TypeOK,
       SessionsInv, PlaceInv, RecordInv, recordVars, Outstanding
  <2> QED
    BY <1>4, <2>1, <2>2, <2>3, <2>4, <2>5, <2>6, <2>7
<1>5. ASSUME NEW t \in Tokens, PeerDies(t) PROVE RouterInv'
  <2>1. TypeOK'
    BY <1>5 DEF PeerDies, TypeOK, Places, routeVars, recordVars
  <2>2. SessionsInv'
    BY <1>5 DEF PeerDies, SessionsInv, TypeOK
  <2>3. PlaceInv'
    BY <1>5 DEF PeerDies, PlaceInv, TypeOK
  <2>4. RecordInv'
    BY <1>5 DEF PeerDies, RecordInv, TypeOK, PlaceInv, routeVars, recordVars
  <2>5. LiveUploadTracked'
    BY <1>5 DEF PeerDies, LiveUploadTracked, TypeOK, recordVars, Outstanding
  <2> QED
    BY <1>5, <2>1, <2>2, <1>o, <2>3, <2>4, <1>c, <2>5 DEF PeerDies, routeVars,
       recordVars
<1>6. ASSUME NEW c \in Commands, NEW w \in Workers, Dispatch(c, w) PROVE RouterInv'
  <2>1. TypeOK'
    BY <1>6 DEF Dispatch, TypeOK, Places, Callers, PlaceInv, CallerInv,
       RecordInv, sessionVars, routeVars
  <2>2. PlaceInv'
    BY <1>6 DEF Dispatch, PlaceInv, TypeOK, sessionVars, OwnerInv
  <2>3. RecordInv'
    BY <1>6 DEF Dispatch, RecordInv, TypeOK, sessionVars, routeVars, OwnerInv
  <2>4. CallerInv'
    BY <1>6 DEF Dispatch, CallerInv, TypeOK
  <2>5. LiveUploadTracked'
    BY <1>6 DEF Dispatch, LiveUploadTracked, TypeOK, sessionVars, Outstanding
  <2> QED
    BY <1>6, <2>1, <1>s, <1>o, <2>2, <2>3, <2>4, <2>5 DEF Dispatch, sessionVars,
       routeVars
<1>7. ASSUME NEW c \in Commands, Refuse(c) PROVE RouterInv'
  <2>1. TypeOK'
    BY <1>7 DEF Refuse, TypeOK, Callers, sessionVars, routeVars, recordVars
  <2>2. CallerInv'
    BY <1>7 DEF Refuse, CallerInv, TypeOK, recordVars
  <2> QED
    BY <1>7, <2>1, <1>s, <1>o, <1>p, <1>r, <2>2, <1>l DEF Refuse, sessionVars,
       routeVars, recordVars
<1>8. ASSUME NEW c \in Commands, Expire(c) PROVE RouterInv'
  <2>1. TypeOK'
    BY <1>8 DEF Expire, TypeOK, Callers, sessionVars, routeVars, recordVars
  <2>2. CallerInv'
    BY <1>8 DEF Expire, CallerInv, TypeOK, recordVars
  <2> QED
    BY <1>8, <2>1, <1>s, <1>o, <1>p, <1>r, <2>2, <1>l DEF Expire, sessionVars,
       routeVars, recordVars
<1>9. ASSUME NEW c \in Commands, Discard(c) PROVE RouterInv'
  <2>1. TypeOK'
    BY <1>9 DEF Discard, Promoted, TypeOK, Callers, sessionVars, routeVars
  <2>2. RecordInv'
    BY <1>9 DEF Discard, Promoted, RecordInv, TypeOK, sessionVars, routeVars
  <2>3. CallerInv'
    BY <1>9 DEF Discard, Promoted, CallerInv, TypeOK
  <2>4. LiveUploadTracked'
    BY <1>9 DEF Discard, Promoted, LiveUploadTracked, TypeOK, sessionVars,
       Outstanding
  <2> QED
    BY <1>9, <2>1, <1>s, <1>o, <1>p, <2>2, <2>3, <2>4 DEF Discard, sessionVars,
       routeVars
<1>10. ASSUME NEW c \in Commands, Resume(c) PROVE RouterInv'
  <2>1. TypeOK'
    BY <1>10 DEF Resume, TypeOK, Callers, sessionVars, routeVars, recordVars
  <2>2. CallerInv'
    BY <1>10 DEF Resume, CallerInv, TypeOK, recordVars
  <2> QED
    BY <1>10, <2>1, <1>s, <1>o, <1>p, <1>r, <2>2, <1>l DEF Resume, sessionVars,
       routeVars, recordVars
<1>11. ASSUME NEW c \in Commands, Send(c) PROVE RouterInv'
  <2>1. TypeOK'
    BY <1>11 DEF Send, LateUnlessStale, TypeOK, Places, sessionVars, routeVars
  <2>2. PlaceInv'
    BY <1>11 DEF Send, LateUnlessStale, PlaceInv, TypeOK, sessionVars
  <2>3. RecordInv'
    BY <1>11 DEF Send, LateUnlessStale, RecordInv, TypeOK, sessionVars,
       routeVars
  <2>4. CallerInv'
    BY <1>11 DEF Send, LateUnlessStale, CallerInv
  <2>5. LiveUploadTracked'
    BY <1>11 DEF Send, LateUnlessStale, LiveUploadTracked, TypeOK, RecordInv,
       sessionVars, Outstanding
  <2> QED
    BY <1>11, <2>1, <1>s, <1>o, <2>2, <2>3, <2>4, <2>5 DEF Send, sessionVars,
       routeVars
<1>12. ASSUME NEW c \in Commands, Answer(c) PROVE RouterInv'
  <2>1. TypeOK'
    BY <1>12 DEF Answer, TypeOK, Places, sessionVars, routeVars, recordVars
  <2>2. PlaceInv'
    BY <1>12 DEF Answer, PlaceInv, TypeOK, sessionVars
  <2>3. RecordInv'
    BY <1>12 DEF Answer, RecordInv, TypeOK, sessionVars, routeVars, recordVars
  <2>4. LiveUploadTracked'
    BY <1>12 DEF Answer, LiveUploadTracked, TypeOK, sessionVars, recordVars,
       Outstanding
  <2> QED
    BY <1>12, <2>1, <1>s, <1>o, <2>2, <2>3, <1>c, <2>4 DEF Answer, sessionVars,
       routeVars, recordVars
<1>13. ASSUME NEW c \in Commands, Handle(c) PROVE RouterInv'
  <2>1. TypeOK'
    BY <1>13 DEF Handle, TrackedAfter, Late, TypeOK, Places, Callers,
       sessionVars, routeVars
  <2>2. PlaceInv'
    BY <1>13 DEF Handle, TrackedAfter, Late, PlaceInv, TypeOK, sessionVars
  <2>3. RecordInv'
    BY <1>13 DEF Handle, TrackedAfter, Late, RecordInv, TypeOK, sessionVars,
       routeVars
  <2>4. CallerInv'
    BY <1>13 DEF Handle, TrackedAfter, Late, CallerInv, TypeOK
  <2>5. LiveUploadTracked'
    BY <1>13 DEF Handle, TrackedAfter, Late, LiveUploadTracked, TypeOK,
       sessionVars, Outstanding
  <2> QED
    BY <1>13, <2>1, <1>s, <1>o, <2>2, <2>3, <2>4, <2>5 DEF Handle, sessionVars,
       routeVars
<1>14. ASSUME UNCHANGED vars PROVE RouterInv'
  BY <1>14, <1>s, <1>o, <1>p, <1>r, <1>c, <1>l DEF vars, sessionVars, routeVars,
     recordVars, TypeOK
<1> QED
  BY <1>1, <1>2, <1>3, <1>4, <1>5, <1>6, <1>7, <1>8, <1>9, <1>10, <1>11, <1>12,
     <1>13, <1>14 DEF Next

\* The invariant holds of every behaviour of the router.
LEMMA RouterInvariant == Spec => []RouterInv
  BY RouterInit, RouterStep, PTL DEF Spec

\* ControlPlaneState's maps keep their types, and a final snapshot is tracked for a
\* waiting caller or as late, never as both.
THEOREM RouterTypeCorrect == Spec => []TypeOK
<1>1. RouterInv => TypeOK
  BY DEF RouterInv
<1> QED
  BY <1>1, RouterInvariant, PTL

\* register_pending, open_session and _teardown never leave a caller waiting on a
\* session that no longer owns its worker.
THEOREM CallersNeverForgotten == Spec => []NoForgottenCaller
<1>1. RouterInv => NoForgottenCaller
  BY DEF RouterInv, CallerInv, RecordInv, NoForgottenCaller
<1> QED
  BY <1>1, RouterInvariant, PTL

\* _retire_worker_commands, discard_pending, resolve and discard_if_stale between
\* them remove every record of a final snapshot that no result can settle any more.
THEOREM RecordsNeverStranded == Spec => []NoStrandedRecord
<1>1. RouterInv => NoStrandedRecord
  <2> SUFFICES ASSUME RouterInv, NEW c \in Outstanding
               PROVE  /\ owner[workerOf[tokenOf[c]]] = tokenOf[c]
                      /\ phase[tokenOf[c]] \in {"open", "ending"}
                      /\ place[c] = "gone" => ~peer[tokenOf[c]]
    BY DEF NoStrandedRecord
  <2>1. c \in Commands /\ c \in pending \cup lateSnapshots
    BY SnapshotsAssumption DEF Outstanding, RouterInv, TypeOK
  <2>2. tokenOf[c] # -1 /\ owner[workerOf[tokenOf[c]]] = tokenOf[c]
    BY <2>1 DEF RouterInv, RecordInv
  <2>3. tokenOf[c] \in Tokens /\ workerOf[tokenOf[c]] \in Workers
    BY <2>1, <2>2 DEF RouterInv, TypeOK, PlaceInv, SessionsInv
  <2>4. place[c] = "gone" => ~peer[tokenOf[c]]
    BY DEF RouterInv, RecordInv, Outstanding
  <2> QED
    BY <2>2, <2>3, <2>4 DEF RouterInv, OwnerInv
<1> QED
  BY <1>1, RouterInvariant, PTL

\* While a worker on a served session executes a final snapshot,
\* final_snapshot_outstanding says so.
THEOREM UploadsAlwaysTracked == Spec => []LiveUploadTracked
<1>1. RouterInv => LiveUploadTracked
  BY DEF RouterInv
<1> QED
  BY <1>1, RouterInvariant, PTL

\* resolve hands the result of every outstanding final snapshot to its caller or to
\* the late-snapshot sink, whichever of the deadline and the result came first.
THEOREM ResultsAlwaysReach == Spec => ResultsReachSomeone
<1> DEFINE Reach ==
      \A c \in Snapshots :
          c \in Outstanding /\ place[c] = "result" /\ place'[c] = "gone" /\ peer' = peer
          => c \in cleared' \/ caller'[c] = "resolved"
<1>1. RouterInv /\ [Next]_vars => [Reach]_vars
  <2> SUFFICES ASSUME RouterInv, Next, NEW c \in Snapshots, c \in Outstanding,
                      place[c] = "result", place'[c] = "gone", peer' = peer
               PROVE  c \in cleared' \/ caller'[c] = "resolved"
    OBVIOUS
  <2> USE SnapshotsAssumption DEF RouterInv, TypeOK
  <2>1. ASSUME NEW d \in Commands, Handle(d) PROVE c \in cleared' \/ caller'[c] = "resolved"
    <3>1. c = d
      BY <2>1 DEF Handle
    <3>2. CASE c \in pending
      BY <2>1, <3>1, <3>2 DEF Handle, Late, CallerInv, RecordInv
    <3>3. CASE c \notin pending
      BY <2>1, <3>1, <3>3 DEF Handle, Late, Outstanding
    <3> QED
      BY <3>2, <3>3
  <2>2. ASSUME NEW t \in Tokens, PeerDies(t) PROVE FALSE
    BY <2>2 DEF PeerDies
  <2>3. ASSUME NEW d \in Commands, Send(d) PROVE FALSE
    BY <2>3 DEF Send
  <2>4. ASSUME NEW d \in Commands,
               Answer(d) \/ \E w \in Workers : Dispatch(d, w)
        PROVE  FALSE
    BY <2>4 DEF Answer, Dispatch
  <2> QED
    BY <2>1, <2>2, <2>3, <2>4
    DEF Next, Register, Open, End, Teardown, Refuse, Expire, Discard, Resume
<1>2. Spec => [][Reach]_vars
  BY <1>1, RouterInvariant, PTL DEF Spec
<1> QED
  BY <1>2 DEF ResultsReachSomeone

-----------------------------------------------------------------------------
\* The refinement needs what a settled snapshot may no longer do.
SettledInv ==
    /\ \A c \in cleared : c \notin pending \cup lateSnapshots
    /\ \A c \in cleared : caller[c] \in {"expired", "gaveUp"}

\* A result handed to the sink settles its snapshot for good.
LEMMA SettledStep ==
  ASSUME RouterInv, SettledInv, [Next]_vars, ~CancelsResolved
  PROVE  SettledInv'
<1> USE SnapshotsAssumption DEF SettledInv
<1>k. ASSUME UNCHANGED <<cleared, recordVars, caller>> PROVE SettledInv'
  BY <1>k DEF recordVars
<1>r. ASSUME NEW w, Retire(w), cleared' = cleared PROVE SettledInv'
  BY <1>r DEF Retire, RouterInv, TypeOK
<1>1. ASSUME NEW t \in Tokens, Open(t) PROVE SettledInv'
  BY <1>1, <1>r DEF Open, Supersede
<1>2. ASSUME NEW t \in Tokens, Teardown(t) PROVE SettledInv'
  BY <1>2, <1>r, <1>k DEF Teardown
<1>3. ASSUME NEW c \in Commands, NEW w \in Workers, Dispatch(c, w) PROVE SettledInv'
  BY <1>3 DEF Dispatch, RouterInv, TypeOK
<1>4. ASSUME NEW c \in Commands, Refuse(c) PROVE SettledInv'
  BY <1>4 DEF Refuse, recordVars, RouterInv, TypeOK
<1>5. ASSUME NEW c \in Commands, Expire(c) PROVE SettledInv'
  BY <1>5 DEF Expire, recordVars, RouterInv, TypeOK
<1>6. ASSUME NEW c \in Commands, Discard(c) PROVE SettledInv'
  BY <1>6 DEF Discard, Promoted, RouterInv, TypeOK
<1>7. ASSUME NEW c \in Commands, Resume(c) PROVE SettledInv'
  BY <1>7 DEF Resume, recordVars, RouterInv, TypeOK
<1>8. ASSUME NEW c \in Commands, Send(c) PROVE SettledInv'
  BY <1>8 DEF Send, LateUnlessStale
<1>9. ASSUME NEW c \in Commands, Handle(c) PROVE SettledInv'
  BY <1>9 DEF Handle, Late, TrackedAfter, RouterInv, TypeOK, CallerInv
<1>10. ASSUME UNCHANGED vars PROVE SettledInv'
  BY <1>10, <1>k DEF vars, recordVars
<1> QED
  BY <1>k, <1>1, <1>2, <1>3, <1>4, <1>5, <1>6, <1>7, <1>8, <1>9, <1>10
  DEF Next, Register, End, PeerDies, Answer

\* Where a snapshot stands, by what is tracked of it and by its caller.
Stands ==
    \A c \in Snapshots :
        /\ c \in Outstanding => Standing(c) = "held"
        /\ c \in cleared => Standing(c) = "released"
        /\ c \notin Outstanding /\ c \notin cleared =>
              Standing(c) = IF caller[c] \in {"resolved", "answered"} THEN "answered"
                            ELSE IF caller[c] = "new" THEN "none" ELSE "lost"

\* No snapshot is both tracked and settled, so its standing is one of the three.
LEMMA StandsOne == RouterInv /\ SettledInv => Stands
<1> SUFFICES ASSUME RouterInv, SettledInv, NEW c \in Snapshots
             PROVE  /\ c \in Outstanding => Standing(c) = "held"
                    /\ c \in cleared => Standing(c) = "released"
                    /\ c \notin Outstanding /\ c \notin cleared =>
                          Standing(c) = IF caller[c] \in {"resolved", "answered"}
                                        THEN "answered"
                                        ELSE IF caller[c] = "new" THEN "none" ELSE "lost"
  BY DEF Stands
<1>1. c \in Outstanding => caller[c] \in {"waiting", "expired", "gaveUp"}
  BY DEF RouterInv, TypeOK, CallerInv, Outstanding
<1>2. c \in cleared => c \notin Outstanding /\ caller[c] \in {"expired", "gaveUp"}
  BY DEF SettledInv, RouterInv, TypeOK, Outstanding
<1>3. CASE c \in Outstanding
  BY <1>1, <1>2, <1>3 DEF Standing
<1>4. CASE c \in cleared
  BY <1>2, <1>4 DEF Standing
<1>5. CASE c \notin Outstanding /\ c \notin cleared
  BY <1>5 DEF Standing
<1> QED
  BY <1>3, <1>4, <1>5

\* The same of the state after a step.
LEMMA StandsNext == RouterInv' /\ SettledInv' => Stands'
  BY StandsOne, PTL

\* Every step of the router is a step of the abstract hold, or none.
LEMMA HoldStep ==
  ASSUME RouterInv, RouterInv', SettledInv, SettledInv', [Next]_vars, ~CancelsResolved
  PROVE  [Hold!Next]_([c \in Snapshots |-> Standing(c)])
<1> DEFINE held == [c \in Snapshots |-> Standing(c)]
<1>st. Stands /\ Stands'
  BY StandsOne, StandsNext
<1> USE SnapshotsAssumption
<1>k. ASSUME NEW cs, \A d \in Snapshots \ cs :
                /\ d \in Outstanding' <=> d \in Outstanding
                /\ d \in cleared' <=> d \in cleared
                /\ d \in Outstanding \/ d \in cleared \/ caller'[d] = caller[d]
      PROVE  \A d \in Snapshots \ cs : Standing(d)' = Standing(d)
  BY <1>k, <1>st DEF Stands
<1>u. ASSUME UNCHANGED <<recordVars, cleared, caller>> PROVE held' = held
  BY <1>u, <1>k DEF recordVars, Outstanding
<1>m. ASSUME NEW c \in Snapshots, NEW from, NEW to,
             Standing(c) = from, Standing(c)' = to,
             \A d \in Snapshots \ {c} : Standing(d)' = Standing(d)
      PROVE  held[c] = from /\ held' = [held EXCEPT ![c] = to]
  BY <1>m
<1>l. ASSUME NEW w, Retire(w), cleared' = cleared PROVE Hold!Next
  <2> DEFINE cs == {c \in Snapshots : c \in Outstanding /\ c \in Of(w)}
  <2>1. \A d \in Snapshots \ cs : Standing(d)' = Standing(d)
    <3>1. \A d \in Snapshots \ cs : /\ d \in Outstanding' <=> d \in Outstanding
                                    /\ caller'[d] = caller[d]
      BY <1>l DEF Retire, Outstanding, RouterInv, TypeOK, RecordInv
    <3> QED
      BY <1>l, <1>k, <3>1
  <2>2. \A c \in cs : Standing(c) = "held"
    BY <1>st DEF Stands
  <2>3. \A c \in cs : Standing(c)' = "lost"
    <3> SUFFICES ASSUME NEW c \in cs PROVE Standing(c)' = "lost"
      OBVIOUS
    <3>1. c \notin Outstanding' /\ c \notin cleared'
      BY <1>l DEF Retire, Outstanding, RouterInv, TypeOK, SettledInv
    <3>2. caller'[c] \in {"unreachable", "expired", "gaveUp"}
      BY <1>l DEF Retire, Outstanding, RouterInv, TypeOK, CallerInv
    <3> QED
      BY <1>st, <3>1, <3>2 DEF Stands
  <2>4. Hold!Lose(cs)
    BY <2>1, <2>2, <2>3 DEF Hold!Lose
  <2> QED
    BY <2>4 DEF Hold!Next
<1>1. ASSUME NEW t \in Tokens, Open(t) PROVE Hold!Next
  BY <1>1, <1>l DEF Open, Supersede
<1>2. ASSUME NEW t \in Tokens, Teardown(t) PROVE Hold!Next \/ held' = held
  BY <1>2, <1>l, <1>u DEF Teardown
<1>c. ASSUME NEW c \in Commands, c \notin Snapshots,
             \/ \E w \in Workers : Dispatch(c, w)
             \/ Refuse(c) \/ Expire(c) \/ Discard(c) \/ Resume(c) \/ Send(c) \/ Handle(c)
      PROVE  held' = held
  <2>1. \A d \in Snapshots : /\ d \in Outstanding' <=> d \in Outstanding
                             /\ d \in cleared' <=> d \in cleared
                             /\ caller'[d] = caller[d]
    BY <1>c DEF Dispatch, Refuse, Expire, Discard, Promoted, Resume, Send,
       LateUnlessStale, Handle, TrackedAfter, Late, Outstanding, recordVars,
       RouterInv, TypeOK
  <2> QED
    BY <1>k, <2>1
<1>3. ASSUME NEW c \in Snapshots, NEW w \in Workers, Dispatch(c, w) PROVE Hold!Next
  <2>1. \A d \in Snapshots \ {c} : Standing(d)' = Standing(d)
    <3>1. \A d \in Snapshots \ {c} : /\ d \in Outstanding' <=> d \in Outstanding
                                     /\ d \in cleared' <=> d \in cleared
                                     /\ caller'[d] = caller[d]
      BY <1>3 DEF Dispatch, Outstanding, RouterInv, TypeOK
    <3> QED
      BY <1>k, <3>1
  <2>2. c \notin Outstanding /\ c \notin cleared /\ caller[c] = "new" /\ c \in Outstanding'
    BY <1>3 DEF Dispatch, Outstanding, RouterInv, TypeOK, CallerInv, RecordInv,
       SettledInv
  <2> QED
    BY <1>m, <1>st, <2>1, <2>2 DEF Stands, Hold!Next, Hold!Take, Hold!Settle
<1>4. ASSUME NEW c \in Snapshots, Refuse(c) PROVE Hold!Next
  <2>1. \A d \in Snapshots \ {c} : Standing(d)' = Standing(d)
    <3>1. \A d \in Snapshots \ {c} : /\ d \in Outstanding' <=> d \in Outstanding
                                     /\ d \in cleared' <=> d \in cleared
                                     /\ caller'[d] = caller[d]
      BY <1>4 DEF Refuse, recordVars, Outstanding, RouterInv, TypeOK
    <3> QED
      BY <1>k, <3>1
  <2>2. /\ c \notin Outstanding /\ c \notin cleared /\ caller[c] = "new"
        /\ c \notin Outstanding' /\ c \notin cleared' /\ caller'[c] = "unreachable"
    BY <1>4 DEF Refuse, recordVars, Outstanding, RouterInv, TypeOK, CallerInv,
       SettledInv
  <2> QED
    BY <1>m, <1>st, <2>1, <2>2 DEF Stands, Hold!Next, Hold!Refuse, Hold!Settle
<1>5. ASSUME NEW c \in Snapshots, Expire(c) \/ Discard(c) \/ Resume(c)
      PROVE  held' = held
  <2>1. \A d \in Snapshots \ {c} : Standing(d)' = Standing(d)
    <3>1. \A d \in Snapshots \ {c} : /\ d \in Outstanding' <=> d \in Outstanding
                                     /\ d \in cleared' <=> d \in cleared
                                     /\ caller'[d] = caller[d]
      BY <1>5 DEF Expire, Discard, Promoted, Resume, recordVars, Outstanding,
         RouterInv, TypeOK
    <3> QED
      BY <1>k, <3>1
  <2>2. (c \in Outstanding' <=> c \in Outstanding) /\ cleared' = cleared
    BY <1>5 DEF Expire, Discard, Promoted, Resume, recordVars, Outstanding,
       RouterInv, TypeOK
  <2>3. CASE c \in Outstanding \/ c \in cleared
    BY <1>st, <2>1, <2>2, <2>3 DEF Stands
  <2>4. CASE c \notin Outstanding /\ c \notin cleared
    <3>1. ~Expire(c)
      BY <2>4 DEF Expire, Outstanding, RouterInv, CallerInv, RecordInv
    <3>2. \/ caller[c] = "expired" /\ caller'[c] = "gaveUp"
          \/ caller[c] = "resolved" /\ caller'[c] = "answered"
      BY <1>5, <3>1 DEF Discard, Resume, RouterInv, TypeOK
    <3>3. Standing(c)' = Standing(c)
      BY <1>st, <2>2, <2>4, <3>2 DEF Stands
    <3> QED
      BY <2>1, <3>3
  <2> QED
    BY <2>3, <2>4
<1>6. ASSUME NEW c \in Snapshots, Send(c) PROVE Hold!Next \/ held' = held
  <2>1. CASE c \in lateSnapshots /\ c \notin pending
    <3>1. \A d \in Snapshots \ {c} : Standing(d)' = Standing(d)
      BY <1>6, <1>k DEF Send, LateUnlessStale, Outstanding, RouterInv, TypeOK
    <3>2. /\ c \in Outstanding
          /\ c \notin Outstanding' /\ c \notin cleared' /\ caller'[c] = "gaveUp"
      BY <1>6, <2>1 DEF Send, LateUnlessStale, Outstanding, RouterInv, TypeOK,
         CallerInv, SettledInv
    <3>3. Standing(c) = "held" /\ Standing(c)' = "lost"
      BY <1>st, <3>2 DEF Stands
    <3>4. Hold!Lose({c})
      BY <3>1, <3>3 DEF Hold!Lose
    <3> QED
      BY <3>4 DEF Hold!Next
  <2>2. CASE ~(c \in lateSnapshots /\ c \notin pending)
    BY <1>6, <2>2, <1>u DEF Send, LateUnlessStale, recordVars
  <2> QED
    BY <2>1, <2>2
<1>7. ASSUME NEW c \in Snapshots, Handle(c) PROVE Hold!Next \/ held' = held
  <2>1. \A d \in Snapshots \ {c} : Standing(d)' = Standing(d)
    <3>1. \A d \in Snapshots \ {c} : /\ d \in Outstanding' <=> d \in Outstanding
                                     /\ d \in cleared' <=> d \in cleared
                                     /\ caller'[d] = caller[d]
      BY <1>7 DEF Handle, TrackedAfter, Late, Outstanding, RouterInv, TypeOK
    <3> QED
      BY <1>k, <3>1
  <2>2. CASE c \in pending /\ caller[c] = "waiting"
    <3>1. /\ c \in Outstanding /\ c \notin Outstanding'
          /\ c \notin cleared' /\ caller'[c] = "resolved"
      BY <1>7, <2>2 DEF Handle, TrackedAfter, Late, Outstanding, RouterInv, TypeOK,
         RecordInv, SettledInv
    <3> QED
      BY <1>m, <1>st, <2>1, <3>1 DEF Stands, Hold!Next, Hold!Answer, Hold!Settle
  <2>3. CASE (c \in pending /\ caller[c] = "expired") \/ c \in lateSnapshots
    <3>1. c \in Outstanding /\ c \in cleared'
      BY <1>7, <2>3 DEF Handle, Late, Outstanding, RouterInv, TypeOK, RecordInv
    <3> QED
      BY <1>m, <1>st, <2>1, <3>1 DEF Stands, Hold!Next, Hold!ReleaseLate, Hold!Settle
  <2>4. CASE c \notin pending /\ c \notin lateSnapshots
    BY <1>7, <1>u, <2>4 DEF Handle, TrackedAfter, Late, recordVars, RouterInv, TypeOK
  <2> QED
    BY <2>2, <2>3, <2>4 DEF RouterInv, CallerInv
<1>8. ASSUME UNCHANGED vars PROVE held' = held
  BY <1>8, <1>u DEF vars, recordVars
<1> QED
  BY <1>u, <1>1, <1>2, <1>c, <1>3, <1>4, <1>5, <1>6, <1>7, <1>8
  DEF Next, Register, End, PeerDies, Answer

\* The routing implements the hold the stop flow relies on, when no deadline strikes
\* a call in the turn its result came: each final snapshot's result is consumed
\* once, by its caller or by the sink, and a settled snapshot stays settled.
THEOREM RouterImplementsHold == ASSUME ~CancelsResolved PROVE Spec => HoldSpec
<1>1. Init => SettledInv
  BY DEF Init, SettledInv
<1>2. Init => Hold!Init
  BY RouterInit, StandsOne, <1>1, SnapshotsAssumption
  DEF Init, Hold!Init, Stands, Outstanding
<1>3. Spec => []SettledInv
  BY <1>1, SettledStep, RouterInvariant, PTL DEF Spec
<1> QED
  BY <1>2, <1>3, HoldStep, RouterInvariant, PTL DEF Spec, HoldSpec, Hold!Spec

=============================================================================
