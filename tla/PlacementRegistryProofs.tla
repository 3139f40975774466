----------------------- MODULE PlacementRegistryProofs -----------------------
(***************************************************************************)
(* Proofs about PlacementRegistry, for every set of workers and servers,   *)
(* every capacity and every bound.                                         *)
(***************************************************************************)
EXTENDS PlacementRegistry, TLAPS

\* A registry just constructed, with no flow under way, is well typed.
LEMMA TypeInit == Init => TypeOK
  BY CapacityAssumption, NoWorkerAssumption, BoundsAssumption
  DEF Init, TypeOK, RowsOK, SessionsOK, CountsOK, FlowsOK, RebuildsOK,
      Seqs, Starts, Rebuilds, Tokens

\* A flow past its first step has a worker of its own.
LEMMA FlowWorker ==
  ASSUME TypeOK
  PROVE  /\ \A s \in Servers : start[s].step # "idle" =>
              start[s] \in [step : {"placed", "committed"}, worker : Workers]
         /\ \A t \in Tokens : rebuild[t].step # "none" =>
              rebuild[t] \in [step : {"reading", "writing", "done"}, worker : Workers,
                              epoch : 0 .. MaxSeq, tally : SUBSET Servers]
  BY DEF TypeOK, FlowsOK, RebuildsOK, Starts, Rebuilds, Idle, NoRebuild

\* Every action keeps every part of TypeOK.
LEMMA TypeStep == TypeOK /\ [Next]_vars => TypeOK'
<1> SUFFICES ASSUME TypeOK, [Next]_vars PROVE TypeOK'
  OBVIOUS
<1> USE BoundsAssumption, NoWorkerAssumption DEF TypeOK
<1>r. ASSUME UNCHANGED rowVars PROVE RowsOK'
  BY <1>r DEF RowsOK, rowVars
<1>s. ASSUME UNCHANGED sessionVars PROVE SessionsOK'
  BY <1>s DEF SessionsOK, sessionVars
<1>c. ASSUME UNCHANGED countVars PROVE CountsOK'
  BY <1>c DEF CountsOK, countVars
<1>f. ASSUME UNCHANGED <<start, owed, history>> PROVE FlowsOK'
  BY <1>f DEF FlowsOK, history
<1>b. ASSUME UNCHANGED rebuild PROVE RebuildsOK'
  BY <1>b DEF RebuildsOK
<1>1. ASSUME NEW w \in Workers, Register(w) PROVE TypeOK'
  <2>1. SessionsOK'
    BY <1>1 DEF Register, SessionsOK, Tokens
  <2>2. CountsOK'
    BY <1>1 DEF Register, CountsOK, Seqs
  <2>3. FlowsOK'
    BY <1>1 DEF Register, FlowsOK
  <2>4. RebuildsOK'
    <3>1. [step |-> "reading", worker |-> w, epoch |-> nextSeq, tally |-> {}]
            \in Rebuilds
      BY DEF Rebuilds, CountsOK
    <3>2. NoRebuild \in Rebuilds
      BY DEF Rebuilds
    <3> QED
      BY <1>1, <3>1, <3>2 DEF Register, RebuildsOK
  <2> QED
    BY <1>1, <1>r, <2>1, <2>2, <2>3, <2>4 DEF Register
<1>2. ASSUME NEW t \in Tokens, ReadTally(t) PROVE TypeOK'
  <2>1. RebuildsOK'
    <3>1. Tally(rebuild[t].worker) \subseteq Servers
      BY DEF Tally
    <3>2. [rebuild[t] EXCEPT !.step = "writing", !.tally = Tally(rebuild[t].worker)] \in Rebuilds
      BY <1>2, <3>1, FlowWorker DEF ReadTally, Rebuilds
    <3> QED
      BY <1>2, <3>2 DEF ReadTally, RebuildsOK
  <2> QED
    BY <1>2, <1>r, <1>s, <1>c, <1>f, <2>1 DEF ReadTally
<1>3. ASSUME NEW t \in Tokens, SetAssignment(t) PROVE TypeOK'
  <2> DEFINE w == rebuild[t].worker
             kept == (rebuild[t].tally \ Tombstoned(w, rebuild[t].epoch))
                       \cup Preserved(w, rebuild[t].epoch)
  <2>1. w \in Workers /\ rebuild[t].tally \subseteq Servers
    BY <1>3, FlowWorker DEF SetAssignment
  <2>2. kept \subseteq Servers
    BY <2>1 DEF Preserved, CountsOK
  <2>3. [s \in Servers |-> IF s \in kept THEN confirmedSeq[w][s] ELSE -1]
          \in [Servers -> Seqs]
    BY <2>1 DEF CountsOK, Seqs
  <2>4. CountsOK'
    <3>1. committed' = [committed EXCEPT ![w] = kept]
      BY <1>3 DEF SetAssignment
    <3>2. confirmedSeq' = [confirmedSeq EXCEPT ![w] =
              [s \in Servers |-> IF s \in kept THEN confirmedSeq[w][s] ELSE -1]]
      BY <1>3 DEF SetAssignment
    <3>3. reserved' \in [Workers -> SUBSET Servers]
      BY <1>3 DEF SetAssignment, CountsOK
    <3>4. UNCHANGED <<decrementedSeq, nextSeq>>
      BY <1>3 DEF SetAssignment
    <3> HIDE DEF kept, w
    <3> QED
      BY <2>1, <2>2, <2>3, <3>1, <3>2, <3>3, <3>4 DEF CountsOK
  <2>5. RebuildsOK'
    BY <1>3, FlowWorker DEF SetAssignment, RebuildsOK, Rebuilds
  <2> QED
    BY <1>3, <1>r, <1>s, <1>f, <2>4, <2>5 DEF SetAssignment
<1>4. ASSUME NEW t \in Tokens, Teardown(t) PROVE TypeOK'
  <2>1. SessionsOK'
    BY <1>4 DEF Teardown, SessionsOK
  <2>2. RebuildsOK'
    BY <1>4 DEF Teardown, RebuildsOK, Rebuilds
  <2> QED
    BY <1>4, <1>r, <1>c, <1>f, <2>1, <2>2 DEF Teardown
<1>5. ASSUME NEW s \in Servers, NEW w \in Workers, Place(s, w) PROVE TypeOK'
  <2>1. CountsOK'
    BY <1>5 DEF Place, CountsOK
  <2>2. FlowsOK'
    BY <1>5 DEF Place, FlowsOK, Starts, history
  <2> QED
    BY <1>5, <1>r, <1>s, <1>b, <2>1, <2>2 DEF Place
<1>6. ASSUME NEW s \in Servers, CommitStart(s) PROVE TypeOK'
  <2>1. RowsOK'
    BY <1>6, FlowWorker DEF CommitStart, RowsOK
  <2>2. FlowsOK'
    BY <1>6, FlowWorker DEF CommitStart, FlowsOK, Starts, history
  <2> QED
    BY <1>6, <1>s, <1>c, <1>b, <2>1, <2>2 DEF CommitStart
<1>7. ASSUME NEW s \in Servers, Confirm(s) PROVE TypeOK'
  <2> DEFINE w == start[s].worker
  <2>1. w \in Workers
    BY <1>7, FlowWorker DEF Confirm
  <2>2. CountsOK'
    <3>1. CASE s \in reserved[w]
      <4>1. /\ reserved' = [reserved EXCEPT ![w] = @ \ {s}]
            /\ committed' = [committed EXCEPT ![w] = @ \cup {s}]
            /\ confirmedSeq' = [confirmedSeq EXCEPT ![w][s] = nextSeq]
            /\ nextSeq' = nextSeq + 1 /\ nextSeq < MaxSeq
            /\ UNCHANGED decrementedSeq
        BY <1>7, <3>1 DEF Confirm
      <4> HIDE DEF w
      <4>2. confirmedSeq' \in [Workers -> [Servers -> Seqs]]
        BY <2>1, <4>1 DEF CountsOK, Seqs
      <4> QED
        BY <2>1, <4>1, <4>2 DEF CountsOK
    <3>2. CASE s \notin reserved[w]
      BY <1>7, <3>2, <1>c DEF Confirm, countVars
    <3> QED
      BY <3>1, <3>2
  <2>3. FlowsOK'
    BY <1>7, <2>1 DEF Confirm, FlowsOK, Starts, Pairs
  <2> QED
    BY <1>7, <1>r, <1>s, <1>b, <2>2, <2>3 DEF Confirm
<1>8. ASSUME NEW s \in Servers, Abandon(s) PROVE TypeOK'
  <2>1. start[s].worker \in Workers
    BY <1>8, FlowWorker DEF Abandon
  <2>2. CountsOK'
    BY <1>8 DEF Abandon, ReleaseReservation, CountsOK
  <2>3. FlowsOK'
    BY <1>8, <2>1 DEF Abandon, FlowsOK, Starts, Pairs
  <2> QED
    BY <1>8, <1>r, <1>s, <1>b, <2>2, <2>3 DEF Abandon
<1>9. ASSUME NEW s \in Servers, CommitStop(s) PROVE TypeOK'
  <2>1. RowsOK'
    BY <1>9 DEF CommitStop, RowsOK
  <2>2. FlowsOK'
    BY <1>9 DEF CommitStop, Stoppable, FlowsOK, Pairs, RowsOK, history
  <2> QED
    BY <1>9, <1>s, <1>c, <1>b, <2>1, <2>2 DEF CommitStop
<1>10. ASSUME NEW s \in Servers, CommitRevert(s) PROVE TypeOK'
  <2>1. RowsOK'
    BY <1>10 DEF CommitRevert, RowsOK
  <2>2. FlowsOK'
    BY <1>10 DEF CommitRevert, Stoppable, FlowsOK, Pairs, RowsOK, history
  <2> QED
    BY <1>10, <1>s, <1>c, <1>b, <2>1, <2>2 DEF CommitRevert
<1>11. ASSUME NEW s \in Servers, Release(s) PROVE TypeOK'
  <2>1. RowsOK'
    BY <1>11 DEF Release, RowsOK
  <2> QED
    BY <1>11, <1>s, <1>c, <1>f, <1>b, <2>1 DEF Release, flowVars
<1>12. ASSUME NEW w \in Workers, NEW s \in Servers, Decrement(w, s) PROVE TypeOK'
  <2>1. CountsOK'
    <3>1. confirmedSeq' \in [Workers -> [Servers -> Seqs]]
      BY <1>12 DEF Decrement, CountsOK, Seqs
    <3>2. decrementedSeq' \in [Workers -> [Servers -> Seqs]]
      BY <1>12 DEF Decrement, CountsOK, Seqs
    <3> QED
      BY <1>12, <3>1, <3>2 DEF Decrement, CountsOK
  <2>2. FlowsOK'
    BY <1>12 DEF Decrement, FlowsOK, history
  <2> QED
    BY <1>12, <1>r, <1>s, <1>b, <2>1, <2>2 DEF Decrement
<1>13. ASSUME UNCHANGED vars PROVE TypeOK'
  BY <1>13, <1>r, <1>s, <1>c, <1>f, <1>b DEF vars, flowVars
<1> QED
  BY <1>1, <1>2, <1>3, <1>4, <1>5, <1>6, <1>7, <1>8, <1>9, <1>10, <1>11, <1>12,
     <1>13 DEF Next

\* The registry's dicts and the flows' locals keep their types: every session
\* token, sequence stamp and owed decrement is one the code could have written.
THEOREM TypeCorrect == Spec => []TypeOK
  BY TypeInit, TypeStep, PTL DEF Spec

\* No placement reservation outlives the start that made it (issues #778, #840):
\* whichever await fails or is cancelled, and whatever rebuild runs meanwhile, a
\* reserved slot belongs to a start that will still confirm or release it.
THEOREM ReservationsNeverLeak == Spec => []NoLeakedReservation
<1>1. Init => NoLeakedReservation
  BY DEF Init, NoLeakedReservation
<1>2. TypeOK /\ NoLeakedReservation /\ [Next]_vars => NoLeakedReservation'
  <2> SUFFICES ASSUME TypeOK, NoLeakedReservation, [Next]_vars
               PROVE  NoLeakedReservation'
    OBVIOUS
  <2>k. ASSUME UNCHANGED <<reserved, start>> PROVE NoLeakedReservation'
    BY <2>k DEF NoLeakedReservation
  <2>1. ASSUME NEW t \in Tokens, SetAssignment(t) PROVE NoLeakedReservation'
    BY <2>1 DEF SetAssignment, NoLeakedReservation, TypeOK, CountsOK
  <2>2. ASSUME NEW s \in Servers, NEW w \in Workers, Place(s, w)
        PROVE  NoLeakedReservation'
    BY <2>2 DEF Place, NoLeakedReservation, TypeOK, CountsOK, FlowsOK
  <2>3. ASSUME NEW s \in Servers, CommitStart(s) PROVE NoLeakedReservation'
    <3>1. start' = [start EXCEPT ![s].step = "committed"] /\ reserved' = reserved
      BY <2>3 DEF CommitStart, countVars
    <3>2. start[s] \in [step : {"placed", "committed"}, worker : Workers]
      BY <2>3, FlowWorker DEF CommitStart
    <3> QED
      BY <3>1, <3>2 DEF NoLeakedReservation, TypeOK, CountsOK, FlowsOK
  <2>4. ASSUME NEW s \in Servers, Confirm(s) PROVE NoLeakedReservation'
    BY <2>4 DEF Confirm, NoLeakedReservation, TypeOK, CountsOK, FlowsOK
  <2>5. ASSUME NEW s \in Servers, Abandon(s) PROVE NoLeakedReservation'
    BY <2>5 DEF Abandon, ReleaseReservation, NoLeakedReservation, TypeOK, CountsOK,
                FlowsOK
  <2>6. ASSUME UNCHANGED vars PROVE NoLeakedReservation'
    BY <2>6, <2>k DEF vars, countVars, flowVars
  <2> QED
    BY <2>k, <2>1, <2>2, <2>3, <2>4, <2>5, <2>6
    DEF Next, Register, ReadTally, Teardown, CommitStop, CommitRevert, Release,
        Decrement, countVars, flowVars
<1> QED
  BY <1>1, <1>2, TypeCorrect, PTL DEF Spec

-----------------------------------------------------------------------------
(* LoadMatchesRows, where a dead stream's rebuild ends with it and a restart  *)
(* waits for the decrement owed by the stop before it.                        *)

\* A token belongs to one worker, and a rebuild is that of its worker's session.
SessionsOwn ==
  /\ \A w \in Workers : session[w] < nextSession
  /\ \A v, w \in Workers : session[v] = session[w] /\ session[v] # -1 => v = w
  /\ \A t \in Tokens : rebuild[t].step # "none" => session[rebuild[t].worker] = t

\* What a rebuild finds stamped after its epoch happened after it read its epoch.
EpochsPast == \A t \in Tokens : rebuild[t].epoch <= nextSeq

\* A start that has yet to commit holds its slot, on a row nobody else moves.
PlacedHolds ==
  \A s \in Servers : start[s].step = "placed" =>
    /\ s \in reserved[start[s].worker]
    /\ assigned[s] = NoWorker
    /\ ~OwesDecrement(s)

\* A decrement is owed only for a server that has left "running" on a worker.
OwedLeft ==
  \A s \in Servers : OwesDecrement(s) => ~(desired[s] = "running" /\ assigned[s] # NoWorker)

\* What a rebuild is about to write back is still placed, or its decrement is to come.
TallySound ==
  \A t \in Tokens : rebuild[t].step = "writing" =>
    LET w == rebuild[t].worker
    IN  \A s \in rebuild[t].tally \ Tombstoned(w, rebuild[t].epoch) :
          s \in Tally(w) \/ <<w, s>> \in owed

\* What a rebuild in progress will count once it has written.
WillCount(t, s) ==
  LET r == rebuild[t]
  IN  \/ s \in reserved[r.worker] \cup Preserved(r.worker, r.epoch)
      \/ <<r.worker, s>> \in dropped
      \/ s \notin Tombstoned(r.worker, r.epoch) /\ (r.step = "reading" \/ s \in r.tally)

RebuildCounts ==
  \A t \in Tokens : rebuild[t].step \in {"reading", "writing"} =>
    \A s \in Tally(rebuild[t].worker) : WillCount(t, s)

LoadInv ==
  /\ TypeOK /\ SessionsOwn /\ EpochsPast /\ PlacedHolds /\ OwedLeft
  /\ TallySound /\ RebuildCounts
  /\ PlacedServersCounted /\ StoppedServersUncounted

LEMMA LoadInit == Init => LoadInv
<1> SUFFICES ASSUME Init PROVE LoadInv
  OBVIOUS
<1>1. TypeOK
  BY TypeInit
<1>2. \A t \in Tokens : rebuild[t].step = "none" /\ rebuild[t].epoch = 0
  BY DEF Init, NoRebuild
<1>3. EpochsPast
  BY <1>2 DEF EpochsPast, Init
<1>4. SessionsOwn /\ TallySound /\ RebuildCounts
  BY <1>2 DEF Init, SessionsOwn, TallySound, RebuildCounts
<1>5. PlacedHolds /\ OwedLeft
  BY DEF Init, PlacedHolds, OwedLeft, OwesDecrement, Idle
<1>6. PlacedServersCounted /\ StoppedServersUncounted
  BY DEF Init, PlacedServersCounted, StoppedServersUncounted, Rebuilt
<1> QED
  BY <1>1, <1>3, <1>4, <1>5, <1>6 DEF LoadInv

\* An epoch is a count of stamps.
LEMMA EpochNat ==
  ASSUME TypeOK
  PROVE  nextSeq \in Nat /\ \A t \in Tokens : rebuild[t].epoch \in Nat
BY BoundsAssumption DEF TypeOK, CountsOK, RebuildsOK, Rebuilds, NoRebuild

\* Every action keeps every part of LoadInv.
LEMMA LoadStep ==
  ASSUME ~SupersededRebuilds, ~OvertakenDecrements, LoadInv, [Next]_vars
  PROVE  LoadInv'
<1> USE DEF LoadInv
<1>t. TypeOK'
  BY TypeStep
<1>a. ASSUME UNCHANGED <<session, nextSession, rebuild>> PROVE SessionsOwn'
  BY <1>a DEF SessionsOwn
<1>b. ASSUME UNCHANGED rebuild, nextSeq' >= nextSeq PROVE EpochsPast'
  <2>1. nextSeq' \in Nat
    BY <1>t, BoundsAssumption DEF TypeOK, CountsOK
  <2> QED
    BY <1>b, <2>1, EpochNat DEF EpochsPast
<1>c. ASSUME UNCHANGED <<start, reserved, assigned, owed>> PROVE PlacedHolds'
  BY <1>c DEF PlacedHolds, OwesDecrement
<1>d. ASSUME UNCHANGED <<owed, desired, assigned>> PROVE OwedLeft'
  BY <1>d DEF OwedLeft, OwesDecrement
<1>e. ASSUME UNCHANGED <<rebuild, decrementedSeq, desired, assigned, owed>> PROVE TallySound'
  BY <1>e DEF TallySound, Tombstoned, Tally
<1>f. ASSUME UNCHANGED <<rebuild, reserved, committed, confirmedSeq, dropped, decrementedSeq,
                         desired, assigned>>
      PROVE  RebuildCounts'
  BY <1>f DEF RebuildCounts, WillCount, Preserved, Tombstoned, Tally
<1>g. ASSUME UNCHANGED <<session, rebuild, desired, assigned, committed, reserved, dropped>>
      PROVE  PlacedServersCounted'
  BY <1>g DEF PlacedServersCounted, Rebuilt, Tally
<1>h. ASSUME UNCHANGED <<committed, desired, assigned, owed, overtaken>>
      PROVE  StoppedServersUncounted'
  BY <1>h DEF StoppedServersUncounted, Tally
<1> USE DEF rowVars, sessionVars, countVars, flowVars, history
<1>1. ASSUME NEW w \in Workers, Register(w) PROVE LoadInv'
  <2>1. /\ session' = [session EXCEPT ![w] = nextSession]
        /\ nextSession' = nextSession + 1 /\ nextSession \in Tokens
        /\ session \in [Workers -> Tokens \cup {-1}]
        /\ rebuild' = [t \in Tokens |->
              IF t = nextSession
              THEN [step |-> "reading", worker |-> w, epoch |-> nextSeq, tally |-> {}]
              ELSE IF rebuild[t].worker = w THEN NoRebuild ELSE rebuild[t]]
    BY <1>1, BoundsAssumption DEF Register, Tokens, TypeOK, SessionsOK
  <2>2. SessionsOwn'
    BY <2>1, BoundsAssumption DEF SessionsOwn, Tokens, NoRebuild
  <2>3. EpochsPast'
    BY <1>1, <2>1 DEF EpochsPast, Register, NoRebuild, TypeOK, CountsOK
  <2>4. TallySound'
    BY <1>1, <2>1 DEF TallySound, Register, NoRebuild, Tombstoned, Tally, TypeOK, CountsOK, RebuildsOK, Rebuilds
  <2>5. RebuildCounts'
    BY <1>1, <2>1 DEF RebuildCounts, WillCount, Register, NoRebuild, Preserved, Tombstoned, Tally, TypeOK, CountsOK, RebuildsOK, Rebuilds
  <2>6. PlacedServersCounted'
    BY <1>1, <2>1 DEF PlacedServersCounted, SessionsOwn, Register, NoRebuild, Rebuilt, Tally, TypeOK, CountsOK
  <2>7. StoppedServersUncounted'
    BY <1>1 DEF StoppedServersUncounted, Register, Tally, TypeOK, CountsOK
  <2> QED
    BY <1>1, <1>t, <1>c, <1>d, <2>2, <2>3, <2>4, <2>5, <2>6, <2>7 DEF Register
<1>2. ASSUME NEW t \in Tokens, ReadTally(t) PROVE LoadInv'
  <2>1. SessionsOwn' /\ EpochsPast'
    BY <1>2 DEF ReadTally, SessionsOwn, EpochsPast, TypeOK, RebuildsOK
  <2>2. TallySound'
    BY <1>2 DEF ReadTally, TallySound, Tombstoned, Tally, TypeOK, RebuildsOK
  <2>3. RebuildCounts'
    BY <1>2 DEF ReadTally, RebuildCounts, WillCount, Preserved, Tombstoned, Tally, TypeOK, RebuildsOK
  <2>4. PlacedServersCounted'
    <3>1. \A v \in Workers : Rebuilt(v)' => Rebuilt(v)
      BY <1>2 DEF ReadTally, Rebuilt, TypeOK, RebuildsOK, SessionsOK
    <3> QED
      BY <1>2, <3>1 DEF ReadTally, PlacedServersCounted, Tally
  <2> QED
    BY <1>2, <1>t, <1>c, <1>d, <1>h, <2>1, <2>2, <2>3, <2>4 DEF ReadTally
<1>3. ASSUME NEW t \in Tokens, SetAssignment(t) PROVE LoadInv'
  <2> DEFINE w == rebuild[t].worker
             filtered == rebuild[t].tally \ Tombstoned(w, rebuild[t].epoch)
             preserved == Preserved(w, rebuild[t].epoch)
  <2>1. /\ rebuild[t].step = "writing" /\ w \in Workers
        /\ committed' = [committed EXCEPT ![w] = filtered \cup preserved]
        /\ reserved' = [reserved EXCEPT ![w] = @ \ filtered]
        /\ rebuild' = [rebuild EXCEPT ![t].step = "done"]
    BY <1>3, FlowWorker DEF SetAssignment
  <2>2. \A s \in filtered : s \in Tally(w) \/ <<w, s>> \in owed
    BY <2>1 DEF TallySound
  <2>3. \A s \in Tally(w) : s \in reserved[w] \cup filtered \cup preserved \/ <<w, s>> \in dropped
    BY <2>1 DEF RebuildCounts, WillCount
  <2>4. preserved \subseteq committed[w]
    BY DEF Preserved
  <2>5. \A u \in Tokens : u # t /\ rebuild[u].step # "none" => rebuild[u].worker # w
    BY <2>1 DEF SessionsOwn
  <2>6. UNCHANGED <<desired, assigned, session, nextSession, decrementedSeq, nextSeq, start, owed,
                    dropped, overtaken>>
    BY <1>3 DEF SetAssignment
  <2>7. \A v \in Workers : v # w => confirmedSeq'[v] = confirmedSeq[v]
    BY <1>3, <2>1 DEF SetAssignment, TypeOK, CountsOK
  <2>8. SessionsOwn' /\ EpochsPast'
    BY <2>1, <2>6 DEF SessionsOwn, EpochsPast, TypeOK, RebuildsOK
  <2> HIDE DEF w, filtered, preserved
  <2>9. PlacedHolds'
    <3>1. \A s \in filtered : start[s].step # "placed" \/ s \notin Servers
      BY <2>2, <2>1, NoWorkerAssumption DEF PlacedHolds, OwesDecrement, Tally
    <3> SUFFICES ASSUME NEW s \in Servers, start[s].step = "placed"
                 PROVE  s \in reserved'[start[s].worker]
      BY <2>6 DEF PlacedHolds, OwesDecrement
    <3>2. start[s].worker \in Workers /\ s \in reserved[start[s].worker] /\ s \notin filtered
      BY <3>1, FlowWorker DEF PlacedHolds
    <3> QED
      BY <2>1, <3>2 DEF TypeOK, CountsOK
  <2>10. TallySound'
    BY <2>1, <2>6, <2>5 DEF TallySound, Tombstoned, Tally, TypeOK, RebuildsOK
  <2>11. RebuildCounts'
    <3> SUFFICES ASSUME NEW u \in Tokens, (rebuild[u].step \in {"reading", "writing"})',
                        NEW p \in Tally(rebuild[u].worker)'
                 PROVE  WillCount(u, p)'
      BY DEF RebuildCounts
    <3> DEFINE v == rebuild[u].worker
    <3>1. u # t /\ rebuild'[u] = rebuild[u]
      BY <2>1 DEF TypeOK, RebuildsOK
    <3>2. v \in Workers /\ v # w
      BY <3>1, <2>5, FlowWorker
    <3>3. WillCount(u, p)
      <4>1. p \in Tally(rebuild[u].worker)
        BY <3>1, <2>6 DEF Tally
      <4> QED
        BY <3>1, <4>1 DEF RebuildCounts
    <3>4. /\ reserved'[v] = reserved[v] /\ committed'[v] = committed[v]
          /\ confirmedSeq'[v] = confirmedSeq[v]
      BY <2>1, <2>7, <3>2 DEF TypeOK, CountsOK
    <3> QED
      BY <2>6, <3>1, <3>3, <3>4 DEF WillCount, Preserved, Tombstoned
  <2>12. PlacedServersCounted'
    <3> SUFFICES ASSUME NEW v \in Workers, Rebuilt(v)', NEW s \in Tally(v)'
                 PROVE  s \in committed'[v] \cup reserved'[v] \/ <<v, s>> \in dropped'
      BY DEF PlacedServersCounted
    <3>1. s \in Tally(v)
      BY <2>6 DEF Tally
    <3>2. CASE v = w
      BY <2>1, <2>3, <2>6, <3>1, <3>2 DEF TypeOK, CountsOK
    <3>3. CASE v # w
      <4>1. Rebuilt(v)
        BY <2>1, <2>6, <3>3 DEF Rebuilt, SessionsOwn, TypeOK, RebuildsOK, SessionsOK, w
      <4> QED
        BY <4>1, <2>1, <2>6, <3>1, <3>3 DEF PlacedServersCounted, TypeOK, CountsOK
    <3> QED
      BY <3>2, <3>3
  <2>13. StoppedServersUncounted'
    BY <2>1, <2>2, <2>4, <2>6 DEF StoppedServersUncounted, Tally, TypeOK, CountsOK
  <2> QED
    BY <1>t, <1>d, <2>6, <2>8, <2>9, <2>10, <2>11, <2>12, <2>13
<1>4. ASSUME NEW t \in Tokens, Teardown(t) PROVE LoadInv'
  <2>1. rebuild' = [rebuild EXCEPT ![t] = NoRebuild]
    BY <1>4 DEF Teardown
  <2>2. SessionsOwn' /\ EpochsPast'
    BY <1>4, <2>1 DEF Teardown, SessionsOwn, EpochsPast, NoRebuild, TypeOK, RebuildsOK, CountsOK
  <2>3. TallySound'
    BY <1>4, <2>1 DEF Teardown, TallySound, NoRebuild, Tombstoned, Tally, TypeOK, RebuildsOK
  <2>4. RebuildCounts'
    BY <1>4, <2>1 DEF Teardown, RebuildCounts, WillCount, NoRebuild, Preserved, Tombstoned, Tally, TypeOK, RebuildsOK
  <2>5. PlacedServersCounted'
    BY <1>4, <2>1 DEF Teardown, PlacedServersCounted, NoRebuild, Rebuilt, Tally, TypeOK, RebuildsOK
  <2> QED
    BY <1>4, <1>t, <1>c, <1>d, <1>h, <2>2, <2>3, <2>4, <2>5 DEF Teardown
<1>5. ASSUME NEW s \in Servers, NEW w \in Workers, Place(s, w) PROVE LoadInv'
  <2>1. PlacedHolds'
    <3>1. ~OwesDecrement(s) /\ assigned[s] = NoWorker /\ UNCHANGED <<assigned, owed>>
      BY <1>5 DEF Place
    <3>2. /\ reserved' = [reserved EXCEPT ![w] = @ \cup {s}]
          /\ start' = [start EXCEPT ![s] = [step |-> "placed", worker |-> w]]
      BY <1>5 DEF Place
    <3> SUFFICES ASSUME NEW p \in Servers, start'[p].step = "placed"
                 PROVE  /\ p \in reserved'[start'[p].worker]
                        /\ assigned[p] = NoWorker /\ ~OwesDecrement(p)
      BY <3>1 DEF PlacedHolds, OwesDecrement
    <3>3. CASE p = s
      BY <3>1, <3>2, <3>3 DEF TypeOK, CountsOK, FlowsOK
    <3>4. CASE p # s
      <4>1. start'[p] = start[p]
        BY <3>2, <3>4 DEF TypeOK, FlowsOK
      <4>2. start[p].worker \in Workers
        BY <4>1, FlowWorker
      <4> QED
        BY <4>1, <4>2, <3>2 DEF PlacedHolds, TypeOK, CountsOK
    <3> QED
      BY <3>3, <3>4
  <2>2. RebuildCounts'
    BY <1>5, FlowWorker DEF Place, RebuildCounts, WillCount, Preserved, Tombstoned, Tally, TypeOK, CountsOK
  <2>3. PlacedServersCounted'
    BY <1>5 DEF Place, PlacedServersCounted, Rebuilt, Tally, TypeOK, CountsOK
  <2> QED
    BY <1>5, <1>t, <1>a, <1>b, <1>d, <1>e, <1>h, <2>1, <2>2, <2>3 DEF Place, TypeOK, CountsOK
<1>6. ASSUME NEW s \in Servers, CommitStart(s) PROVE LoadInv'
  <2> DEFINE w == start[s].worker
  <2>1. /\ s \in reserved[w] /\ ~OwesDecrement(s) /\ w \in Workers
        /\ start' = [start EXCEPT ![s].step = "committed"]
        /\ start \in [Servers -> Starts]
    BY <1>6, FlowWorker DEF CommitStart, PlacedHolds, TypeOK, FlowsOK
  <2>2. \A v \in Workers : Tally(v)' = IF v = w THEN Tally(v) \cup {s} ELSE Tally(v)
    BY <1>6, <2>1, NoWorkerAssumption DEF CommitStart, Tally, TypeOK, RowsOK
  <2> HIDE DEF w
  <2>3. PlacedHolds'
    BY <1>6, <2>1 DEF CommitStart, PlacedHolds, OwesDecrement, TypeOK, RowsOK
  <2>4. OwedLeft'
    BY <1>6, <2>1 DEF CommitStart, OwedLeft, OwesDecrement, TypeOK, RowsOK
  <2>5. TallySound'
    BY <1>6, <2>2, FlowWorker DEF CommitStart, TallySound, Tombstoned
  <2>6. RebuildCounts'
    BY <1>6, <2>1, <2>2, FlowWorker DEF CommitStart, RebuildCounts, WillCount, Preserved, Tombstoned
  <2>7. PlacedServersCounted'
    BY <1>6, <2>1, <2>2 DEF CommitStart, PlacedServersCounted, Rebuilt
  <2>8. StoppedServersUncounted'
    BY <1>6, <2>2 DEF CommitStart, StoppedServersUncounted
  <2> QED
    BY <1>6, <1>t, <1>a, <1>b, <2>3, <2>4, <2>5, <2>6, <2>7, <2>8 DEF CommitStart, TypeOK, CountsOK
<1>7. ASSUME NEW s \in Servers, Confirm(s) PROVE LoadInv'
  <2> DEFINE w == start[s].worker
  <2>1. /\ w \in Workers /\ start[s].step = "committed" /\ start' = [start EXCEPT ![s] = Idle]
        /\ UNCHANGED <<desired, assigned, session, nextSession, decrementedSeq, owed, rebuild, dropped>>
        /\ overtaken' = IF s \in Tally(w) THEN overtaken ELSE overtaken \cup {<<w, s>>}
    BY <1>7, FlowWorker DEF Confirm
  <2>2. CASE s \in reserved[w]
    <3>1. /\ reserved' = [reserved EXCEPT ![w] = @ \ {s}]
          /\ committed' = [committed EXCEPT ![w] = @ \cup {s}]
          /\ confirmedSeq' = [confirmedSeq EXCEPT ![w][s] = nextSeq]
          /\ nextSeq' = nextSeq + 1
      BY <1>7, <2>2 DEF Confirm
    <3> HIDE DEF w
    <3>2. EpochsPast' /\ SessionsOwn' /\ OwedLeft' /\ TallySound'
      BY <1>a, <1>b, <1>d, <1>e, <2>1, <3>1 DEF TypeOK, CountsOK
    <3>3. PlacedHolds'
      <4> SUFFICES ASSUME NEW p \in Servers, start'[p].step = "placed"
                   PROVE  /\ p \in reserved'[start'[p].worker]
                          /\ assigned[p] = NoWorker /\ ~OwesDecrement(p)
        BY <2>1, <3>1 DEF PlacedHolds, OwesDecrement
      <4>1. p # s /\ start'[p] = start[p]
        BY <2>1, <3>1 DEF Idle, TypeOK, FlowsOK
      <4>2. start[p].worker \in Workers
        BY <4>1, FlowWorker
      <4> QED
        BY <2>1, <3>1, <4>1, <4>2 DEF PlacedHolds, TypeOK, CountsOK
    <3>4. RebuildCounts'
      <4> SUFFICES ASSUME NEW t \in Tokens, rebuild[t].step \in {"reading", "writing"},
                          NEW p \in Tally(rebuild[t].worker)
                   PROVE  WillCount(t, p)'
        BY <2>1 DEF RebuildCounts, Tally
      <4> DEFINE v == rebuild[t].worker
                 e == rebuild[t].epoch
      <4>1. v \in Workers /\ e <= nextSeq /\ e \in Nat /\ WillCount(t, p) /\ p \in Servers
        BY FlowWorker, BoundsAssumption DEF EpochsPast, RebuildCounts, Tally
      <4>2. CASE p = s /\ v = w
        <5>1. s \in Preserved(v, e)'
          BY <4>2, <4>1, <2>1, <3>1 DEF Preserved, TypeOK, CountsOK
        <5> QED
          BY <5>1, <4>2, <2>1 DEF WillCount
      <4>3. CASE ~(p = s /\ v = w)
        <5>1. p \in reserved[v] => p \in reserved'[v]
          BY <4>3, <4>1, <2>1, <3>1 DEF TypeOK, CountsOK
        <5>2. p \in Preserved(v, e) => p \in Preserved(v, e)'
          BY <4>3, <4>1, <2>1, <3>1 DEF Preserved, TypeOK, CountsOK
        <5> QED
          BY <5>1, <5>2, <4>1, <2>1 DEF WillCount, Tombstoned
      <4> QED
        BY <4>2, <4>3
    <3>5. PlacedServersCounted'
      BY <2>1, <3>1 DEF PlacedServersCounted, Rebuilt, Tally, TypeOK, CountsOK
    <3>6. StoppedServersUncounted'
      BY <2>1, <3>1 DEF StoppedServersUncounted, Tally, TypeOK, CountsOK
    <3> QED
      BY <1>t, <3>2, <3>3, <3>4, <3>5, <3>6
  <2>3. CASE s \notin reserved[w]
    <3>1. UNCHANGED <<reserved, committed, confirmedSeq, nextSeq>>
      BY <1>7, <2>3 DEF Confirm
    <3> HIDE DEF w
    <3>2. PlacedHolds'
      BY <2>1, <3>1 DEF PlacedHolds, OwesDecrement, Idle, TypeOK, FlowsOK
    <3>3. StoppedServersUncounted'
      BY <2>1, <3>1 DEF StoppedServersUncounted, Tally
    <3> QED
      BY <1>t, <1>a, <1>b, <1>d, <1>e, <1>f, <1>g, <2>1, <3>1, <3>2, <3>3 DEF TypeOK, CountsOK
  <2> QED
    BY <2>2, <2>3
<1>8. ASSUME NEW s \in Servers, Abandon(s) PROVE LoadInv'
  <2> DEFINE w == start[s].worker
  <2>1. /\ w \in Workers
        /\ reserved' = [reserved EXCEPT ![w] = @ \ {s}]
        /\ start' = [start EXCEPT ![s] = Idle]
        /\ dropped \subseteq dropped'
        /\ assigned[s] = NoWorker \/ <<w, s>> \in dropped'
        /\ UNCHANGED <<desired, assigned, session, nextSession, committed, confirmedSeq,
                       decrementedSeq, nextSeq, owed, rebuild, overtaken>>
    BY <1>8, FlowWorker DEF Abandon, ReleaseReservation, PlacedHolds
  <2>5. \A v \in Workers : v = w \/ reserved'[v] = reserved[v]
    BY <2>1 DEF TypeOK, CountsOK
  <2> HIDE DEF w
  <2>2. PlacedHolds'
    <3> SUFFICES ASSUME NEW p \in Servers, start'[p].step = "placed"
                 PROVE  /\ p \in reserved'[start'[p].worker]
                        /\ assigned[p] = NoWorker /\ ~OwesDecrement(p)
      BY <2>1 DEF PlacedHolds, OwesDecrement
    <3>1. p # s /\ start'[p] = start[p]
      BY <2>1 DEF Idle, TypeOK, FlowsOK
    <3>2. start[p].worker \in Workers
      BY <3>1, FlowWorker
    <3> QED
      BY <2>1, <3>1, <3>2 DEF PlacedHolds, TypeOK, CountsOK
  <2>3. RebuildCounts'
    <3> SUFFICES ASSUME NEW t \in Tokens, rebuild[t].step \in {"reading", "writing"},
                        NEW p \in Tally(rebuild[t].worker)
                 PROVE  WillCount(t, p)'
      BY <2>1 DEF RebuildCounts, Tally
    <3> DEFINE v == rebuild[t].worker
    <3>1. v \in Workers /\ WillCount(t, p) /\ p \in Servers /\ assigned[p] = v
      BY FlowWorker DEF RebuildCounts, Tally
    <3>2. p \in reserved[v] => p \in reserved'[v] \/ <<v, p>> \in dropped'
      BY <3>1, <2>1, <2>5, NoWorkerAssumption DEF TypeOK, CountsOK
    <3> QED
      BY <2>1, <3>1, <3>2 DEF WillCount, Preserved, Tombstoned
  <2>4. PlacedServersCounted'
    <3> SUFFICES ASSUME NEW v \in Workers, Rebuilt(v), NEW p \in Tally(v)
                 PROVE  p \in committed[v] \cup reserved'[v] \/ <<v, p>> \in dropped'
      BY <2>1 DEF PlacedServersCounted, Rebuilt, Tally
    <3>1. p \in committed[v] \cup reserved[v] \/ <<v, p>> \in dropped
      BY DEF PlacedServersCounted
    <3>2. p \in reserved[v] => p \in reserved'[v] \/ <<v, p>> \in dropped'
      BY <2>1, <2>5, NoWorkerAssumption DEF Tally, TypeOK, CountsOK
    <3> QED
      BY <3>1, <3>2, <2>1
  <2> QED
    BY <1>t, <1>a, <1>b, <1>d, <1>e, <1>h, <2>1, <2>2, <2>3, <2>4 DEF TypeOK, CountsOK
<1>9. ASSUME NEW s \in Servers, CommitStop(s) \/ CommitRevert(s) PROVE LoadInv'
  <2>1. /\ desired[s] = "running" /\ assigned[s] \in Workers
        /\ owed' = owed \cup {<<assigned[s], s>>}
        /\ \A p \in Servers : p # s => desired'[p] = desired[p] /\ assigned'[p] = assigned[p]
        /\ assigned'[s] = NoWorker \/ (desired'[s] = "stopped" /\ assigned'[s] = assigned[s])
        /\ UNCHANGED <<session, nextSession, committed, reserved, confirmedSeq,
                       decrementedSeq, nextSeq, start, rebuild, dropped, overtaken>>
    <3>1. CASE CommitStop(s)
      BY <3>1 DEF CommitStop, Stoppable, TypeOK, RowsOK
    <3>2. CASE CommitRevert(s)
      <4>1. PICK d \in {"stopped", "running"} : desired' = [desired EXCEPT ![s] = d]
        BY <3>2 DEF CommitRevert
      <4> QED
        BY <3>2, <4>1 DEF CommitRevert, Stoppable, TypeOK, RowsOK
    <3> QED
      BY <1>9, <3>1, <3>2
  <2>2. \A v \in Workers : Tally(v)' = Tally(v) \ {s}
    BY <2>1, NoWorkerAssumption DEF Tally
  <2>3. PlacedHolds'
    BY <2>1, NoWorkerAssumption DEF PlacedHolds, OwesDecrement
  <2>4. OwedLeft'
    BY <2>1 DEF OwedLeft, OwesDecrement
  <2>5. TallySound'
    BY <2>1, <2>2, FlowWorker DEF TallySound, Tombstoned, Tally
  <2>6. RebuildCounts'
    BY <2>1, <2>2, FlowWorker DEF RebuildCounts, WillCount, Preserved, Tombstoned
  <2>7. PlacedServersCounted'
    BY <2>1, <2>2 DEF PlacedServersCounted, Rebuilt
  <2>8. StoppedServersUncounted'
    BY <2>1, <2>2 DEF StoppedServersUncounted, Tally, TypeOK, CountsOK
  <2> QED
    BY <1>t, <1>a, <1>b, <2>1, <2>3, <2>4, <2>5, <2>6, <2>7, <2>8 DEF TypeOK, CountsOK
<1>10. ASSUME NEW s \in Servers, Release(s) PROVE LoadInv'
  <2>1. /\ desired[s] = "stopped" /\ assigned' = [assigned EXCEPT ![s] = NoWorker]
        /\ UNCHANGED <<desired, session, nextSession, committed, reserved, confirmedSeq, owed,
                       decrementedSeq, nextSeq, start, rebuild, dropped, overtaken>>
    BY <1>10 DEF Release
  <2>2. \A v \in Workers : Tally(v)' = Tally(v)
    BY <2>1 DEF Tally, TypeOK, RowsOK
  <2>3. PlacedHolds'
    BY <2>1 DEF PlacedHolds, OwesDecrement, TypeOK, RowsOK
  <2>4. OwedLeft'
    BY <2>1 DEF OwedLeft, OwesDecrement, TypeOK, RowsOK
  <2>5. TallySound'
    BY <2>1, <2>2, FlowWorker DEF TallySound, Tombstoned
  <2>6. RebuildCounts'
    BY <2>1, <2>2, FlowWorker DEF RebuildCounts, WillCount, Preserved, Tombstoned
  <2>7. PlacedServersCounted' /\ StoppedServersUncounted'
    BY <2>1, <2>2 DEF PlacedServersCounted, StoppedServersUncounted, Rebuilt
  <2> QED
    BY <1>t, <1>a, <1>b, <2>1, <2>3, <2>4, <2>5, <2>6, <2>7 DEF TypeOK, CountsOK
<1>11. ASSUME NEW w \in Workers, NEW s \in Servers, Decrement(w, s) PROVE LoadInv'
  <2>1. /\ <<w, s>> \in owed /\ owed' = owed \ {<<w, s>>}
        /\ committed' = [committed EXCEPT ![w] = @ \ {s}]
        /\ confirmedSeq' = [confirmedSeq EXCEPT ![w][s] = -1]
        /\ decrementedSeq' = [decrementedSeq EXCEPT ![w][s] = nextSeq]
        /\ nextSeq' = nextSeq + 1
        /\ UNCHANGED <<desired, assigned, session, nextSession, reserved, start, rebuild,
                       dropped, overtaken>>
    BY <1>11 DEF Decrement
  <2>2. \A v \in Workers : s \notin Tally(v)
    BY <2>1, NoWorkerAssumption DEF OwedLeft, OwesDecrement, Tally
  <2>3. PlacedHolds' /\ OwedLeft'
    BY <2>1 DEF PlacedHolds, OwedLeft, OwesDecrement
  <2>4. TallySound'
    <3> SUFFICES ASSUME NEW t \in Tokens, rebuild[t].step = "writing",
                        NEW p \in rebuild[t].tally,
                        p \notin Tombstoned(rebuild[t].worker, rebuild[t].epoch)'
                 PROVE  p \in Tally(rebuild[t].worker) \/ <<rebuild[t].worker, p>> \in owed'
      BY <2>1 DEF TallySound, Tally
    <3>1. /\ rebuild[t].worker \in Workers /\ p \in Servers
          /\ rebuild[t].epoch \in Nat /\ rebuild[t].epoch <= nextSeq /\ nextSeq \in Nat
      BY FlowWorker, BoundsAssumption DEF EpochsPast, TypeOK, CountsOK
    <3>2. ~(p = s /\ rebuild[t].worker = w)
      BY <2>1, <3>1 DEF Tombstoned, TypeOK, CountsOK
    <3>3. p \notin Tombstoned(rebuild[t].worker, rebuild[t].epoch)
      BY <2>1, <3>1, <3>2 DEF Tombstoned, TypeOK, CountsOK
    <3> QED
      BY <2>1, <3>1, <3>2, <3>3 DEF TallySound
  <2>5. RebuildCounts'
    <3> SUFFICES ASSUME NEW t \in Tokens, rebuild[t].step \in {"reading", "writing"},
                        NEW p \in Tally(rebuild[t].worker)
                 PROVE  WillCount(t, p)'
      BY <2>1 DEF RebuildCounts, Tally
    <3> DEFINE v == rebuild[t].worker
               e == rebuild[t].epoch
    <3>1. v \in Workers /\ p # s /\ p \in Servers /\ WillCount(t, p)
      BY <2>2, FlowWorker DEF RebuildCounts, Tally
    <3>2. p \in Preserved(v, e) => p \in Preserved(v, e)'
      BY <3>1, <2>1 DEF Preserved, TypeOK, CountsOK
    <3>3. p \notin Tombstoned(v, e) => p \notin Tombstoned(v, e)'
      BY <3>1, <2>1 DEF Tombstoned, TypeOK, CountsOK
    <3> QED
      BY <3>1, <3>2, <3>3, <2>1 DEF WillCount
  <2>6. PlacedServersCounted'
    BY <2>1, <2>2 DEF PlacedServersCounted, Rebuilt, Tally, TypeOK, CountsOK
  <2>7. StoppedServersUncounted'
    BY <2>1, <2>2 DEF StoppedServersUncounted, Tally, TypeOK, CountsOK
  <2> QED
    BY <1>t, <1>a, <1>b, <2>1, <2>3, <2>4, <2>5, <2>6, <2>7 DEF TypeOK, CountsOK
<1>12. ASSUME UNCHANGED vars PROVE LoadInv'
  BY <1>12, <1>t, <1>a, <1>b, <1>c, <1>d, <1>e, <1>f, <1>g, <1>h DEF vars, TypeOK, CountsOK
<1> QED
  BY <1>1, <1>2, <1>3, <1>4, <1>5, <1>6, <1>7, <1>8, <1>9, <1>10, <1>11, <1>12 DEF Next

\* The load the placement goes by is the rows': a placed server holds a slot on its
\* worker and a stopped one does not, whatever registrations, rebuilds, starts, stops
\* and decrements overlap, as long as a dead stream's rebuild ends with its stream and
\* no restart overtakes the decrement its stop still owes.
THEOREM LoadAlwaysMatchesRows ==
  ASSUME ~SupersededRebuilds, ~OvertakenDecrements
  PROVE  Spec => []LoadMatchesRows
<1>1. LoadInv /\ [Next]_vars => LoadInv'
  BY LoadStep
<1>2. LoadInv => LoadMatchesRows
  BY DEF LoadInv, LoadMatchesRows
<1> QED
  BY LoadInit, <1>1, <1>2, PTL DEF Spec

=============================================================================
