---------------------------- MODULE GameSessions ----------------------------
(* The log of player sessions: the relay's reporter buffers starts and ends   *)
(* and delivers them in batches that it repeats until they are acknowledged   *)
(* (relay/internal/session/reporter.go), the API's sink writes each once      *)
(* (servers/adapters/session_sink.py), and every registration of the relay    *)
(* closes the sessions it no longer knows (relaysvc.go, relay_server.py).     *)
EXTENDS Integers, Sequences, FiniteSets, SequencesExt

CONSTANTS
  Sessions,          \* session ids, each used once
  None,
  MaxBufferedEvents, \* the retry buffers' cap, for starts and for ends
  ChunkSize,         \* maxEventsPerReportRPC
  MaxFaults          \* bound: failed calls, relay crashes and server deletions

VARIABLES
  open,          \* openIDs: sessions now on the relay
  over,          \* sessions that have ended there
  pendStarts, pendEnds,
  droppedStarts, \* tombstones of starts the buffer dropped
  flight,        \* the flush in progress, or None
  reg,           \* the active set of the registration in progress, or None
  rows,          \* session -> row, or None
  refused,       \* sessions whose server's row is gone
  faults,
  lost           \* history: sessions an event of which the relay has dropped or forgotten

vars == <<open, over, pendStarts, pendEnds, droppedStarts, flight, reg, rows, refused, faults, lost>>
relay == <<open, over, pendStarts, pendEnds, droppedStarts>>

Fault == faults < MaxFaults /\ faults' = faults + 1

-----------------------------------------------------------------------------
(* The relay *)

Start(i) ==
  /\ i \notin open \cup over
  /\ pendStarts' = Append(pendStarts, i) /\ open' = open \cup {i}
  /\ UNCHANGED <<over, pendEnds, droppedStarts, flight, reg, rows, refused, faults, lost>>

End(i) ==
  /\ i \in open /\ open' = open \ {i} /\ over' = over \cup {i}
  /\ droppedStarts' = droppedStarts \ {i}
  /\ pendEnds' = IF i \in droppedStarts THEN pendEnds ELSE Append(pendEnds, i)
  /\ UNCHANGED <<pendStarts, flight, reg, rows, refused, faults, lost>>

\* Defect: a registration does not hold flushes back.
UnheldByFlush == flight = None

\* flightMu: a flush and a registration exclude each other.
Unheld == flight = None /\ reg = None

Tagged(kind, ids) == [n \in 1..Len(ids) |-> <<kind, ids[n]>>]

flush ==
  /\ Unheld /\ pendStarts \o pendEnds # <<>>
  /\ flight' = [starts |-> pendStarts, ends |-> pendEnds,
                left |-> Tagged("start", pendStarts) \o Tagged("end", pendEnds)]
  /\ pendStarts' = <<>> /\ pendEnds' = <<>>
  /\ UNCHANGED <<open, over, droppedStarts, reg, rows, refused, faults, lost>>

capOldest(buf) == IF Len(buf) <= MaxBufferedEvents THEN buf ELSE SubSeq(buf, Len(buf) - MaxBufferedEvents + 1, Len(buf))
Oldest(buf) == {buf[n]: n \in 1..(Len(buf) - MaxBufferedEvents)}

dropOrphanEnds(ends, dropped) == SelectSeq(ends, LAMBDA i: i \notin dropped)

\* The flush failed: its whole batch goes back in front, within the caps.
Restore ==
  LET starts == flight.starts \o pendStarts
      dropped == Oldest(starts)
      ends == dropOrphanEnds(flight.ends \o pendEnds, dropped)
  IN /\ pendStarts' = capOldest(starts)
     /\ droppedStarts' = droppedStarts \cup dropped
     /\ pendEnds' = capOldest(ends)
     /\ lost' = lost \cup dropped \cup Oldest(ends)
     /\ flight' = None /\ UNCHANGED <<open, over>>

\* It succeeded: tombstones of sessions that have ended are not needed any more.
Flushed ==
  /\ droppedStarts' = droppedStarts \cap open /\ flight' = None
  /\ UNCHANGED <<open, over, pendStarts, pendEnds, lost>>

-----------------------------------------------------------------------------
(* The API *)

Row(start, end) == [start |-> start, end |-> end]

record_start(rs, i) ==
  IF i \in refused THEN rs
  ELSE [rs EXCEPT ![i] = IF @ = None THEN Row(TRUE, FALSE) ELSE Row(TRUE, @.end)]
record_end(rs, i) == [rs EXCEPT ![i] = IF @ = None THEN Row(FALSE, TRUE) ELSE Row(@.start, TRUE)]

\* ReportSessions: the events of a call are written one by one.
ReportSessions(events) ==
  FoldSeq(LAMBDA e, rs: IF e[1] = "start" THEN record_start(rs, e[2]) ELSE record_end(rs, e[2]), rows, events)

Chunk == SubSeq(flight.left, 1, IF Len(flight.left) < ChunkSize THEN Len(flight.left) ELSE ChunkSize)
Rest == SubSeq(flight.left, Len(Chunk) + 1, Len(flight.left))

reportChunked ==
  /\ flight # None /\ rows' = ReportSessions(Chunk)
  /\ IF Rest = <<>> THEN Flushed ELSE flight' = [flight EXCEPT !.left = Rest] /\ UNCHANGED <<relay, lost>>
  /\ UNCHANGED <<reg, refused, faults>>

\* A call fails after some of its events were written, perhaps all of them.
ReportFails(n) ==
  /\ flight # None /\ n <= Len(Chunk) /\ Fault
  /\ rows' = ReportSessions(SubSeq(Chunk, 1, n)) /\ Restore
  /\ UNCHANGED <<reg, refused>>

\* RegisterOnce: the active set, under the barrier.
SnapshotActive ==
  /\ Unheld /\ reg' = [ids |-> open]
  /\ UNCHANGED <<relay, flight, rows, refused, faults, lost>>

\* close_absent
Register ==
  /\ reg # None /\ reg' = None
  /\ rows' = [i \in Sessions |-> IF rows[i] # None /\ i \notin reg.ids THEN Row(rows[i].start, TRUE) ELSE rows[i]]
  /\ lost' = lost \ (over \ (reg.ids \cup Range(pendStarts) \cup Range(pendEnds)))
  /\ UNCHANGED <<relay, flight, refused, faults>>
RegisterFails == reg # None /\ Fault /\ reg' = None /\ UNCHANGED <<relay, flight, rows, refused, lost>>

\* The relay's process dies, and its players with it.
Crash ==
  /\ Fault /\ over' = over \cup open /\ open' = {} /\ pendStarts' = <<>> /\ pendEnds' = <<>>
  /\ droppedStarts' = {} /\ flight' = None /\ reg' = None
  /\ lost' = lost \cup open \cup {i \in Sessions: rows[i] # None /\ ~rows[i].end} \cup Range(pendEnds)
  /\ UNCHANGED <<rows, refused>>

\* DeleteServer: its sessions go with it, and a later start is refused.
DeleteServer(i) ==
  /\ i \notin refused /\ i \in open \cup over /\ Fault
  /\ refused' = refused \cup {i} /\ rows' = [rows EXCEPT ![i] = None]
  /\ UNCHANGED <<relay, flight, reg, lost>>

-----------------------------------------------------------------------------
Init ==
  /\ open = {} /\ over = {} /\ pendStarts = <<>> /\ pendEnds = <<>> /\ droppedStarts = {}
  /\ flight = None /\ reg = None /\ rows = [i \in Sessions |-> None]
  /\ refused = {} /\ faults = 0 /\ lost = {}

Next ==
  \/ \E i \in Sessions: Start(i) \/ End(i) \/ DeleteServer(i)
  \/ flush \/ reportChunked \/ (\E n \in 0..ChunkSize: ReportFails(n))
  \/ SnapshotActive \/ Register \/ RegisterFails \/ Crash

Spec == Init /\ [][Next]_vars

-----------------------------------------------------------------------------
\* A session that is open on the relay is never closed in the log, whatever is
\* repeated, lost or registered meanwhile (relay_server.py: "a live session cannot
\* be closed here").
LiveNotClosed == \A i \in open: rows[i] # None => ~rows[i].end

\* A row has its start unless its server was deleted: an end whose start the
\* buffer dropped is not reported. And once everything buffered is delivered, the
\* sessions open in the log are those open on the relay, except for sessions the
\* relay has dropped or forgotten an event of since its last registration.
Delivered == flight = None /\ pendStarts = <<>> /\ pendEnds = <<>>
LogAgrees ==
  \A i \in Sessions \ refused:
    /\ rows[i] # None => rows[i].start
    /\ (Delivered /\ i \notin lost) => /\ i \in open => rows[i] # None
                                       /\ rows[i] # None => rows[i].end = (i \in over)
=============================================================================
