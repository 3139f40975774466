--------------------------- MODULE HydrateStreams ---------------------------
(* The hydrate of a working set as a stream (dataplane/api/transfers.py       *)
(* hydrate_working_set; storage/adapters/fs.py open_hydrate_source,           *)
(* _tar_stream): a slot of the transfer semaphore, a lease on the live        *)
(* snapshot taken in a thread under the server's lock, and a thread that      *)
(* writes the tar into a pipe.  The handler may be cancelled at every await,  *)
(* and the client may stop reading or go away.                                *)
(*                                                                            *)
(* The body is an async generator: one that has begun and is dropped is       *)
(* closed by the event loop, one that never began is not, and its finally     *)
(* does not run.                                                              *)
EXTENDS Naturals, FiniteSets

CONSTANTS
  Requests,
  Slots,        \* _MAX_CONCURRENT_TRANSFERS
  MaxChunks,    \* bound: chunks of a tar
  MaxPublishes  \* bound: times a publisher takes the server's lock

VARIABLES
  pc,        \* request -> where it is
  slot,      \* request -> it holds a slot
  job,       \* request -> its thread's attempt to lease: none, trying, held, leased, missing
  orphan,    \* request -> the attempt's caller was cancelled
  lease,     \* request -> its stream holds a lease
  jar,       \* request -> a JAR goes with the working set
  tar,       \* request -> its writer: none, writing, closed (the pipe), over
  chunks,    \* request -> chunks written
  pipe,      \* request -> a chunk is in the pipe
  shut,      \* request -> the read end is closed
  cut,       \* request -> the writer failed
  outcome,   \* request -> what the client made of it: none, complete, aborted
  slots, leases, locked, publishes,
  unbegun    \* history: requests whose body was dropped before it began

reqs == <<pc, slot, job, orphan, lease, jar, outcome>>
pipes == <<tar, chunks, pipe, shut, cut>>
store == <<locked, publishes>>
vars == <<reqs, pipes, slots, leases, store, unbegun>>

Init ==
  /\ pc = [r \in Requests |-> "new"] /\ job = [r \in Requests |-> "none"]
  /\ slot = [r \in Requests |-> FALSE] /\ orphan = slot /\ lease = slot /\ jar = slot
  /\ tar = [r \in Requests |-> "none"] /\ chunks = [r \in Requests |-> 0]
  /\ pipe = slot /\ shut = slot /\ cut = slot
  /\ outcome = [r \in Requests |-> "none"]
  /\ slots = Slots /\ leases = 0 /\ locked = FALSE /\ publishes = 0 /\ unbegun = {}

Go(r, p) == pc' = [pc EXCEPT ![r] = p]
Keeps(r) == UNCHANGED <<slot, slots>>
Releases(r) == slot' = [slot EXCEPT ![r] = FALSE] /\ slots' = slots + 1
Came(r, o) == outcome' = [outcome EXCEPT ![r] = o]

-----------------------------------------------------------------------------
(* The handler, up to the response *)

acquire(r) ==
  /\ pc[r] = "new" /\ slots > 0 /\ Go(r, "jar")
  /\ slot' = [slot EXCEPT ![r] = TRUE] /\ slots' = slots - 1
  /\ UNCHANGED <<job, orphan, lease, jar, outcome, pipes, leases, store, unbegun>>

jar_member(r) ==
  /\ pc[r] = "jar" /\ Go(r, "opening") /\ job' = [job EXCEPT ![r] = "trying"]
  /\ \E b \in BOOLEAN: jar' = [jar EXCEPT ![r] = b]
  /\ UNCHANGED <<slot, orphan, lease, outcome, pipes, slots, leases, store, unbegun>>

\* The thread: LOCK_HELD, a lease read with its generation, or none to take.
run_if_unlocked(r) ==
  /\ job[r] = "trying"
  /\ \/ locked /\ job' = [job EXCEPT ![r] = "held"] /\ UNCHANGED leases
     \/ ~locked /\ job' = [job EXCEPT ![r] = "leased"] /\ leases' = leases + 1
     \/ ~locked /\ job' = [job EXCEPT ![r] = "missing"] /\ UNCHANGED leases
  /\ UNCHANGED <<pc, slot, orphan, lease, jar, outcome, pipes, slots, store, unbegun>>

\* under_server_lock waits on the loop, and tries again.
under_server_lock(r) ==
  /\ \/ pc[r] = "opening" /\ job[r] = "held" /\ Go(r, "sleeping") /\ job' = [job EXCEPT ![r] = "none"]
     \/ pc[r] = "sleeping" /\ Go(r, "opening") /\ job' = [job EXCEPT ![r] = "trying"]
  /\ UNCHANGED <<slot, orphan, lease, jar, outcome, pipes, slots, leases, store, unbegun>>

\* The stream owns the lease, and starts its writer.
tar_stream(r) ==
  /\ pc[r] = "opening" /\ job[r] = "leased" /\ Go(r, "first")
  /\ job' = [job EXCEPT ![r] = "none"] /\ lease' = [lease EXCEPT ![r] = TRUE]
  /\ tar' = [tar EXCEPT ![r] = "writing"]
  /\ UNCHANGED <<slot, orphan, jar, outcome, chunks, pipe, shut, cut, slots, leases, store, unbegun>>

\* Nothing is published: 204, or a tar of the JAR alone.
NotPublished(r) ==
  /\ pc[r] = "opening" /\ job[r] = "missing" /\ job' = [job EXCEPT ![r] = "none"]
  /\ IF jar[r] THEN Go(r, "header") /\ Keeps(r) /\ UNCHANGED outcome
     ELSE Go(r, "done") /\ Releases(r) /\ Came(r, "complete")
  /\ UNCHANGED <<orphan, lease, jar, pipes, leases, store, unbegun>>

\* A chunk is read, or the end of the pipe.
Read(r, next) ==
  \/ pipe[r] /\ pipe' = [pipe EXCEPT ![r] = FALSE] /\ Go(r, next) /\ UNCHANGED shut
  \/ /\ ~pipe[r] /\ tar[r] \in {"closed", "over"} /\ Go(r, "joining")
     /\ shut' = [shut EXCEPT ![r] = TRUE] /\ UNCHANGED pipe

prime(r) ==
  /\ pc[r] = "first" /\ Read(r, "header")
  /\ UNCHANGED <<slot, job, orphan, lease, jar, outcome, tar, chunks, cut, slots, leases, store, unbegun>>

-----------------------------------------------------------------------------
(* The writer's thread *)

tar_into_fd(r) ==
  /\ tar[r] = "writing"
  /\ \/ /\ ~shut[r] /\ ~pipe[r] /\ chunks[r] < MaxChunks
        /\ pipe' = [pipe EXCEPT ![r] = TRUE] /\ chunks' = [chunks EXCEPT ![r] = @ + 1]
        /\ UNCHANGED <<tar, cut>>
     \/ /\ ~shut[r] /\ ~pipe[r]   \* it fails, or is done once something is written
        /\ tar' = [tar EXCEPT ![r] = "closed"]
        /\ \E b \in BOOLEAN: (b \/ chunks[r] > 0) /\ cut' = [cut EXCEPT ![r] = b]
        /\ UNCHANGED <<chunks, pipe>>
     \/ shut[r] /\ tar' = [tar EXCEPT ![r] = "over"] /\ UNCHANGED <<chunks, pipe, cut>>
  /\ UNCHANGED <<reqs, shut, slots, leases, store, unbegun>>
\* The failure is noted after the pipe is closed.
WriterEnds(r) ==
  /\ tar[r] = "closed" /\ tar' = [tar EXCEPT ![r] = "over"]
  /\ UNCHANGED <<reqs, chunks, pipe, shut, cut, slots, leases, store, unbegun>>

-----------------------------------------------------------------------------
(* The response *)

\* The first frame is sent: the body begins, with the JAR if there is one.
Begin(r) ==
  /\ pc[r] = "header" /\ Go(r, IF jar[r] THEN "sending" ELSE "reading")
  /\ UNCHANGED <<slot, job, orphan, lease, jar, outcome, pipes, slots, leases, store, unbegun>>
ReadChunk(r) ==
  /\ pc[r] = "reading" /\ Read(r, "sending")
  /\ UNCHANGED <<slot, job, orphan, lease, jar, outcome, tar, chunks, cut, slots, leases, store, unbegun>>
SendChunk(r) ==
  /\ pc[r] = "sending"
  /\ IF lease[r] THEN Go(r, "reading") /\ UNCHANGED outcome /\ Keeps(r)
     ELSE Go(r, "done") /\ Came(r, "complete") /\ Releases(r)
  /\ UNCHANGED <<job, orphan, lease, jar, pipes, leases, store, unbegun>>

Joined(r) == tar[r] = "over"
\* What the writer has noted of a failure.
holder(r) == cut[r] /\ tar[r] = "over"

\* The writer is joined: its failure is the stream's, and the lease and the slot go back.
Join(r) ==
  /\ pc[r] \in {"joining", "closing"} /\ Joined(r) /\ Go(r, "done")
  /\ lease' = [lease EXCEPT ![r] = FALSE] /\ leases' = leases - 1
  /\ Came(r, IF pc[r] = "joining" /\ ~holder(r) THEN "complete" ELSE "aborted")
  /\ IF slot[r] /\ r \notin unbegun THEN Releases(r) ELSE Keeps(r)
  /\ UNCHANGED <<job, orphan, jar, pipes, store, unbegun>>

\* A stalled send closes the body, and the event loop closes a begun generator that was
\* dropped: the slot first, then the stream.  A dropped body that had not begun only
\* lets go of the stream it would have read.
aclose(r) ==
  /\ pc[r] = "abandoned" \/ (pc[r] = "sending" /\ lease[r])
  /\ IF r \in unbegun THEN Keeps(r) ELSE Releases(r)
  /\ IF lease[r] THEN Go(r, "closing") /\ UNCHANGED outcome ELSE Go(r, "done") /\ Came(r, "aborted")
  /\ shut' = [shut EXCEPT ![r] = TRUE]
  /\ UNCHANGED <<job, orphan, lease, jar, tar, chunks, pipe, cut, leases, store, unbegun>>

\* The client goes away, or its first frame stalls.
ClientGone(r) ==
  /\ pc[r] \in {"header", "sending"} /\ Go(r, "abandoned")
  /\ unbegun' = IF pc[r] = "header" THEN unbegun \cup {r} ELSE unbegun
  /\ UNCHANGED <<slot, job, orphan, lease, jar, outcome, pipes, slots, leases, store>>

-----------------------------------------------------------------------------
(* Cancellation *)

\* Waiting for a slot, nothing is held.
CancelWaiting(r) ==
  /\ pc[r] = "new" /\ Go(r, "done") /\ Came(r, "aborted")
  /\ UNCHANGED <<slot, job, orphan, lease, jar, pipes, slots, leases, store, unbegun>>
\* Before the stream owns a lease: the attempt under way is an orphan's.
CancelOpening(r) ==
  /\ pc[r] \in {"jar", "opening", "sleeping"} /\ Go(r, "done") /\ Came(r, "aborted") /\ Releases(r)
  /\ orphan' = [orphan EXCEPT ![r] = pc[r] = "opening"]
  /\ UNCHANGED <<job, lease, jar, pipes, leases, store, unbegun>>
\* In a read of the pipe.
CancelReading(r) ==
  /\ pc[r] \in {"first", "reading"} /\ Go(r, "closing")
  /\ shut' = [shut EXCEPT ![r] = TRUE]
  /\ UNCHANGED <<slot, job, orphan, lease, jar, outcome, tar, chunks, pipe, cut, slots, leases, store, unbegun>>
\* In the join, which goes on without it.
CancelJoin(r) ==
  /\ pc[r] \in {"joining", "closing"} /\ Go(r, "done") /\ Came(r, "aborted")
  /\ lease' = [lease EXCEPT ![r] = FALSE] /\ leases' = leases - 1
  /\ IF slot[r] /\ r \notin unbegun THEN Releases(r) ELSE Keeps(r)
  /\ UNCHANGED <<job, orphan, jar, pipes, store, unbegun>>

\* Defect: what an orphan's thread leased is dropped.
ReclaimsNothing(r) == 0
Reclaimed(r) == IF job[r] = "leased" THEN 1 ELSE 0

\* release_orphaned_lease, once the thread is done.
reclaim_orphan(r) ==
  /\ orphan[r] /\ job[r] # "trying"
  /\ job' = [job EXCEPT ![r] = "none"] /\ orphan' = [orphan EXCEPT ![r] = FALSE]
  /\ leases' = leases - Reclaimed(r)
  /\ UNCHANGED <<pc, slot, lease, jar, outcome, pipes, slots, store, unbegun>>

\* A publisher takes the server's lock, and lets go of it.
Publisher ==
  /\ \/ ~locked /\ publishes < MaxPublishes /\ locked' = TRUE /\ publishes' = publishes + 1
     \/ locked /\ locked' = FALSE /\ publishes' = publishes
  /\ UNCHANGED <<reqs, pipes, slots, leases, unbegun>>

Next ==
  \/ Publisher
  \/ \E r \in Requests:
       \/ acquire(r) \/ jar_member(r) \/ run_if_unlocked(r) \/ under_server_lock(r)
       \/ tar_stream(r) \/ NotPublished(r) \/ prime(r) \/ tar_into_fd(r) \/ WriterEnds(r)
       \/ Begin(r) \/ ReadChunk(r) \/ SendChunk(r) \/ Join(r) \/ aclose(r) \/ ClientGone(r)
       \/ CancelWaiting(r) \/ CancelOpening(r) \/ CancelReading(r) \/ CancelJoin(r)
       \/ reclaim_orphan(r)

Spec == Init /\ [][Next]_vars

-----------------------------------------------------------------------------
\* When every request is over and no thread works for it, no lease pins a snapshot and
\* every slot is back, wherever it was cancelled (issues #1696, #3571); but for the
\* slot of a body dropped before it began.  And a client that sees its stream end well
\* has the whole tar, though the failing writer closes the pipe before it notes why.
TransfersReturn ==
  /\ (\A r \in Requests: pc[r] = "done" /\ job[r] = "none") =>
        leases = 0 /\ slots = Slots - Cardinality(unbegun)
  /\ \A r \in Requests: outcome[r] = "complete" => ~cut[r]
=============================================================================
