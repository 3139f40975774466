------------------------------- MODULE Spools -------------------------------
(* The temporary file a transfer spools to (storage/adapters/fs.py            *)
(* _create_spool, _run_spool_writer, _discard_spool), as the object store's   *)
(* backup uses it (object_store.py create_backup_from_current): it is made,   *)
(* opened for writing by its path, sent and removed.                          *)
(*                                                                            *)
(* Every file operation runs in a worker thread, which a cancelled caller     *)
(* does not stop.  The caller may be cancelled at every await, and again.     *)

VARIABLES
  caller,     \* where it is: start, create, write, send, discard, done
  job,        \* the thread's job it submitted: none, create, write, made, failed
  heir,       \* what the job's end does once its caller is gone: none, unlink, dispose
  disposals,  \* removals under way: the caller's, the cancelled writer's
  file,       \* the spool exists
  kept        \* history: a removal failed, and was logged

vars == <<caller, job, heir, disposals, file, kept>>

Init ==
  /\ caller = "start" /\ job = "none" /\ heir = "none" /\ disposals = {}
  /\ file = FALSE /\ kept = FALSE

Ended == job \in {"made", "failed"}

make_spool ==
  /\ caller = "start" /\ caller' = "create" /\ job' = "create"
  /\ UNCHANGED <<heir, disposals, file, kept>>

\* The thread makes the file, or opens it for writing, which makes it again.
JobRuns ==
  /\ job \in {"create", "write"}
  /\ \/ job' = "made" /\ file' = TRUE
     \/ job' = "failed" /\ file' = file
  /\ UNCHANGED <<caller, heir, disposals, kept>>

\* A removal of its own, which the caller only waits for.
start_spool_disposal(d) == disposals' = disposals \cup {d}

create_spool ==
  /\ caller = "create" /\ Ended
  /\ IF job = "made" THEN caller' = "write" /\ job' = "write" ELSE caller' = "done" /\ job' = "none"
  /\ UNCHANGED <<heir, disposals, file, kept>>

run_spool_writer ==
  /\ caller = "write" /\ Ended /\ job' = "none"
  /\ IF job = "made" THEN caller' = "send" /\ UNCHANGED disposals
     ELSE caller' = "discard" /\ start_spool_disposal("caller")
  /\ UNCHANGED <<heir, file, kept>>

\* The archive is written and sent, or fails.
discard_spool ==
  /\ caller = "send" /\ caller' = "discard" /\ start_spool_disposal("caller")
  /\ UNCHANGED <<job, heir, file, kept>>

Discarded ==
  /\ caller = "discard" /\ "caller" \notin disposals /\ caller' = "done"
  /\ UNCHANGED <<job, heir, disposals, file, kept>>

-----------------------------------------------------------------------------
\* A cancelled caller's writer removes the spool once more when it ends.
WriterHeir == "dispose"

Cancelled ==
  /\ \/ caller = "create" /\ caller' = "done" /\ heir' = "unlink" /\ UNCHANGED disposals
     \/ /\ caller = "write" /\ caller' = "discard" /\ heir' = WriterHeir
        /\ start_spool_disposal("caller")
     \/ caller = "send" /\ caller' = "discard" /\ start_spool_disposal("caller") /\ UNCHANGED heir
     \/ caller = "discard" /\ caller' = "done" /\ UNCHANGED <<heir, disposals>>
  /\ UNCHANGED <<job, file, kept>>

\* The done callback of a job whose caller was cancelled.
reclaim_orphan ==
  /\ Ended /\ caller \in {"discard", "done"} /\ job' = "none" /\ heir' = "none"
  /\ CASE heir = "unlink" -> file' = (file /\ job = "failed") /\ UNCHANGED disposals
       [] heir = "dispose" -> start_spool_disposal("writer") /\ UNCHANGED file
       [] OTHER -> UNCHANGED <<disposals, file>>
  /\ UNCHANGED <<caller, kept>>

\* The unlink runs in its thread; or the loop cancels it at shutdown, and its callback
\* unlinks instead.  Either may fail.
spool_disposal_done(d) ==
  /\ d \in disposals /\ disposals' = disposals \ {d}
  /\ \/ file' = FALSE /\ kept' = kept
     \/ file /\ kept' = TRUE /\ file' = file
  /\ UNCHANGED <<caller, job, heir>>

Next ==
  \/ make_spool \/ JobRuns \/ create_spool \/ run_spool_writer \/ discard_spool \/ Discarded
  \/ Cancelled \/ reclaim_orphan \/ \E d \in {"caller", "writer"}: spool_disposal_done(d)

Spec == Init /\ [][Next]_vars

-----------------------------------------------------------------------------
\* Once its caller and every thread that works for it are done, no spool is left on
\* disk, wherever the caller was cancelled, unless its removal failed and was logged
\* (issues #3237, #3553).
SpoolsGone == caller = "done" /\ job = "none" /\ disposals = {} => ~file \/ kept
=============================================================================
