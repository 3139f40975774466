---------------------------- MODULE ServerBackups ----------------------------
(* The backups of one server: rows of the database and archives of the store, *)
(* created, uploaded, pruned, restored, checked and deleted                   *)
(* (servers/application/backups.py, integrity_sweep.py, backup_retention.py,  *)
(* the deletion in manage_server.py) against storage/adapters/fs.py.          *)
(*                                                                            *)
(* A row and its archive never change in one step: a use case is a sequence   *)
(* of commits and store calls under the lifecycle lock, any of which may fail *)
(* or be cut off by a crash.  Sizes and authors of backups are left out.      *)
EXTENDS Integers, FiniteSets, Sequences, SequencesExt, LifecycleGate

CONSTANTS
  MaxBackups,   \* backups ever made; a backup is its number, newer ones higher
  MaxDay        \* the last day the clock reaches

VARIABLES
  rows,      \* backup -> its row, or NoRow
  archive,   \* backup -> what its archive holds: "none", "sound", "corrupt", "unreadable"
  made,      \* backups made so far
  current,   \* the published working set: "none", "sound" or "corrupt"
  policy,    \* the row's backup_retention
  today,
  server,    \* "exists" or "deleted"
  todo,      \* what the request at work has left
  late       \* history: archives whose write was reported failed after it landed

vars == <<srv, holder, rows, archive, made, current, policy, today, server, todo, late>>
store == <<archive, current, late>>
world == <<srv, made, policy, today, server>>

-----------------------------------------------------------------------------
(* Rows and retention *)

Backups == 1..MaxBackups
\* A row's source matters to retention alone: "scheduled", or "kept" (a manual or
\* uploaded backup).
NoRow == [source |-> "none", health |-> "none", day |-> 0]
HasRow(b) == rows[b] # NoRow
get_by_id(b) == HasRow(b)

\* list_for_server: newest first.
list_for_server == SelectSeq([i \in Backups |-> MaxBackups + 1 - i], HasRow)

NoPolicy == [keep_last |-> 0, daily |-> 0, weekly |-> 0, monthly |-> 0]
\* The policies that are set: keep_last, or tiers.
Policies == {[NoPolicy EXCEPT !.keep_last = 1], [NoPolicy EXCEPT !.daily = 1, !.weekly = 1]}

\* A week and a month are runs of days; their lengths here are short ones.
week(d) == d \div 2
month(d) == d \div 3
window_days(n) == {today - i: i \in 0..(n - 1)}
window_weeks(n) == {week(today) - i: i \in 0..(n - 1)}
window_months(n) == {month(today) - i: i \in 0..(n - 1)}

Scheduled == SelectSeq(list_for_server, LAMBDA b: rows[b].source = "scheduled")

\* backups_to_prune, tiered: one pass, newest first; a backup is kept when it is
\* the first of a bucket inside a tier's window.
Claims(p, acc, b) ==
  LET d == rows[b].day
  IN  [days   |-> {d} \cap (window_days(p.daily) \ acc.days),
       weeks  |-> {week(d)} \cap (window_weeks(p.weekly) \ acc.weeks),
       months |-> {month(d)} \cap (window_months(p.monthly) \ acc.months)]
Consider(p, acc, b) ==
  LET c == Claims(p, acc, b)
  IN  [days |-> acc.days \cup c.days, weeks |-> acc.weeks \cup c.weeks,
       months |-> acc.months \cup c.months,
       pruned |-> IF c.days \cup c.weeks \cup c.months = {} THEN Append(acc.pruned, b) ELSE acc.pruned]

backups_to_prune(p) ==
  IF p.keep_last > 0 THEN SubSeq(Scheduled, p.keep_last + 1, Len(Scheduled))
  ELSE FoldLeft(LAMBDA acc, b: Consider(p, acc, b),
                [days |-> {}, weeks |-> {}, months |-> {}, pruned |-> <<>>], Scheduled).pruned

-----------------------------------------------------------------------------
(* Requests *)

Enter(r, steps) ==
  /\ server = "exists" /\ hold(r) /\ todo' = steps
  /\ UNCHANGED <<rows, archive, made, current, policy, today, server, late, srv>>

Row(source, health) == [source |-> source, health |-> health, day |-> IF source = "scheduled" THEN today ELSE 0]

\* A running server is snapshotted first; the row is committed before the archive.
CreateBackup(r, source) ==
  LET b == made + 1
      write == <<[do |-> "row", b |-> b, row |-> Row(source, "HEALTHY")], [do |-> "archive", b |-> b]>>
  IN  /\ srv \in {"rest", "running"} /\ made < MaxBackups
      /\ Enter(r, IF srv = "running" THEN <<[do |-> "snapshot"]>> \o write ELSE write)

\* _validate_backup_archive has accepted the members before the lock is taken; it
\* reads no region file, so the world inside may be corrupt.
UploadBackup(r, contents) ==
  LET b == made + 1
  IN  made < MaxBackups /\ Enter(r, <<[do |-> "row", b |-> b, row |-> Row("kept", "UNKNOWN")],
                    [do |-> "store", b |-> b, contents |-> contents]>>)

\* Defect: the row goes first.
DeleteRowThenArchive(b) == <<[do |-> "unrow", b |-> b], [do |-> "unlink", b |-> b]>>
delete_archive_then_row(b) == <<[do |-> "unlink", b |-> b], [do |-> "unrow", b |-> b]>>

DeleteBackup(r, b) == get_by_id(b) /\ Enter(r, delete_archive_then_row(b))

PruneScheduledBackups(r) ==
  /\ policy # NoPolicy
  /\ LET pruned == backups_to_prune(policy)
     IN  /\ pruned # <<>>
         /\ Enter(r, FlattenSeq([i \in DOMAIN pruned |->
              <<[do |-> "prune", b |-> pruned[i], policy |-> policy]>> \o delete_archive_then_row(pruned[i])]))

RestoreBackup(r, b, force) ==
  /\ get_by_id(b) /\ rows[b].health # "UNREADABLE" /\ is_at_rest
  /\ Enter(r, <<[do |-> "restore", b |-> b, force |-> force]>>)

\* DeleteServer: the final snapshot is packed, then every archive but that of the
\* newest row is deleted, then the rows cascade from the server's.
HeadRef == IF list_for_server = <<>> THEN 0 ELSE Head(list_for_server)
list_archive_refs == {b \in Backups: archive[b] # "none"}
DeleteServer(r) ==
  /\ is_at_rest
  /\ Enter(r, <<[do |-> "final"]>>
              \o [i \in 1..Cardinality(list_archive_refs \ {HeadRef}) |->
                    [do |-> "unlink", b |-> SetToSeq(list_archive_refs \ {HeadRef})[i]]]
              \o <<[do |-> "cascade"]>>)

\* SetBackupRetention and ClearBackupRetention write the policy without the lock;
\* the prune that follows is a request of its own, and best effort.
SetBackupRetention(p) ==
  /\ server = "exists" /\ policy' = p
  /\ UNCHANGED <<srv, holder, rows, archive, made, current, today, server, todo, late>>
ClearBackupRetention == policy # NoPolicy /\ SetBackupRetention(NoPolicy)

-----------------------------------------------------------------------------
(* The steps of a request *)

SetRow(b, row) == rows' = [rows EXCEPT ![b] = row]
update_health(b, health) == rows' = IF HasRow(b) THEN [rows EXCEPT ![b].health = health] ELSE rows
SetArchive(b, contents) == archive' = [archive EXCEPT ![b] = contents]

\* create_backup_from_current refuses a working set that is missing or corrupt.
create_backup_from_current(b) == current = "sound" /\ SetArchive(b, "sound") /\ UNCHANGED <<rows, current, late>>
put_backup(b, contents) == SetArchive(b, contents) /\ UNCHANGED <<rows, current, late>>
delete_backup(b) == SetArchive(b, "none") /\ UNCHANGED <<rows, current, late>>

\* restore_backup: a sound archive is published; a corrupt one only when forced,
\* and its row is quarantined either way; an unreadable one marks its row.
restore_backup(b, force) ==
  \/ /\ archive[b] = "sound" /\ current' = "sound" /\ UNCHANGED <<rows, archive, late>>
  \/ /\ archive[b] = "corrupt" /\ update_health(b, "QUARANTINED")
     /\ current' = IF force THEN "corrupt" ELSE current
     /\ UNCHANGED <<archive, late>>
  \/ /\ archive[b] = "unreadable" /\ update_health(b, "UNREADABLE") /\ UNCHANGED store
  \/ archive[b] = "none" /\ UNCHANGED <<rows, store>>

prune_to_final_snapshot == current' = "none" /\ UNCHANGED <<rows, archive, late>>

Call(s) ==
  CASE s.do = "snapshot" -> srv = "running" /\ current' = "sound" /\ UNCHANGED <<rows, archive, late>>
    [] s.do = "row" -> SetRow(s.b, s.row) /\ UNCHANGED store
    [] s.do = "archive" -> create_backup_from_current(s.b)
    [] s.do = "store" -> put_backup(s.b, s.contents)
    [] s.do = "unlink" -> delete_backup(s.b)
    [] s.do = "unrow" -> SetRow(s.b, NoRow) /\ UNCHANGED store
    [] s.do = "restore" -> restore_backup(s.b, s.force)
    [] s.do = "final" -> prune_to_final_snapshot
    [] s.do = "prune" -> UNCHANGED <<rows, store>>
    [] s.do = "cascade" -> rows' = [b \in Backups |-> NoRow] /\ UNCHANGED store

Proceed(r) ==
  /\ holder = r /\ todo # <<>>
  /\ Call(Head(todo)) /\ todo' = Tail(todo)
  /\ server' = IF Head(todo).do = "cascade" THEN "deleted" ELSE server
  /\ made' = IF Head(todo).do = "row" THEN Head(todo).b ELSE made
  /\ UNCHANGED <<srv, holder, policy, today>>

\* The archive's write fails: the row is deleted again.  The error may come after
\* the archive has its name (the fsync of the directory, or a lost answer).
Compensate(r) ==
  /\ holder = r /\ todo # <<>> /\ Head(todo).do \in {"archive", "store"}
  /\ LET b == Head(todo).b
     IN  /\ todo' = <<[do |-> "unrow", b |-> b]>>
         /\ \/ UNCHANGED <<archive, late>>
            \/ late' = late \cup {b} /\ SetArchive(b, "sound")
  /\ UNCHANGED <<world, holder, rows, current>>

Finish(r) ==
  /\ todo = <<>> /\ unlock(r)
  /\ UNCHANGED <<world, rows, store, todo>>

\* Any other step fails, or the process dies: what is done stays.
Abandon(r) ==
  /\ holder = r /\ todo # <<>> /\ LockLost /\ todo' = <<>>
  /\ UNCHANGED <<rows, store, made, policy, today, server>>

-----------------------------------------------------------------------------
(* The integrity sweep *)

Verdict(b) == CASE archive[b] \in {"none", "unreadable"} -> "UNREADABLE"
                [] archive[b] = "corrupt" -> "QUARANTINED" [] OTHER -> "HEALTHY"

\* For each row of a listing: its row is read again under the lock, and only a holder
\* of the lock touches an archive or a verdict, so the check and what it writes are
\* one step.  A busy server is skipped and an unavailable store ends the sweep.
check_backup(b) ==
  /\ holder = NoOne
  /\ get_by_id(b) /\ update_health(b, Verdict(b))
  /\ UNCHANGED <<holder, store, todo, world>>

-----------------------------------------------------------------------------
(* The server and its disk *)

Start == server = "exists" /\ StartClaims
         /\ UNCHANGED <<rows, store, todo, made, policy, today, server>>
Run == srv = "starting" /\ srv' = "running"
       /\ UNCHANGED <<holder, rows, store, todo, made, policy, today, server>>
Stop == srv = "running" /\ srv' = "rest" /\ current' = "sound"
        /\ UNCHANGED <<holder, rows, archive, late, todo, made, policy, today, server>>

\* What is stored may rot.
Rot ==
  /\ \E b \in Backups: \/ archive[b] = "sound" /\ SetArchive(b, "corrupt")
                       \/ archive[b] = "corrupt" /\ SetArchive(b, "unreadable")
  /\ UNCHANGED <<holder, rows, current, late, todo, world>>

DayPasses == today < MaxDay /\ today' = today + 1
             /\ UNCHANGED <<holder, rows, store, todo, srv, made, policy, server>>

Init ==
  /\ GateInit
  /\ rows = [b \in Backups |-> NoRow] /\ archive = [b \in Backups |-> "none"]
  /\ made = 0 /\ current \in {"none", "sound"} /\ policy = NoPolicy /\ today = 0
  /\ server = "exists" /\ todo = <<>> /\ late = {}

\* The endpoints (servers/api/backups.py, servers.py) and the schedule runner.
post_backups(r) == CreateBackup(r, "kept") \/ CreateBackup(r, "scheduled")
post_upload(r) == \E contents \in {"sound", "corrupt"}: UploadBackup(r, contents)
put_retention == \E p \in Policies: SetBackupRetention(p)
post_restore(r) == \E b \in Backups, force \in BOOLEAN: RestoreBackup(r, b, force)
delete_backups(r) == \E b \in Backups: DeleteBackup(r, b)

Request(r) ==
  \/ holder = NoOne /\ (\/ post_backups(r) \/ post_upload(r) \/ delete_backups(r)
                        \/ post_restore(r) \/ PruneScheduledBackups(r) \/ DeleteServer(r))
  \/ Proceed(r) \/ Compensate(r) \/ Finish(r) \/ Abandon(r)

Next ==
  \/ \E r \in Requests: Request(r)
  \/ put_retention \/ ClearBackupRetention
  \/ \E b \in Backups: check_backup(b)
  \/ Start \/ Run \/ Stop \/ Rot \/ DayPasses

Spec == Init /\ [][Next]_vars

-----------------------------------------------------------------------------
(* Properties *)

\* Wherever a create, an upload, a deletion, a prune or the deletion of the server
\* is cut off, an archive in the store has a row to find it by; after the server's
\* deletion the newest backup's archive alone is left.  The exception is an archive
\* whose write was reported as failed and which had landed all the same.
ArchivesFound ==
  /\ \A b \in Backups: archive[b] # "none" => HasRow(b) \/ b \in late \/ server = "deleted"
  /\ server = "deleted" => Cardinality(list_archive_refs) <= 1

\* No verdict is about an archive that is still being written or was replaced: what
\* is marked unreadable, and so can never be restored again, has no readable
\* archive, and what is quarantined is not sound (the sweep checks under the lock).
VerdictsHold ==
  \A b \in Backups:
    /\ rows[b].health = "UNREADABLE" => archive[b] \in {"none", "unreadable"}
    /\ rows[b].health = "QUARANTINED" => archive[b] # "sound"

\* A scheduled backup is superseded under a policy when enough newer ones exist, or
\* when each tier has a newer one in its bucket or has left the bucket behind.
Newer(b) == {c \in Backups: c > b /\ rows[c].source = "scheduled"}
Superseded(p, b) ==
  IF p.keep_last > 0 THEN Cardinality(Newer(b)) >= p.keep_last
  ELSE /\ rows[b].day \in window_days(p.daily) => \E c \in Newer(b): rows[c].day = rows[b].day
       /\ week(rows[b].day) \in window_weeks(p.weekly) => \E c \in Newer(b): week(rows[c].day) = week(rows[b].day)
       /\ month(rows[b].day) \in window_months(p.monthly) => \E c \in Newer(b): month(rows[c].day) = month(rows[b].day)

\* A prune takes only scheduled backups, and when it takes one it is superseded under
\* the policy the prune read, by backups that are still there (backups_to_prune, and
\* the lock that keeps a deletion from overtaking it).
PrunesOnlySuperseded ==
  todo # <<>> /\ todo' = Tail(todo) /\ Head(todo).do = "prune"
    => /\ rows[Head(todo).b].source = "scheduled"
       /\ Superseded(Head(todo).policy, Head(todo).b)
=============================================================================
