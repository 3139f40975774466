----------------------------- MODULE ObjectStore -----------------------------
(* The authoritative working set of one server on the object-store backend    *)
(* (storage/adapters/object_store.py).                                        *)
(*                                                                            *)
(* In the bucket: the objects under each snapshots/<id>/ prefix, the pointer  *)
(* current.json, the generation marker and final.tar.gz.  No call touches two *)
(* objects: a copy, a deletion of a prefix and a sweep go object by object,   *)
(* and every call may fail.  In memory: the server lock, the readers' leases  *)
(* and the jobs in flight.                                                    *)
EXTENDS Naturals, FiniteSets

CONSTANTS
  Uploads,    \* snapshot uploads in flight
  Writers,    \* API-side writers: restores, file edits, the delete's prune
  Readers,    \* hydrates, backups and views
  Names,      \* object names in a working set
  Region,     \* the name of a region file
  MaxSnap,    \* bound: snapshot prefixes ever made
  MaxEdits,   \* bound: in-place edits
  MaxGen,     \* bound: the generation
  MaxFaults,  \* bound: failed calls and restarts
  MaxSweeps,  \* bound: prefixes the sweep lists
  None        \* no lock holder

Jobs == Uploads \cup Writers
Snaps == 1..MaxSnap

VARIABLES
  snap,      \* objects under each prefix: name -> content, 0 for no object
  pointer,   \* the prefix current.json names, 0 when there is none
  marker,    \* the generation
  final,     \* final.tar.gz: "none", or whether the pack had the whole live world
  lock,      \* holder of _server_lock
  job,       \* what each transfer or writer is doing
  rd,        \* what each reader is doing
  sweeping,  \* the prefix the sweep has listed, the names it saw, and its judgement
  used,      \* prefixes made so far
  edits,     \* edits made so far
  faults,    \* failures so far
  sweeps,    \* prefixes swept so far
  whole,     \* history: what each prefix held when it was last written as the live one
  issued,    \* history: the generations handed to Workers, with their worlds, but for
             \* those already behind the store's, which never goes back
  torn,      \* history: a failure separated a write from its bump
  raced      \* history: the pointer was put on a prefix the sweep had judged

bucket == <<snap, pointer, marker, final>>
counts == <<used, edits, faults, sweeps>>
history == <<whole, issued, torn, raced>>
vars == <<bucket, lock, job, rd, sweeping, counts, history>>

Empty == [n \in Names |-> 0]
Present(s) == {n \in Names: snap[s][n] # 0}
Idle == [pc |-> "idle", kind |-> "edit", base |-> 0, snap |-> 0, old |-> 0,
         staged |-> {}]
Resting == [s |-> 0, names |-> {}, judged |-> FALSE]
Away == [pc |-> "idle", s |-> 0, gen |-> 0]

Leased(s) == \E r \in Readers: rd[r].s = s /\ rd[r].pc \in {"leased", "sure", "stamped"}

\* The staged objects of a prefix: its number is its content.
StagedWorld(j) == [n \in Names |-> IF n \in job[j].staged THEN job[j].snap ELSE 0]

\* Once the generation moves.
Ahead == {i \in issued: i.gen > marker}
Init ==
  /\ snap = [s \in Snaps |-> Empty] /\ pointer = 0 /\ marker = 0 /\ final = "none"
  /\ lock = None /\ job = [j \in Jobs |-> Idle] /\ rd = [r \in Readers |-> Away]
  /\ sweeping = Resting /\ used = 0 /\ edits = 0 /\ faults = 0 /\ sweeps = 0
  /\ whole = [s \in Snaps |-> Empty] /\ issued = {} /\ torn = FALSE /\ raced = FALSE

-----------------------------------------------------------------------------
(* Staging, and the copy into a fresh prefix, outside the lock *)

\* begin_snapshot and write_snapshot behind the endpoint's guard, which has read the
\* generation the commit re-checks.
write_snapshot(u, names) ==
  /\ job[u].pc = "idle"
  /\ job' = [job EXCEPT ![u] = [Idle EXCEPT !.pc = "staged", !.kind = "snapshot", !.base = marker, !.staged = names]]
  /\ UNCHANGED <<bucket, lock, rd, sweeping, counts, history>>

stage_restore(p, names) ==
  /\ job[p].pc = "idle"
  /\ job' = [job EXCEPT ![p] = [Idle EXCEPT !.pc = "staged", !.kind = "restore", !.staged = names]]
  /\ UNCHANGED <<bucket, lock, rd, sweeping, counts, history>>

\* _publish_initial: the first file of a server becomes its first prefix, under the lock.
publish_initial(p, n) ==
  /\ job[p].pc = "idle" /\ lock = None /\ pointer = 0
  /\ lock' = p
  /\ job' = [job EXCEPT ![p] = [Idle EXCEPT !.pc = "staged", !.kind = "initial", !.staged = {n}]]
  /\ UNCHANGED <<bucket, rd, sweeping, counts, history>>

\* The objects go over one by one, to a prefix nobody knows yet.
copy_into_snapshot(j) ==
  /\ job[j].pc = "staged" /\ used < MaxSnap
  /\ used' = used + 1
  /\ job' = [job EXCEPT ![j].pc = "copied", ![j].snap = used']
  /\ snap' = [snap EXCEPT ![used'] = [n \in Names |-> IF n \in job[j].staged THEN used' ELSE 0]]
  /\ UNCHANGED <<pointer, marker, final, lock, rd, sweeping, edits, faults, sweeps, history>>

-----------------------------------------------------------------------------
(* The commit, under the lock *)

\* compare_region_name_sets: a commit may not lose a region file that is live.
RegionsKept(j) == pointer # 0 /\ snap[pointer][Region] # 0 => Region \in job[j].staged

Commits(u) == marker = job[u].base /\ RegionsKept(u)

\* A refusal (stale, pruned, a region missing) removes the copy; so may the fence.
commit_snapshot(u) ==
  /\ job[u].kind = "snapshot" /\ job[u].pc = "copied" /\ lock = None
  /\ \/ Commits(u) /\ lock' = u /\ job' = [job EXCEPT ![u].pc = "fenced", ![u].base = 0] /\ UNCHANGED snap
     \/ lock' = lock /\ job' = [job EXCEPT ![u] = Idle] /\ snap' = [snap EXCEPT ![job[u].snap] = Empty]
  /\ UNCHANGED <<pointer, marker, final, rd, sweeping, counts, history>>

restore_backup(p) ==
  /\ job[p].kind = "restore" /\ job[p].pc = "copied" /\ lock = None
  /\ lock' = p /\ job' = [job EXCEPT ![p].pc = "fenced"]
  /\ UNCHANGED <<bucket, rd, sweeping, counts, history>>

InitialCopied(p) ==
  /\ job[p].kind = "initial" /\ job[p].pc = "copied"
  /\ job' = [job EXCEPT ![p].pc = "fenced"]
  /\ UNCHANGED <<bucket, lock, rd, sweeping, counts, history>>

\* The one atomic step of a publish: a PUT of current.json.
flip_pointer(j) ==
  /\ job[j].pc = "fenced"
  /\ pointer' = job[j].snap
  /\ job' = [job EXCEPT ![j].pc = "flipped", ![j].old = pointer]
  /\ whole' = [whole EXCEPT ![job[j].snap] = StagedWorld(j)]
  /\ raced' = (raced \/ (sweeping.judged /\ sweeping.s = job[j].snap) \/ snap[job[j].snap] # StagedWorld(j))
  /\ UNCHANGED <<snap, marker, final, lock, rd, sweeping, counts, issued, torn>>

\* The generation is read and written plus one; the lock is released.
bump_generation(j) ==
  /\ job[j].pc \in {"flipped", "edited"} /\ marker < MaxGen
  /\ marker' = marker + 1 /\ lock' = None /\ torn' = FALSE
  /\ job' = [job EXCEPT ![j] = IF job[j].pc = "edited" THEN Idle ELSE [Idle EXCEPT !.pc = "published", !.old = job[j].old]]
  /\ issued' = IF job[j].kind = "snapshot" THEN Ahead \cup {[gen |-> marker', world |-> whole[job[j].snap]]} ELSE Ahead
  /\ UNCHANGED <<snap, pointer, final, rd, sweeping, counts, whole, raced>>

Reclaimable(s) == s # 0 /\ ~Leased(s)

\* _gc_after_flip judges the superseded prefix once, then deletes it.
gc_after_flip(j) ==
  /\ job[j].pc = "published"
  /\ job' = [job EXCEPT ![j] = IF Reclaimable(job[j].old) THEN [job[j] EXCEPT !.pc = "reclaim"] ELSE Idle]
  /\ UNCHANGED <<bucket, lock, rd, sweeping, counts, history>>
DeleteSuperseded(j) ==
  /\ job[j].pc = "reclaim"
  /\ snap' = [snap EXCEPT ![job[j].old] = Empty] /\ job' = [job EXCEPT ![j] = Idle]
  /\ UNCHANGED <<pointer, marker, final, lock, rd, sweeping, counts, history>>

-----------------------------------------------------------------------------
(* Edits of the live prefix, in place *)

LockEdit(p) ==
  /\ job[p].pc = "idle" /\ lock = None /\ pointer # 0
  /\ lock' = p /\ job' = [job EXCEPT ![p] = [Idle EXCEPT !.pc = "editing"]]
  /\ UNCHANGED <<bucket, rd, sweeping, counts, history>>

Edit(p, world) ==
  /\ job[p].pc = "editing" /\ edits < MaxEdits
  /\ edits' = edits + 1
  /\ snap' = [snap EXCEPT ![pointer] = world] /\ whole' = [whole EXCEPT ![pointer] = world]
  /\ job' = [job EXCEPT ![p].pc = "edited"]
  /\ UNCHANGED <<pointer, marker, final, lock, rd, sweeping, used, faults, sweeps, issued, torn, raced>>

write_file(p, n) == pointer # 0 /\ Edit(p, [snap[pointer] EXCEPT ![n] = MaxSnap + edits + 1])
delete_file(p, n) == pointer # 0 /\ snap[pointer][n] # 0 /\ Edit(p, [snap[pointer] EXCEPT ![n] = 0])
rename_file(p, n, m) ==
  pointer # 0 /\ n # m /\ snap[pointer][n] # 0 /\ Edit(p, [snap[pointer] EXCEPT ![m] = snap[pointer][n], ![n] = 0])

-----------------------------------------------------------------------------
(* prune_to_final_snapshot, under the lock throughout *)

Packed == IF snap[pointer] = whole[pointer] THEN "whole" ELSE "partial"

pack_final(p) ==
  /\ job[p].pc = "idle" /\ lock = None /\ pointer # 0
  /\ final' = Packed /\ lock' = p
  /\ job' = [job EXCEPT ![p] = [Idle EXCEPT !.pc = "packed", !.kind = "prune"]]
  /\ UNCHANGED <<snap, pointer, marker, rd, sweeping, counts, history>>

\* The generation moves before the pointer goes.
PruneBump(p) ==
  /\ job[p].pc = "packed" /\ marker < MaxGen
  /\ marker' = marker + 1 /\ torn' = FALSE /\ issued' = Ahead
  /\ job' = [job EXCEPT ![p].pc = "bumped"]
  /\ UNCHANGED <<snap, pointer, final, lock, rd, sweeping, counts, whole, raced>>

\* Defect: the pointer stays until the prefixes are gone.
PointerStays == pointer
PointerGone == 0

\* Its readers fail on the objects that go.
PruneUnlink(p) ==
  /\ job[p].pc = "bumped"
  /\ pointer' = PointerGone /\ rd' = [r \in Readers |-> Away]
  /\ job' = [job EXCEPT ![p].pc = "collect", ![p].base = 1]
  /\ UNCHANGED <<snap, marker, final, lock, sweeping, counts, history>>

\* Nothing published, or a retried delete: only collect.
PruneEmpty(p) ==
  /\ job[p].pc = "idle" /\ lock = None /\ pointer = 0
  /\ lock' = p /\ job' = [job EXCEPT ![p] = [Idle EXCEPT !.pc = "collect", !.kind = "prune"]]
  /\ UNCHANGED <<bucket, rd, sweeping, counts, history>>

delete_prefix(p) ==
  /\ job[p].pc = "collect"
  /\ \E s \in Snaps: \E n \in Present(s): snap' = [snap EXCEPT ![s][n] = 0]
  /\ UNCHANGED <<pointer, marker, final, lock, job, rd, sweeping, counts, history>>

\* The staging is gone too; only the empty branch moves the generation here.
PruneDone(p) ==
  /\ job[p].pc = "collect" /\ \A s \in Snaps: Present(s) = {}
  /\ pointer' = 0 /\ lock' = None
  /\ job[p].base = 0 => marker < MaxGen
  /\ marker' = IF job[p].base = 0 THEN marker + 1 ELSE marker
  /\ job' = [j \in Jobs |-> IF j = p \/ job[j].pc = "staged" THEN Idle ELSE job[j]]
  /\ issued' = IF job[p].base = 0 THEN Ahead ELSE issued
  /\ UNCHANGED <<snap, final, rd, sweeping, counts, whole, torn, raced>>

-----------------------------------------------------------------------------
(* Readers *)

\* _lease_live_snapshot: read the pointer, lease its prefix, read the pointer again.
read_pointer(r) ==
  /\ rd[r].pc = "idle" /\ pointer # 0
  /\ rd' = [rd EXCEPT ![r] = [Away EXCEPT !.pc = "read", !.s = pointer]]
  /\ UNCHANGED <<bucket, lock, job, sweeping, counts, history>>
acquire_lease(r) ==
  /\ rd[r].pc = "read" /\ rd' = [rd EXCEPT ![r].pc = "leased"]
  /\ UNCHANGED <<bucket, lock, job, sweeping, counts, history>>

LeaseHolds(r) == pointer = rd[r].s

lease_live_snapshot(r) ==
  /\ rd[r].pc = "leased"
  /\ rd' = [rd EXCEPT ![r] = IF LeaseHolds(r) THEN [rd[r] EXCEPT !.pc = "sure"] ELSE Away]
  /\ UNCHANGED <<bucket, lock, job, sweeping, counts, history>>

\* A hydrate reads the generation under the lock, for as long as its prefix is live.
read_generation(r) ==
  /\ rd[r].pc = "sure" /\ lock = None
  /\ rd' = [rd EXCEPT ![r] = IF pointer = rd[r].s THEN [rd[r] EXCEPT !.pc = "stamped", !.gen = marker] ELSE Away]
  /\ UNCHANGED <<bucket, lock, job, sweeping, counts, history>>

\* The stream is over, and the lease with it.
hydrate_gen(r) ==
  /\ rd[r].pc = "stamped"
  /\ issued' = issued \cup {i \in {[gen |-> rd[r].gen, world |-> snap[rd[r].s]]}: i.gen >= marker}
  /\ rd' = [rd EXCEPT ![r] = Away]
  /\ UNCHANGED <<bucket, lock, job, sweeping, counts, whole, torn, raced>>

\* A backup, a file read or a view ends, or a hydrate is cut off.
release_lease(r) ==
  /\ rd[r].pc \in {"sure", "stamped"} /\ rd' = [rd EXCEPT ![r] = Away]
  /\ UNCHANGED <<bucket, lock, job, sweeping, counts, history>>

-----------------------------------------------------------------------------
(* The sweep, which takes no lock *)

\* The listing of a prefix; its judgement, against the pointer and the leases of that
\* moment; the deletion of the listed objects.
sweep(s) ==
  /\ sweeping = Resting /\ Present(s) # {} /\ sweeps < MaxSweeps
  /\ sweeps' = sweeps + 1
  /\ sweeping' = [s |-> s, names |-> Present(s), judged |-> FALSE]
  /\ UNCHANGED <<bucket, lock, job, rd, used, edits, faults, history>>
sweep_server ==
  /\ sweeping # Resting /\ ~sweeping.judged
  /\ sweeping' = IF sweeping.s # pointer /\ ~Leased(sweeping.s) THEN [sweeping EXCEPT !.judged = TRUE] ELSE Resting
  /\ UNCHANGED <<bucket, lock, job, rd, counts, history>>
SweepDeletes ==
  /\ sweeping.judged
  /\ snap' = [snap EXCEPT ![sweeping.s] = [n \in Names |-> IF n \in sweeping.names THEN 0 ELSE @[n]]]
  /\ sweeping' = Resting
  /\ UNCHANGED <<pointer, marker, final, lock, job, rd, counts, history>>

-----------------------------------------------------------------------------
(* Failure *)

\* A call to the store fails: the job ends where it is.  A partial copy is removed if
\* it can be; here it stays for the sweep.
CallFails(j) ==
  /\ job[j].pc # "idle" /\ faults < MaxFaults /\ faults' = faults + 1
  /\ lock' = (IF lock = j THEN None ELSE lock)
  /\ job' = [job EXCEPT ![j] = Idle]
  /\ torn' = (torn \/ job[j].pc \in {"flipped", "edited"})
  /\ UNCHANGED <<bucket, rd, sweeping, used, edits, sweeps, whole, issued, raced>>

\* The API process dies; only the bucket is left.
Restart ==
  /\ faults < MaxFaults /\ faults' = faults + 1
  /\ lock' = None /\ job' = [j \in Jobs |-> Idle] /\ rd' = [r \in Readers |-> Away]
  /\ sweeping' = Resting
  /\ torn' = (torn \/ \E j \in Jobs: job[j].pc \in {"flipped", "edited"})
  /\ UNCHANGED <<bucket, used, edits, sweeps, whole, issued, raced>>

-----------------------------------------------------------------------------
Staged == {Names, Names \ {Region}}
put_file(p) == \E n \in Names: write_file(p, n) \/ delete_file(p, n) \/ \E m \in Names: rename_file(p, n, m)

Publishing(j) ==
  \/ copy_into_snapshot(j) \/ flip_pointer(j) \/ bump_generation(j) \/ gc_after_flip(j) \/ CallFails(j)
  \/ DeleteSuperseded(j)

Writing(p) ==
  \/ \E names \in Staged: stage_restore(p, names)
  \/ \E n \in Names: publish_initial(p, n)
  \/ restore_backup(p) \/ InitialCopied(p) \/ LockEdit(p) \/ put_file(p)
  \/ pack_final(p) \/ PruneBump(p) \/ PruneUnlink(p) \/ PruneEmpty(p) \/ delete_prefix(p) \/ PruneDone(p)

Reading(r) ==
  \/ read_pointer(r) \/ acquire_lease(r) \/ lease_live_snapshot(r)
  \/ read_generation(r) \/ hydrate_gen(r) \/ release_lease(r)

Next ==
  \/ \E u \in Uploads: commit_snapshot(u) \/ \E names \in Staged: write_snapshot(u, names)
  \/ \E j \in Jobs: Publishing(j)
  \/ \E p \in Writers: Writing(p)
  \/ \E r \in Readers: Reading(r)
  \/ \E s \in Snaps: sweep(s)
  \/ sweep_server \/ SweepDeletes
  \/ Restart

Spec == Init /\ [][Next]_vars

\* Behaviours are not followed past the step at which a publish meets the sweep.
BeforeRace == ~raced

-----------------------------------------------------------------------------
(* Properties *)

\* The prefix the pointer names, and every prefix a reader has made sure of, holds all
\* the objects it was published with and edited to, whatever reclaims and sweeps run
\* beside it; but for a publish that met the sweep (ObjectStorage.sweep, issue #113).
PrefixesWhole ==
  ~raced => \A s \in Snaps:
    s = pointer \/ (\E r \in Readers: rd[r].s = s /\ rd[r].pc \in {"sure", "stamped"}) => snap[s] = whole[s]

\* final.tar.gz never becomes a pack of a half-deleted working set, however often a
\* delete fails half-way and is retried (issue #777).
FinalWhole == ~raced => final # "partial"

\* A Worker that holds a generation as high as the store's holds the world that is
\* live (lifecycle.py skips the hydrate), unless a failed call separated the last write
\* from its bump.
SkipSafe ==
  lock = None /\ pointer # 0 /\ ~torn /\ ~raced =>
    \A i \in issued: i.gen >= marker => i.world = snap[pointer]
=============================================================================
