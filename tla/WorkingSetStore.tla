--------------------------- MODULE WorkingSetStore ---------------------------
(* The authoritative working set of one server on the fs backend            *)
(* (storage/adapters/fs.py) and the snapshot endpoint in front of it          *)
(* (dataplane/api/transfers.py).                                              *)
(*                                                                            *)
(* On disk: the trees under snapshots/, the `current` symlink, the marker     *)
(* holding <generation, publisher>.  In memory: the server lock, the leases   *)
(* of readers and the transfers in flight, all lost when the API process      *)
(* restarts.  The contents of a tree are a number: every write to the         *)
(* published world makes one never seen before.                               *)
EXTENDS Naturals, FiniteSets

CONSTANTS
  Workers,    \* the Workers that publish, hydrate and are assigned the server
  Uploads,    \* snapshot uploads that can be in flight at once
  Writers,    \* API-side writers: restores, file edits, the delete's prune
  Readers,    \* hydrates and backups streaming a tree
  MaxGen,     \* bound on the generation
  MaxWorld,   \* bound on the worlds ever written
  None        \* no Worker / no publisher / no lock holder

Jobs == Uploads \cup Writers

ASSUME StoreAssumption ==
  /\ MaxGen \in Nat /\ MaxWorld \in Nat
  /\ Uploads \cap Writers = {}
  /\ None \notin Workers \cup Jobs

RestorePublisher == "backup-restore"
ApiEditPublisher == "api-edit"

VARIABLES
  tree,      \* the world each tree under snapshots/ holds, 0 when there is none
  current,   \* the tree `current` points at, 0 when there is no symlink
  marker,    \* the generation file
  lock,      \* holder of the per-server lock
  job,       \* what each transfer or writer is doing
  lease,     \* the tree each reader streams, 0 for none
  sweeping,  \* the candidate the sweep has judged and is about to remove
  assigned,  \* the Worker the server's row is assigned to
  started    \* the Worker whose start read the settled generation

\* History: what the properties compare the state with.
VARIABLES
  fresh,     \* number of worlds written so far
  issued,    \* the [gen, world] pairs handed to Workers
  torn,      \* a crash separated the last write from its bump
  raced      \* `current` was pointed at a tree the sweep had already judged

disk == <<tree, current, marker>>
memory == <<lock, job, lease, sweeping>>
rows == <<assigned, started>>
history == <<fresh, issued, torn, raced>>
vars == <<disk, memory, rows, history>>

Kinds == {"snapshot", "restore", "edit", "prune"}
Stages == {"idle", "guarded", "staged", "fenced", "moved", "flipped", "editing",
           "edited", "reclaim", "packed", "bumped", "unlinked", "emptied"}

Begun(pc, kind, pub, base) ==
  [pc |-> pc, kind |-> kind, pub |-> pub, base |-> base, stale |-> FALSE, snap |-> 0, old |-> 0]
Idle == Begun("idle", "edit", None, 0)

Publishers == Workers \cup {None, RestorePublisher, ApiEditPublisher}
JobRecords == [pc: Stages, kind: Kinds, pub: Publishers, base: 0..MaxGen, stale: BOOLEAN,
               snap: 0..MaxWorld, old: 0..MaxWorld]

TypeOK ==
  /\ tree \in [1..MaxWorld -> 0..MaxWorld]
  /\ current \in 0..MaxWorld
  /\ marker \in [gen: 0..MaxGen, pub: Publishers]
  /\ lock \in Jobs \cup {None}
  /\ job \in [Jobs -> JobRecords]
  /\ lease \in [Readers -> 0..MaxWorld]
  /\ sweeping \in 0..MaxWorld
  /\ assigned \in Workers \cup {None} /\ started \in Workers \cup {None}
  /\ fresh \in 0..MaxWorld
  /\ issued \subseteq [gen: 0..MaxGen, world: 1..MaxWorld]
  /\ torn \in BOOLEAN /\ raced \in BOOLEAN

Init ==
  /\ tree = [s \in 1..MaxWorld |-> 0] /\ current = 0
  /\ marker = [gen |-> 0, pub |-> None]
  /\ lock = None /\ job = [j \in Jobs |-> Idle]
  /\ lease = [r \in Readers |-> 0] /\ sweeping = 0
  /\ assigned = None /\ started = None
  /\ fresh = 0 /\ issued = {} /\ torn = FALSE /\ raced = FALSE

Leased(s) == \E r \in Readers: lease[r] = s

\* _current_dir: the symlink is there and so is the tree it names.
Resolves == current # 0 /\ tree[current] # 0

\* An acknowledged write: every upload past its guard now carries a stale base.
Outdated(jobs) ==
  [j \in Jobs |-> IF jobs[j].kind = "snapshot" THEN [jobs[j] EXCEPT !.stale = TRUE]
                                              ELSE jobs[j]]

\* The trees left when those in S are removed.
Without(S) == [s \in 1..MaxWorld |-> IF s \in S THEN 0 ELSE tree[s]]

Step(j, from, to) == job[j].pc = from /\ job' = [job EXCEPT ![j].pc = to]

Drop(j) == job' = [job EXCEPT ![j] = Idle]

CanBump == marker.gen < MaxGen
CanWrite == fresh < MaxWorld

-----------------------------------------------------------------------------
(* A snapshot upload, up to the publish lock.                                 *)

\* The publish-time guard: a base behind the store is refused when another
\* publisher wrote it, unless the declaring Worker is the assigned one.  An
\* undeclared base (0) is not compared.
GuardPasses(w, base) ==
  \/ base = 0
  \/ base >= marker.gen
  \/ marker.pub \in {None, w}
  \/ assigned = w

\* publish_snapshot up to begin_snapshot: the generation read here is the base
\* the commit re-checks.  The three reads of the guard are lock-free; what moves
\* between them also moves the generation and is caught by the commit.
Guard(u, w, base) ==
  /\ job[u].pc = "idle"
  /\ base <= marker.gen
  /\ GuardPasses(w, base)
  /\ job' = [job EXCEPT ![u] = Begun("guarded", "snapshot", w, marker.gen)]
  /\ UNCHANGED <<disk, lock, lease, sweeping, rows, history>>

\* The assignment fence: it passes unless another Worker is assigned.
FencePasses(u) == assigned \in {None, job[u].pub}

\* The body has streamed into staging and passed the length, emptiness and region
\* checks; the fence is read once before the commit, which refuses early.
Staged(u) ==
  /\ job[u].pc = "guarded"
  /\ IF FencePasses(u) THEN Step(u, "guarded", "staged") ELSE Drop(u)
  /\ UNCHANGED <<disk, lock, lease, sweeping, rows, history>>

\* abort_snapshot: a truncated, oversized, idle, empty, corrupt or disconnected
\* upload, and a commit the missing-region gate refuses.  Staging is discarded
\* and `current` is not touched.
UploadFails(u) ==
  /\ job[u].pc \in {"guarded", "staged"}
  /\ Drop(u)
  /\ UNCHANGED <<disk, lock, lease, sweeping, rows, history>>

EnterCommitUnchecked(u) ==
  /\ job[u].pc = "staged" /\ job[u].kind = "snapshot" /\ lock = None
  /\ IF FencePasses(u)
       THEN lock' = u /\ Step(u, "staged", "fenced")
       ELSE lock' = lock /\ Drop(u)
  /\ UNCHANGED <<disk, lease, sweeping, rows, history>>

\* _publish_and_bump takes the lock, compares the generation with the guard's
\* base and reads the fence again; a refusal (pruned, stale, fenced) discards the
\* staging.  A delete that removed the staging has moved the generation as well.
EnterCommit(u) ==
  /\ job[u].pc = "staged" /\ job[u].kind = "snapshot" /\ lock = None
  /\ IF marker.gen = job[u].base /\ FencePasses(u)
       THEN lock' = u /\ Step(u, "staged", "fenced")
       ELSE lock' = lock /\ Drop(u)
  /\ UNCHANGED <<disk, lease, sweeping, rows, history>>

-----------------------------------------------------------------------------
(* The API's own writers.                                                     *)

\* restore_backup stages the archive and publishes it with no base and no fence.
BeginRestore(p) ==
  /\ job[p].pc = "idle"
  /\ job' = [job EXCEPT ![p] = Begun("staged", "restore", RestorePublisher, 0)]
  /\ UNCHANGED <<disk, lock, lease, sweeping, rows, history>>

\* A corrupt archive is refused unless forced; its staging is removed.
RestoreRefused(p) ==
  /\ job[p].pc = "staged" /\ job[p].kind = "restore"
  /\ Drop(p)
  /\ UNCHANGED <<disk, lock, lease, sweeping, rows, history>>

EnterRestore(p) ==
  /\ job[p].kind = "restore" /\ lock = None
  /\ Step(p, "staged", "fenced")
  /\ lock' = p
  /\ UNCHANGED <<disk, lease, sweeping, rows, history>>

\* write_file on a server that never published: the file becomes the first tree.
LockInitial(p) ==
  /\ job[p].pc = "idle" /\ lock = None /\ current = 0
  /\ lock' = p
  /\ job' = [job EXCEPT ![p] = Begun("fenced", "edit", ApiEditPublisher, 0)]
  /\ UNCHANGED <<disk, lease, sweeping, rows, history>>

\* An edit resolves `current` under the lock, so it never writes a tree a commit
\* has flipped away.
LockEdit(p) ==
  /\ job[p].pc = "idle" /\ lock = None /\ Resolves
  /\ lock' = p
  /\ job' = [job EXCEPT ![p] = Begun("editing", "edit", ApiEditPublisher, 0)]
  /\ UNCHANGED <<disk, lease, sweeping, rows, history>>

\* The live tree is written in place: a file written, removed or renamed.
EditInPlace(p) ==
  /\ CanWrite
  /\ Step(p, "editing", "edited")
  /\ fresh' = fresh + 1
  /\ tree' = [tree EXCEPT ![current] = fresh']
  /\ UNCHANGED <<current, marker, lock, lease, sweeping, rows, issued, torn, raced>>

-----------------------------------------------------------------------------
(* The publish core, under the lock: move, flip, stamp; then the reclaim.     *)

\* The staged tree is renamed into snapshots/.
Move(j) ==
  /\ CanWrite
  /\ job[j].pc = "fenced"
  /\ fresh' = fresh + 1
  /\ tree' = [tree EXCEPT ![fresh'] = fresh']
  /\ job' = [job EXCEPT ![j].pc = "moved", ![j].snap = fresh']
  /\ UNCHANGED <<current, marker, lock, lease, sweeping, rows, issued, torn, raced>>

\* `current` is renamed over in one step.  The sweep takes no lock and may have
\* judged, or removed, the tree the pointer now names.
Flip(j) ==
  /\ job[j].pc = "moved"
  /\ job' = [job EXCEPT ![j].pc = "flipped", ![j].old = current]
  /\ current' = job[j].snap
  /\ raced' = (raced \/ sweeping = current' \/ tree[current'] = 0)
  /\ UNCHANGED <<tree, marker, lock, lease, sweeping, rows, fresh, issued, torn>>

\* The superseded tree goes back to the caller to reclaim unless a reader leases it.
Superseded(j) ==
  /\ job[j].kind \in {"snapshot", "restore"}
  /\ job[j].old # 0 /\ ~Leased(job[j].old)

\* _write_marker: generation and publisher are one file, replaced atomically.
WriteMarker(gen, pub) == marker' = [gen |-> gen, pub |-> pub] /\ torn' = FALSE

\* A snapshot's answer tells the Worker the generation its tree was published as.
Answer(j) ==
  issued' = IF job[j].kind = "snapshot"
              THEN issued \cup {[gen |-> marker.gen + 1, world |-> job[j].snap]}
              ELSE issued

StampIgnoringLeases(j) ==
  /\ job[j].pc \in {"flipped", "edited"} /\ CanBump
  /\ WriteMarker(marker.gen + 1, job[j].pub)
  /\ lock' = None
  /\ job' = Outdated(IF job[j].old # 0 THEN [job EXCEPT ![j].pc = "reclaim"]
                                       ELSE [job EXCEPT ![j] = Idle])
  /\ Answer(j)
  /\ UNCHANGED <<tree, current, lease, sweeping, rows, fresh, raced>>

StampOncePerPublisher(j) ==
  /\ job[j].pc \in {"flipped", "edited"} /\ CanBump
  /\ WriteMarker(IF marker.pub = job[j].pub THEN marker.gen ELSE marker.gen + 1, job[j].pub)
  /\ lock' = None
  /\ job' = Outdated(IF Superseded(j) THEN [job EXCEPT ![j].pc = "reclaim"]
                                      ELSE [job EXCEPT ![j] = Idle])
  /\ Answer(j)
  /\ UNCHANGED <<tree, current, lease, sweeping, rows, fresh, raced>>

\* The bump: the generation read again plus one, with the publisher.  The lock is
\* released and the call returns.
Stamp(j) ==
  /\ job[j].pc \in {"flipped", "edited"} /\ CanBump
  /\ WriteMarker(marker.gen + 1, job[j].pub)
  /\ lock' = None
  /\ job' = Outdated(IF Superseded(j) THEN [job EXCEPT ![j].pc = "reclaim"]
                                      ELSE [job EXCEPT ![j] = Idle])
  /\ Answer(j)
  /\ UNCHANGED <<tree, current, lease, sweeping, rows, fresh, raced>>

\* After the lock is released the superseded tree is removed, best effort.
Reclaim(j) ==
  /\ job[j].pc = "reclaim"
  /\ tree' \in {tree, Without({job[j].old})}
  /\ Drop(j)
  /\ UNCHANGED <<current, marker, lock, lease, sweeping, rows, history>>

-----------------------------------------------------------------------------
(* prune_to_final_snapshot: the delete's reclaim, under the lock throughout.  *)

\* The prune removes incoming/, snapshots/ and versions/: what is staged is lost
\* and the readers of a removed tree fail.
Collect(p, jobs) ==
  /\ tree' = Without(1..MaxWorld)
  /\ lease' = [r \in Readers |-> 0]
  /\ job' = [j \in Jobs |-> IF j # p /\ jobs[j].pc = "staged" THEN Idle ELSE jobs[j]]

\* The live tree is packed into final.tar.gz and the archive renamed into place.
PrunePack(p) ==
  /\ job[p].pc = "idle" /\ lock = None /\ Resolves
  /\ lock' = p
  /\ job' = [job EXCEPT ![p] = Begun("packed", "prune", None, 0)]
  /\ UNCHANGED <<disk, lease, sweeping, rows, history>>

\* The generation advances before `current` goes, keeping the publisher's claim.
\* From here a guard reads the generation the pruned store will have.
PruneBump(p) ==
  /\ CanBump /\ job[p].pc = "packed"
  /\ WriteMarker(marker.gen + 1, marker.pub)
  /\ job' = Outdated([job EXCEPT ![p].pc = "bumped"])
  /\ UNCHANGED <<tree, current, lock, lease, sweeping, rows, fresh, issued, raced>>

PruneUnlink(p) ==
  /\ Step(p, "bumped", "unlinked")
  /\ current' = 0
  /\ UNCHANGED <<tree, marker, lock, lease, sweeping, rows, history>>

\* The trees go, leased or not; then the publisher's claim is dropped.
PruneCollect(p) ==
  /\ job[p].pc = "unlinked"
  /\ Collect(p, [job EXCEPT ![p] = Idle])
  /\ WriteMarker(marker.gen, None)
  /\ lock' = None
  /\ UNCHANGED <<current, sweeping, rows, fresh, issued, raced>>

\* Nothing to pack (never published, or a retried delete): collect what is left.
PruneEmpty(p) ==
  /\ job[p].pc = "idle" /\ lock = None /\ ~Resolves
  /\ lock' = p
  /\ Collect(p, [job EXCEPT ![p] = Begun("emptied", "prune", None, 0)])
  /\ current' = 0
  /\ UNCHANGED <<marker, sweeping, rows, history>>

PruneEmptyBump(p) ==
  /\ CanBump /\ job[p].pc = "emptied"
  /\ WriteMarker(marker.gen + 1, None)
  /\ lock' = None
  /\ job' = Outdated([job EXCEPT ![p] = Idle])
  /\ UNCHANGED <<tree, current, lease, sweeping, rows, fresh, issued, raced>>

-----------------------------------------------------------------------------
(* Readers, the sweep, the row's assignment, and a restart of the API.        *)

\* A hydrate leases the live tree and reads its generation under one lock; the
\* Worker ends up holding that world under that generation.
LeaseHydrate(r) ==
  /\ lease[r] = 0 /\ lock = None /\ Resolves
  /\ lease' = [lease EXCEPT ![r] = current]
  /\ issued' = issued \cup {[gen |-> marker.gen, world |-> tree[current]]}
  /\ UNCHANGED <<disk, lock, job, sweeping, rows, fresh, torn, raced>>

\* A backup or a health check leases without the lock: it resolves, leases and
\* resolves again until the two agree.
LeaseBackup(r) ==
  /\ lease[r] = 0 /\ Resolves
  /\ lease' = [lease EXCEPT ![r] = current]
  /\ UNCHANGED <<disk, lock, job, sweeping, rows, history>>

ReleaseLease(r) ==
  /\ lease[r] # 0
  /\ lease' = [lease EXCEPT ![r] = 0]
  /\ UNCHANGED <<disk, lock, job, sweeping, rows, history>>

\* _sweep_server judges one listed tree: not the live one now, and not leased.
SweepJudge(s) ==
  /\ sweeping = 0 /\ tree[s] # 0
  /\ s # current /\ ~Leased(s)
  /\ sweeping' = s
  /\ UNCHANGED <<disk, lock, job, lease, rows, history>>

\* The removal takes no lock: the judged tree may have become the live one.
SweepRemove ==
  /\ sweeping # 0
  /\ tree' = Without({sweeping})
  /\ sweeping' = 0
  /\ UNCHANGED <<current, marker, lock, job, lease, rows, history>>

\* A placement commits the assignment; a stop or a failed start clears it.
Assign(w) ==
  /\ assigned = None
  /\ assigned' = w
  /\ UNCHANGED <<disk, memory, started, history>>

Unassign ==
  /\ assigned # None
  /\ assigned' = None /\ started' = None
  /\ UNCHANGED <<disk, memory, history>>

\* settled_generation: the assigned Worker's start reads the store under the lock,
\* after its assignment committed, to decide whether to hydrate.
StartReads ==
  /\ assigned # None /\ lock = None
  /\ started' = assigned
  /\ UNCHANGED <<disk, memory, assigned, history>>

\* The API process dies and comes back: memory is lost and the startup sweep
\* reclaims every tree but the live one before requests are served.
Restart ==
  /\ tree' = Without((1..MaxWorld) \ {current})
  /\ lock' = None /\ job' = [j \in Jobs |-> Idle]
  /\ lease' = [r \in Readers |-> 0] /\ sweeping' = 0
  /\ torn' = (torn \/ \E j \in Jobs: job[j].pc \in {"flipped", "edited"})
  /\ UNCHANGED <<current, marker, rows, fresh, issued, raced>>

UploadStep(u) ==
  \/ \E w \in Workers, base \in 0..MaxGen: Guard(u, w, base)
  \/ Staged(u) \/ UploadFails(u) \/ EnterCommit(u)

WriterStep(p) ==
  \/ BeginRestore(p) \/ RestoreRefused(p) \/ EnterRestore(p)
  \/ LockInitial(p) \/ LockEdit(p) \/ EditInPlace(p)
  \/ PrunePack(p) \/ PruneBump(p) \/ PruneUnlink(p) \/ PruneCollect(p)
  \/ PruneEmpty(p) \/ PruneEmptyBump(p)

PublishStep(j) == Move(j) \/ Flip(j) \/ Stamp(j) \/ Reclaim(j)

ReaderStep(r) == LeaseHydrate(r) \/ LeaseBackup(r) \/ ReleaseLease(r)

Next ==
  \/ \E u \in Uploads: UploadStep(u)
  \/ \E p \in Writers: WriterStep(p)
  \/ \E j \in Jobs: PublishStep(j)
  \/ \E r \in Readers: ReaderStep(r)
  \/ \E s \in 1..MaxWorld: SweepJudge(s)
  \/ SweepRemove
  \/ \E w \in Workers: Assign(w)
  \/ Unassign \/ StartReads \/ Restart

Spec == Init /\ [][Next]_vars

-----------------------------------------------------------------------------
(* Properties.                                                                *)

\* A start may skip the hydrate when the Worker's generation is at least the
\* store's (lifecycle.py).  That is safe: whoever was given such a generation was
\* given the world that is live now, unless a crash separated the last write from
\* its bump.
SkipSafe ==
  lock = None /\ Resolves /\ ~torn =>
    \A i \in issued: i.gen >= marker.gen => i.world = tree[current]

\* A tree that is live or leased stays on disk: the reclaim after a publish and
\* the sweep spare it, unless a publish moved `current` onto a tree the sweep had
\* judged before it was live.
TreesStay ==
  raced \/ /\ current # 0 => tree[current] # 0
           /\ \A r \in Readers: lease[r] # 0 => tree[lease[r]] # 0

Publishes(u) == job[u].pc = "moved" /\ job'[u].pc = "flipped"

\* A snapshot never replaces a write acknowledged after its guard read the store:
\* an edit, a restore, a delete or another snapshot that landed during the upload
\* makes the commit refuse (issues #899, #920, #921).
NoStalePublish == [][\A u \in Uploads: Publishes(u) => ~job[u].stale]_vars

\* Once a start has read the store's settled generation, no other Worker's
\* snapshot becomes the live world while that Worker stays assigned (#3544, #3552).
NoPublishUnderStart ==
  [][\A u \in Uploads: Publishes(u) => started \in {None, job[u].pub}]_vars

\* A snapshot that reaches the live pointer replaces no write acknowledged after its
\* guard read the store (issues #899, #920, #921), and no world of another Worker under
\* a start that has read the settled generation (#3544, #3552).
PublishesCurrent == NoStalePublish /\ NoPublishUnderStart

\* What the documentation says of the pointer in every row of the crash table: it
\* always resolves to one complete snapshot (STORAGE.md Section 4.3).
CurrentResolves == current # 0 => tree[current] # 0

=============================================================================
