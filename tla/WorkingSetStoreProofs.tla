------------------------ MODULE WorkingSetStoreProofs ------------------------
(* Proofs about WorkingSetStore, for every set of Workers, uploads, writers   *)
(* and readers and for every bound.                                           *)
EXTENDS WorkingSetStore, TLAPS

-----------------------------------------------------------------------------
(* The inductive invariant *)

\* Whoever is between taking the server's lock and the bump holds it.
Locked == {"fenced", "moved", "flipped", "editing", "edited", "packed", "bumped", "unlinked",
           "emptied"}
LockHeld == \A j \in Jobs : job[j].pc \in Locked => lock = j

\* Trees are numbered as they are made; a published one is its publisher's and new.
Numbered ==
  /\ current <= fresh
  /\ \A j \in Jobs :
       /\ job[j].snap <= fresh /\ job[j].old <= fresh
       /\ job[j].pc \in {"moved", "flipped"} =>
            job[j].snap # 0 /\ tree[job[j].snap] \in {0, job[j].snap}
       /\ job[j].pc = "moved" => job[j].snap # current
       /\ job[j].pc = "flipped" => job[j].snap = current /\ job[j].old # current
       /\ job[j].pc \in {"unlinked", "emptied"} => current = 0
       /\ job[j].pc \in {"editing", "edited"} => job[j].kind = "edit"

\* A tree handed to the reclaim is of no more use: neither live, nor leased, nor about
\* to be live.
Reclaims ==
  \A j \in Jobs : job[j].pc = "reclaim" =>
    /\ job[j].old # 0 /\ job[j].old # current
    /\ \A r \in Readers : lease[r] # job[j].old
    /\ \A k \in Jobs : job[k].pc = "moved" => job[k].snap # job[j].old

\* No Worker was given a generation the store has not reached; and outside a write
\* whoever was given the present one was given the live world.
Settled == ~torn /\ \A j \in Jobs : job[j].pc \notin {"flipped", "edited"}
IssuedLive ==
  /\ \A i \in issued : i.gen <= marker.gen
  /\ Settled /\ Resolves => \A i \in issued : i.gen = marker.gen => i.world = tree[current]

\* What the sweep has judged is not in use, unless a publish ran into it.
SweepSpares ==
  ~raced /\ sweeping # 0 => sweeping # current /\ ~Leased(sweeping)

\* An upload past its guard is as new as the generation it read, until it is marked stale.
UploadsMarked ==
  \A u \in Uploads :
    /\ job[u].base <= marker.gen
    /\ job[u].pc \in {"guarded", "staged"} => job[u].kind = "snapshot"
    /\ job[u].pc \in {"guarded", "staged"} /\ job[u].stale => job[u].base < marker.gen
    /\ job[u].pc \in {"fenced", "moved"} =>
         job[u].kind = "snapshot" /\ ~job[u].stale /\ started \in {None, job[u].pub}

\* A start that has read the store is that of the assigned Worker.
StartAssigned == started \in {None, assigned}

StoreInv ==
  /\ TypeOK /\ LockHeld /\ Numbered /\ Reclaims /\ IssuedLive /\ SweepSpares
  /\ TreesStay /\ UploadsMarked /\ StartAssigned

-----------------------------------------------------------------------------
(* Jobs *)

\* The parts of a job's record.
LEMMA JobFields ==
  ASSUME NEW rec \in JobRecords
  PROVE  /\ rec.pc \in Stages /\ rec.kind \in Kinds /\ rec.pub \in Publishers
         /\ rec.base \in Nat /\ rec.stale \in BOOLEAN
         /\ rec.snap \in 0..MaxWorld /\ rec.old \in 0..MaxWorld
BY StoreAssumption DEF JobRecords

\* A job that begins carries nothing of an earlier one.
LEMMA BegunRecord ==
  ASSUME NEW pc \in Stages, NEW kind \in Kinds, NEW pub \in Publishers, NEW base \in 0..MaxGen
  PROVE  LET rec == Begun(pc, kind, pub, base)
         IN  /\ rec \in JobRecords /\ rec.pc = pc /\ rec.kind = kind /\ rec.pub = pub
             /\ rec.base = base /\ ~rec.stale /\ rec.snap = 0 /\ rec.old = 0
BY StoreAssumption DEF Begun, JobRecords

LEMMA IdleRecord == Idle \in JobRecords /\ Idle.pc = "idle" /\ Idle.snap = 0 /\ Idle.old = 0
                    /\ Idle.base = 0 /\ ~Idle.stale
<1>1. "idle" \in Stages /\ "edit" \in Kinds /\ None \in Publishers /\ 0 \in 0..MaxGen
  BY StoreAssumption DEF Stages, Kinds, Publishers
<1> QED
  BY <1>1, BegunRecord DEF Idle

\* A step of a job changes its pc alone.
LEMMA StepRecord ==
  ASSUME NEW rec \in JobRecords, NEW to \in Stages
  PROVE  /\ [rec EXCEPT !.pc = to] \in JobRecords
         /\ [rec EXCEPT !.pc = to].pc = to
         /\ [rec EXCEPT !.pc = to].kind = rec.kind /\ [rec EXCEPT !.pc = to].pub = rec.pub
         /\ [rec EXCEPT !.pc = to].base = rec.base /\ [rec EXCEPT !.pc = to].stale = rec.stale
         /\ [rec EXCEPT !.pc = to].snap = rec.snap /\ [rec EXCEPT !.pc = to].old = rec.old
BY DEF JobRecords

\* An acknowledged write marks the uploads and changes nothing else of the jobs.
LEMMA OutdatedJobs ==
  ASSUME NEW jobs \in [Jobs -> JobRecords]
  PROVE  /\ Outdated(jobs) \in [Jobs -> JobRecords]
         /\ \A j \in Jobs :
              /\ Outdated(jobs)[j].pc = jobs[j].pc /\ Outdated(jobs)[j].kind = jobs[j].kind
              /\ Outdated(jobs)[j].pub = jobs[j].pub /\ Outdated(jobs)[j].base = jobs[j].base
              /\ Outdated(jobs)[j].snap = jobs[j].snap /\ Outdated(jobs)[j].old = jobs[j].old
              /\ jobs[j].stale => Outdated(jobs)[j].stale
<1> SUFFICES ASSUME NEW j \in Jobs
             PROVE  /\ Outdated(jobs)[j] \in JobRecords
                    /\ Outdated(jobs)[j].pc = jobs[j].pc /\ Outdated(jobs)[j].kind = jobs[j].kind
                    /\ Outdated(jobs)[j].pub = jobs[j].pub /\ Outdated(jobs)[j].base = jobs[j].base
                    /\ Outdated(jobs)[j].snap = jobs[j].snap /\ Outdated(jobs)[j].old = jobs[j].old
                    /\ jobs[j].stale => Outdated(jobs)[j].stale
  BY DEF Outdated
<1>1. Outdated(jobs)[j] = IF jobs[j].kind = "snapshot" THEN [jobs[j] EXCEPT !.stale = TRUE]
                                                       ELSE jobs[j]
  BY DEF Outdated
<1>2. jobs[j] \in JobRecords
  OBVIOUS
<1> QED
  BY <1>1, <1>2 DEF JobRecords

\* Nothing is pending of the lock when nobody holds it.
LEMMA Unlocked ==
  ASSUME StoreInv, lock = None, NEW j \in Jobs
  PROVE  job[j].pc \notin Locked
BY StoreAssumption DEF StoreInv, LockHeld

\* Where one job holds the lock no other is between taking it and the bump.
LEMMA OneHolder ==
  ASSUME StoreInv, NEW j \in Jobs, job[j].pc \in Locked, NEW k \in Jobs, k # j
  PROVE  job[k].pc \notin Locked /\ lock = j
BY DEF StoreInv, LockHeld

LEMMA StoreInit == Init => StoreInv
<1> SUFFICES ASSUME Init PROVE StoreInv
  OBVIOUS
<1>1. \A j \in Jobs : job[j] = Idle
  BY DEF Init
<1>2. TypeOK
  <2>1. job \in [Jobs -> JobRecords]
    BY IdleRecord DEF Init
  <2>2. marker \in [gen : 0..MaxGen, pub : Publishers]
    <3>1. marker = [gen |-> 0, pub |-> None] /\ 0 \in 0..MaxGen /\ None \in Publishers
      BY StoreAssumption DEF Init, Publishers
    <3> QED
      BY <3>1
  <2>3. tree \in [1..MaxWorld -> 0..MaxWorld]
    BY StoreAssumption DEF Init
  <2>4. /\ current \in 0..MaxWorld /\ lock \in Jobs \cup {None} /\ sweeping \in 0..MaxWorld
        /\ assigned \in Workers \cup {None} /\ started \in Workers \cup {None}
        /\ fresh \in 0..MaxWorld
    BY StoreAssumption DEF Init
  <2>5. lease \in [Readers -> 0..MaxWorld] /\ issued \subseteq [gen : 0..MaxGen, world : 1..MaxWorld]
    BY StoreAssumption DEF Init
  <2>6. torn \in BOOLEAN /\ raced \in BOOLEAN
    BY DEF Init
  <2> QED
    BY <2>1, <2>2, <2>3, <2>4, <2>5, <2>6 DEF TypeOK
<1>3. LockHeld /\ Reclaims
  BY <1>1, IdleRecord DEF LockHeld, Reclaims, Locked
<1>4. Numbered
  BY <1>1, IdleRecord DEF Numbered, Init
<1>5. IssuedLive /\ SweepSpares /\ TreesStay /\ StartAssigned
  BY DEF Init, IssuedLive, SweepSpares, TreesStay, StartAssigned, Resolves
<1>6. UploadsMarked
  BY <1>1, IdleRecord DEF UploadsMarked, Init, Jobs
<1> QED
  BY <1>2, <1>3, <1>4, <1>5, <1>6 DEF StoreInv

-----------------------------------------------------------------------------
(* Steps outside the lock *)

\* What a step of j keeps if it touches nothing but j's record, and leaves it idle,
\* receiving or staged.
LEMMA Aside ==
  ASSUME StoreInv, NEW j \in Jobs, NEW rec \in JobRecords,
         rec.pc \in {"idle", "guarded", "staged"}, rec.snap <= fresh, rec.old <= fresh,
         job[j].pc \notin {"flipped", "edited"},
         job' = [job EXCEPT ![j] = rec],
         UNCHANGED <<disk, lock, lease, sweeping, rows, history>>
  PROVE  /\ TypeOK' /\ LockHeld' /\ Numbered' /\ Reclaims' /\ IssuedLive' /\ SweepSpares'
         /\ TreesStay' /\ StartAssigned'
<1> USE DEF disk, rows, history
<1>1. job' \in [Jobs -> JobRecords] /\ job \in [Jobs -> JobRecords]
  BY DEF StoreInv, TypeOK
<1>2. job'[j] = rec /\ \A k \in Jobs : k # j => job'[k] = job[k]
  BY <1>1
<1>3. TypeOK'
  BY <1>1 DEF StoreInv, TypeOK
<1>4. LockHeld'
  BY <1>2 DEF StoreInv, LockHeld, Locked
<1>5. Numbered'
  BY <1>2 DEF StoreInv, Numbered
<1>6. Reclaims'
  BY <1>2 DEF StoreInv, Reclaims
<1>7. IssuedLive'
  <2>1. Settled' => Settled
    BY <1>2 DEF Settled
  <2> QED
    BY <2>1 DEF StoreInv, IssuedLive, Resolves
<1>8. SweepSpares' /\ TreesStay' /\ StartAssigned'
  BY DEF StoreInv, SweepSpares, TreesStay, StartAssigned, Leased
<1> QED
  BY <1>3, <1>4, <1>5, <1>6, <1>7, <1>8

\* What a step of j keeps if it takes the lock and begins its writing.
LEMMA Entered ==
  ASSUME StoreInv, NEW j \in Jobs, NEW rec \in JobRecords, lock = None, lock' = j,
         rec.pc \in {"fenced", "editing", "packed"}, rec.pc = "editing" => rec.kind = "edit",
         rec.snap <= fresh, rec.old <= fresh,
         job' = [job EXCEPT ![j] = rec],
         UNCHANGED <<disk, lease, sweeping, rows, history>>
  PROVE  /\ TypeOK' /\ LockHeld' /\ Numbered' /\ Reclaims' /\ IssuedLive' /\ SweepSpares'
         /\ TreesStay' /\ StartAssigned'
<1> USE DEF disk, rows, history
<1>1. job' \in [Jobs -> JobRecords] /\ job \in [Jobs -> JobRecords]
  BY DEF StoreInv, TypeOK
<1>2. job'[j] = rec /\ \A k \in Jobs : k # j => job'[k] = job[k]
  BY <1>1
<1>3. TypeOK'
  BY <1>1 DEF StoreInv, TypeOK
<1>4. LockHeld'
  BY <1>2, Unlocked DEF LockHeld
<1>5. Numbered'
  BY <1>2 DEF StoreInv, Numbered
<1>6. Reclaims'
  BY <1>2 DEF StoreInv, Reclaims
<1>7. IssuedLive'
  <2>1. Settled' => Settled
    BY <1>2, Unlocked DEF Settled, Locked
  <2> QED
    BY <2>1 DEF StoreInv, IssuedLive, Resolves
<1>8. SweepSpares' /\ TreesStay' /\ StartAssigned'
  BY DEF StoreInv, SweepSpares, TreesStay, StartAssigned, Leased
<1> QED
  BY <1>3, <1>4, <1>5, <1>6, <1>7, <1>8

\* The other uploads stay marked as they are by a step of j that moves no generation.
LEMMA OthersMarked ==
  ASSUME StoreInv, NEW j \in Jobs, UNCHANGED <<marker, started>>,
         \A k \in Jobs : k # j => job'[k] = job[k],
         j \in Uploads =>
           /\ job'[j].base <= marker.gen
           /\ job'[j].pc \in {"guarded", "staged"} => job'[j].kind = "snapshot"
           /\ job'[j].pc \in {"guarded", "staged"} /\ job'[j].stale => job'[j].base < marker.gen
           /\ job'[j].pc \in {"fenced", "moved"} =>
                job'[j].kind = "snapshot" /\ ~job'[j].stale /\ started \in {None, job'[j].pub}
  PROVE  UploadsMarked'
BY DEF StoreInv, UploadsMarked, Jobs

LEMMA UploadSteps ==
  ASSUME StoreInv, NEW u \in Uploads, UploadStep(u)
  PROVE  StoreInv'
<1>1. u \in Jobs /\ job \in [Jobs -> JobRecords] /\ job[u] \in JobRecords
  BY DEF Jobs, StoreInv, TypeOK
<1>2. /\ job[u].snap <= fresh /\ job[u].old <= fresh /\ fresh \in Nat /\ marker.gen \in 0..MaxGen
      /\ job[u].base <= marker.gen
  BY <1>1, StoreAssumption DEF StoreInv, Numbered, TypeOK, UploadsMarked
<1>i. Idle.snap <= fresh /\ Idle.old <= fresh /\ Idle.base <= marker.gen
  BY <1>2, IdleRecord, StoreAssumption
<1>3. ASSUME NEW w \in Workers, NEW base \in 0..MaxGen, Guard(u, w, base) PROVE StoreInv'
  <2> DEFINE rec == Begun("guarded", "snapshot", w, marker.gen)
  <2>1. job' = [job EXCEPT ![u] = rec] /\ job[u].pc = "idle"
    BY <1>3 DEF Guard
  <2>2. /\ rec \in JobRecords /\ rec.pc = "guarded" /\ rec.kind = "snapshot" /\ rec.base = marker.gen
        /\ ~rec.stale /\ rec.snap = 0 /\ rec.old = 0
    <3>1. "guarded" \in Stages /\ "snapshot" \in Kinds /\ w \in Publishers
      BY DEF Stages, Kinds, Publishers
    <3> QED
      BY <1>2, <3>1, BegunRecord
  <2> HIDE DEF rec
  <2>3. UploadsMarked'
    BY <1>1, <1>2, <1>3, <2>1, <2>2, OthersMarked DEF Guard, disk, rows
  <2> QED
    <3>1. UNCHANGED <<disk, lock, lease, sweeping, rows, history>>
      BY <1>3 DEF Guard
    <3>2. rec.snap <= fresh /\ rec.old <= fresh
      BY <1>2, <2>2
    <3> QED
      BY <1>1, <2>1, <2>2, <2>3, <3>1, <3>2, Aside DEF StoreInv
<1>4. ASSUME Staged(u) \/ UploadFails(u) PROVE StoreInv'
  <2>1. /\ job[u].pc \in {"guarded", "staged"}
        /\ UNCHANGED <<disk, lock, lease, sweeping, rows, history>>
    BY <1>4 DEF Staged, UploadFails
  <2>2. CASE Step(u, "guarded", "staged")
    <3> DEFINE rec == [job[u] EXCEPT !.pc = "staged"]
    <3>1. /\ rec \in JobRecords /\ rec.pc = "staged" /\ rec.kind = job[u].kind
          /\ rec.base = job[u].base /\ rec.stale = job[u].stale
          /\ rec.snap = job[u].snap /\ rec.old = job[u].old
      BY <1>1, StepRecord DEF Stages
    <3>2. job' = [job EXCEPT ![u] = rec]
      BY <2>2, <1>1 DEF Step
    <3> HIDE DEF rec
    <3>3. UploadsMarked'
      BY <1>1, <1>2, <2>1, <3>1, <3>2, OthersMarked DEF StoreInv, UploadsMarked, disk, rows
    <3> QED
      BY <1>1, <1>2, <2>1, <3>1, <3>2, <3>3, Aside DEF StoreInv
  <2>3. CASE Drop(u)
    <3>1. UploadsMarked'
      BY <1>1, <1>2, <1>i, <2>1, <2>3, OthersMarked, IdleRecord DEF Drop, disk, rows
    <3> QED
      BY <1>1, <1>2, <1>i, <2>1, <2>3, <3>1, Aside, IdleRecord DEF Drop, StoreInv
  <2> QED
    BY <1>4, <2>2, <2>3 DEF Staged, UploadFails
<1>5. ASSUME EnterCommit(u) PROVE StoreInv'
  <2>1. /\ job[u].pc = "staged" /\ job[u].kind = "snapshot" /\ lock = None
        /\ UNCHANGED <<disk, lease, sweeping, rows, history>>
    BY <1>5 DEF EnterCommit
  <2>2. CASE marker.gen = job[u].base /\ FencePasses(u) /\ lock' = u /\ Step(u, "staged", "fenced")
    <3> DEFINE rec == [job[u] EXCEPT !.pc = "fenced"]
    <3>1. /\ rec \in JobRecords /\ rec.pc = "fenced" /\ rec.kind = job[u].kind
          /\ rec.base = job[u].base /\ rec.stale = job[u].stale /\ rec.pub = job[u].pub
          /\ rec.snap = job[u].snap /\ rec.old = job[u].old
      BY <1>1, StepRecord DEF Stages
    <3>2. job' = [job EXCEPT ![u] = rec]
      BY <2>2, <1>1 DEF Step
    <3>3. ~job[u].stale
      BY <1>2, <2>1, <2>2 DEF StoreInv, UploadsMarked
    <3>4. started \in {None, job[u].pub}
      BY <2>2 DEF FencePasses, StoreInv, StartAssigned
    <3> HIDE DEF rec
    <3>5. UploadsMarked'
      BY <1>1, <1>2, <2>1, <3>1, <3>2, <3>3, <3>4, OthersMarked DEF disk, rows
    <3> QED
      BY <1>1, <1>2, <2>1, <2>2, <3>1, <3>2, <3>5, Entered DEF StoreInv
  <2>3. CASE lock' = lock /\ Drop(u)
    <3>1. UploadsMarked'
      BY <1>1, <1>2, <1>i, <2>1, <2>3, OthersMarked, IdleRecord DEF Drop, disk, rows
    <3> QED
      BY <1>1, <1>2, <1>i, <2>1, <2>3, <3>1, Aside, IdleRecord DEF Drop, StoreInv
  <2> QED
    BY <1>5, <2>2, <2>3 DEF EnterCommit
<1> QED
  BY <1>3, <1>4, <1>5 DEF UploadStep

-----------------------------------------------------------------------------
(* Steps under the lock *)

\* What every step under the lock starts from.
LEMMA Holding ==
  ASSUME StoreInv, NEW j \in Jobs, job[j].pc \in Locked
  PROVE  /\ job \in [Jobs -> JobRecords] /\ job[j] \in JobRecords
         /\ fresh \in 0..MaxWorld /\ marker.gen \in 0..MaxGen /\ marker.pub \in Publishers
         /\ marker \in [gen : 0..MaxGen, pub : Publishers]
         /\ current \in 0..MaxWorld /\ current <= fresh /\ tree \in [1..MaxWorld -> 0..MaxWorld]
         /\ lock = j /\ \A k \in Jobs : k # j => job[k].pc \notin Locked
         /\ \A k \in Jobs : job[k].snap <= fresh /\ job[k].old <= fresh
<1>1. /\ job \in [Jobs -> JobRecords] /\ fresh \in 0..MaxWorld
      /\ marker \in [gen : 0..MaxGen, pub : Publishers]
      /\ current \in 0..MaxWorld /\ tree \in [1..MaxWorld -> 0..MaxWorld]
  BY DEF StoreInv, TypeOK
<1>2. current <= fresh /\ \A k \in Jobs : job[k].snap <= fresh /\ job[k].old <= fresh
  BY DEF StoreInv, Numbered
<1>3. lock = j
  BY DEF StoreInv, LockHeld
<1>4. \A k \in Jobs : k # j => job[k].pc \notin Locked
  BY OneHolder
<1> QED
  BY <1>1, <1>2, <1>3, <1>4

LEMMA MoveStep ==
  ASSUME StoreInv, NEW j \in Jobs, Move(j)
  PROVE  StoreInv'
<1> USE DEF rows
<1>1. job[j].pc = "fenced" /\ job[j].pc \in Locked
  BY DEF Move, Locked
<1>h. /\ job \in [Jobs -> JobRecords] /\ job[j] \in JobRecords
      /\ fresh \in 0..MaxWorld /\ current <= fresh /\ current \in 0..MaxWorld
      /\ tree \in [1..MaxWorld -> 0..MaxWorld]
      /\ lock = j /\ \A k \in Jobs : k # j => job[k].pc \notin Locked
      /\ \A k \in Jobs : job[k].snap <= fresh /\ job[k].old <= fresh
  BY <1>1, Holding
<1> DEFINE rec == [job[j] EXCEPT !.pc = "moved", !.snap = fresh + 1]
<1>2. /\ fresh' = fresh + 1 /\ fresh < MaxWorld
      /\ tree' = [tree EXCEPT ![fresh + 1] = fresh + 1]
      /\ job' = [job EXCEPT ![j] = rec]
      /\ UNCHANGED <<current, marker, lock, lease, sweeping, assigned, started, issued, torn, raced>>
  BY <1>h DEF Move, CanWrite
<1>3. fresh + 1 \in 1..MaxWorld
  BY <1>h, <1>2, StoreAssumption
<1>4. /\ rec \in JobRecords /\ rec.pc = "moved" /\ rec.snap = fresh + 1 /\ rec.old = job[j].old
      /\ rec.kind = job[j].kind /\ rec.pub = job[j].pub /\ rec.base = job[j].base
      /\ rec.stale = job[j].stale
  <2>1. fresh + 1 \in 0..MaxWorld /\ "moved" \in Stages
    BY <1>3 DEF Stages
  <2>2. job[j] \in JobRecords
    BY <1>h
  <2> QED
    BY <2>1, <2>2 DEF JobRecords
<1> HIDE DEF rec
<1>5. job'[j] = rec /\ \A k \in Jobs : k # j => job'[k] = job[k]
  BY <1>h, <1>2
<1>6. tree'[fresh + 1] = fresh + 1 /\ \A s \in 1..MaxWorld : s <= fresh => tree'[s] = tree[s]
  BY <1>h, <1>2, <1>3
<1>7. TypeOK'
  BY <1>h, <1>2, <1>3, <1>4 DEF StoreInv, TypeOK
<1>8. LockHeld'
  BY <1>1, <1>2, <1>5 DEF StoreInv, LockHeld
<1>9. Numbered'
  <2> SUFFICES ASSUME NEW k \in Jobs
               PROVE  /\ job'[k].snap <= fresh + 1 /\ job'[k].old <= fresh + 1
                      /\ job'[k].pc \in {"moved", "flipped"} =>
                           job'[k].snap # 0 /\ tree'[job'[k].snap] \in {0, job'[k].snap}
                      /\ job'[k].pc = "moved" => job'[k].snap # current
                      /\ job'[k].pc = "flipped" => job'[k].snap = current /\ job'[k].old # current
                      /\ job'[k].pc \in {"unlinked", "emptied"} => current = 0
                      /\ job'[k].pc \in {"editing", "edited"} => job'[k].kind = "edit"
    BY <1>2, <1>h DEF Numbered
  <2>1. CASE k = j
    <3>1. job'[k].snap = fresh + 1 /\ job'[k].old <= fresh /\ job'[k].pc = "moved"
      BY <1>h, <1>4, <1>5, <2>1
    <3>2. job[j].old \in Nat /\ fresh \in Nat /\ current \in Nat
      BY <1>h, JobFields
    <3>3. job'[k].old = job[j].old
      BY <1>4, <1>5, <2>1
    <3> QED
      BY <1>h, <1>6, <3>1, <3>2, <3>3
  <2>2. CASE k # j
    <3>1. /\ job'[k] = job[k] /\ job[k].pc \notin Locked /\ job[k] \in JobRecords
          /\ job[k].snap <= fresh /\ job[k].old <= fresh
      BY <1>h, <1>5, <2>2
    <3>2. job[k].snap \in Nat /\ job[k].old \in Nat
      BY <3>1, JobFields
    <3> QED
      BY <1>h, <3>1, <3>2 DEF Locked
  <2> QED
    BY <2>1, <2>2
<1>10. Reclaims'
  <2> SUFFICES ASSUME NEW i \in Jobs, job'[i].pc = "reclaim"
               PROVE  /\ job'[i].old # 0 /\ job'[i].old # current'
                      /\ \A r \in Readers : lease'[r] # job'[i].old
                      /\ \A k \in Jobs : job'[k].pc = "moved" => job'[k].snap # job'[i].old
    BY DEF Reclaims
  <2>1. job'[i] = job[i] /\ job[i].pc = "reclaim" /\ job[i].old <= fresh /\ job[i].old \in Nat
    BY <1>4, <1>5, <1>h, JobFields
  <2>2. /\ job[i].old # 0 /\ job[i].old # current
        /\ \A r \in Readers : lease[r] # job[i].old
        /\ \A k \in Jobs : job[k].pc = "moved" => job[k].snap # job[i].old
    BY <2>1 DEF StoreInv, Reclaims
  <2>3. job[i].old # fresh + 1
    BY <2>1, <1>h
  <2> QED
    BY <1>2, <1>4, <1>5, <2>1, <2>2, <2>3
<1>11. IssuedLive'
  <2>1. Settled' => Settled
    BY <1>1, <1>2, <1>5 DEF Settled
  <2>2. Resolves' => Resolves /\ tree'[current] = tree[current]
    BY <1>2, <1>6, <1>h DEF Resolves
  <2> QED
    BY <1>2, <2>1, <2>2 DEF StoreInv, IssuedLive
<1>12. SweepSpares'
  BY <1>2 DEF StoreInv, SweepSpares, Leased
<1>13. TreesStay'
  <2>1. \A s \in 1..MaxWorld : tree[s] # 0 => tree'[s] # 0
    BY <1>h, <1>2, <1>3
  <2>2. lease \in [Readers -> 0..MaxWorld]
    BY DEF StoreInv, TypeOK
  <2> QED
    BY <1>h, <1>2, <2>1, <2>2 DEF StoreInv, TreesStay
<1>14. UploadsMarked'
  BY <1>1, <1>2, <1>4, <1>5, OthersMarked DEF StoreInv, UploadsMarked
<1>15. StartAssigned'
  BY <1>2 DEF StoreInv, StartAssigned
<1> QED
  BY <1>7, <1>8, <1>9, <1>10, <1>11, <1>12, <1>13, <1>14, <1>15 DEF StoreInv

LEMMA FlipStep ==
  ASSUME StoreInv, NEW j \in Jobs, Flip(j)
  PROVE  StoreInv'
<1> USE DEF rows
<1>1. job[j].pc = "moved" /\ job[j].pc \in Locked
  BY DEF Flip, Locked
<1>h. /\ job \in [Jobs -> JobRecords] /\ job[j] \in JobRecords
      /\ fresh \in 0..MaxWorld /\ current <= fresh /\ current \in 0..MaxWorld
      /\ tree \in [1..MaxWorld -> 0..MaxWorld]
      /\ lock = j /\ \A k \in Jobs : k # j => job[k].pc \notin Locked
      /\ \A k \in Jobs : job[k].snap <= fresh /\ job[k].old <= fresh
  BY <1>1, Holding
<1> DEFINE rec == [job[j] EXCEPT !.pc = "flipped", !.old = current]
<1>2. /\ current' = job[j].snap /\ job' = [job EXCEPT ![j] = rec]
      /\ raced' = (raced \/ sweeping = current' \/ tree[current'] = 0)
      /\ UNCHANGED <<tree, marker, lock, lease, sweeping, assigned, started, fresh, issued, torn>>
  BY <1>h DEF Flip
<1>3. job[j].snap # 0 /\ tree[job[j].snap] \in {0, job[j].snap} /\ job[j].snap # current
      /\ job[j].snap \in 0..MaxWorld
  BY <1>1, <1>h, JobFields DEF StoreInv, Numbered
<1>4. /\ rec \in JobRecords /\ rec.pc = "flipped" /\ rec.snap = job[j].snap /\ rec.old = current
      /\ rec.kind = job[j].kind /\ rec.pub = job[j].pub /\ rec.base = job[j].base
      /\ rec.stale = job[j].stale
  <2>1. "flipped" \in Stages /\ current \in 0..MaxWorld
    BY <1>h DEF Stages
  <2>2. job[j] \in JobRecords
    BY <1>h
  <2> QED
    BY <2>1, <2>2 DEF JobRecords
<1> HIDE DEF rec
<1>5. job'[j] = rec /\ \A k \in Jobs : k # j => job'[k] = job[k]
  BY <1>h, <1>2
<1>7. TypeOK'
  <2>1. raced' \in BOOLEAN
    BY <1>2
  <2> QED
    BY <1>h, <1>2, <1>3, <1>4, <2>1 DEF StoreInv, TypeOK
<1>8. LockHeld'
  BY <1>1, <1>2, <1>5 DEF StoreInv, LockHeld
<1>9. Numbered'
  BY <1>h, <1>2, <1>3, <1>4, <1>5 DEF Numbered, Locked
<1>10. Reclaims'
  <2> SUFFICES ASSUME NEW i \in Jobs, job'[i].pc = "reclaim"
               PROVE  /\ job'[i].old # 0 /\ job'[i].old # current'
                      /\ \A r \in Readers : lease'[r] # job'[i].old
                      /\ \A k \in Jobs : job'[k].pc = "moved" => job'[k].snap # job'[i].old
    BY DEF Reclaims
  <2>1. job'[i] = job[i] /\ job[i].pc = "reclaim"
    BY <1>4, <1>5
  <2>2. /\ job[i].old # 0 /\ job[i].old # job[j].snap
        /\ \A r \in Readers : lease[r] # job[i].old
        /\ \A k \in Jobs : job[k].pc = "moved" => job[k].snap # job[i].old
    BY <1>1, <2>1 DEF StoreInv, Reclaims
  <2> QED
    BY <1>2, <1>4, <1>5, <2>1, <2>2
<1>11. IssuedLive'
  <2>1. ~Settled'
    BY <1>4, <1>5 DEF Settled
  <2> QED
    BY <1>2, <2>1 DEF StoreInv, IssuedLive
<1>12. SweepSpares'
  BY <1>2 DEF StoreInv, SweepSpares, Leased
<1>13. TreesStay'
  BY <1>2 DEF StoreInv, TreesStay
<1>14. UploadsMarked'
  BY <1>1, <1>2, <1>4, <1>5, OthersMarked DEF StoreInv, UploadsMarked
<1>15. StartAssigned'
  BY <1>2 DEF StoreInv, StartAssigned
<1> QED
  BY <1>7, <1>8, <1>9, <1>10, <1>11, <1>12, <1>13, <1>14, <1>15 DEF StoreInv


\* The jobs after j's bump: the others' records lose at most their freshness.
LEMMA BumpedJobs ==
  ASSUME StoreInv, NEW j \in Jobs, NEW rec \in JobRecords,
         job' = Outdated([job EXCEPT ![j] = rec])
  PROVE  /\ job' \in [Jobs -> JobRecords]
         /\ job'[j].pc = rec.pc /\ job'[j].kind = rec.kind /\ job'[j].base = rec.base
         /\ job'[j].snap = rec.snap /\ job'[j].old = rec.old
         /\ \A k \in Jobs : k # j =>
              /\ job'[k].pc = job[k].pc /\ job'[k].kind = job[k].kind
              /\ job'[k].base = job[k].base
              /\ job'[k].snap = job[k].snap /\ job'[k].old = job[k].old
<1> DEFINE jobs == [job EXCEPT ![j] = rec]
<1>1. jobs \in [Jobs -> JobRecords] /\ jobs[j] = rec /\ \A k \in Jobs : k # j => jobs[k] = job[k]
  BY DEF StoreInv, TypeOK
<1>2. job' = Outdated(jobs)
  OBVIOUS
<1> HIDE DEF jobs
<1>3. /\ Outdated(jobs) \in [Jobs -> JobRecords]
      /\ \A k \in Jobs :
           /\ Outdated(jobs)[k].pc = jobs[k].pc /\ Outdated(jobs)[k].kind = jobs[k].kind
           /\ Outdated(jobs)[k].base = jobs[k].base
           /\ Outdated(jobs)[k].snap = jobs[k].snap /\ Outdated(jobs)[k].old = jobs[k].old
  BY <1>1, OutdatedJobs
<1>4. /\ job' \in [Jobs -> JobRecords]
      /\ \A k \in Jobs :
           /\ job'[k].pc = jobs[k].pc /\ job'[k].kind = jobs[k].kind
           /\ job'[k].base = jobs[k].base
           /\ job'[k].snap = jobs[k].snap /\ job'[k].old = jobs[k].old
  BY <1>2, <1>3
<1> QED
  BY <1>1, <1>4

\* The bump of j's write: the generation is new, so nobody was given it but the Worker
\* that is answered with it, and that one was given the live world.
LEMMA Bumped ==
  ASSUME StoreInv, NEW j \in Jobs, job[j].pc \in Locked, NEW rec \in JobRecords,
         job' = Outdated([job EXCEPT ![j] = rec]),
         rec.pc \in {"idle", "reclaim", "bumped"}, rec.snap <= fresh, rec.old <= fresh,
         j \in Uploads => rec.base <= marker.gen,
         rec.pc = "reclaim" =>
           rec.old # 0 /\ rec.old # current /\ \A r \in Readers : lease[r] # rec.old,
         lock' \in {None, j}, rec.pc = "bumped" => lock' = j,
         CanBump, NEW pub \in Publishers, marker' = [gen |-> marker.gen + 1, pub |-> pub],
         torn' = FALSE, UNCHANGED <<tree, current, lease, sweeping, rows, fresh, raced>>,
         issued' \subseteq [gen : 0..MaxGen, world : 1..MaxWorld],
         \A i \in issued' : i \in issued \/ /\ i.gen = marker.gen + 1 /\ i.world = current
                                            /\ tree[current] \in {0, current}
  PROVE  StoreInv'
<1> USE DEF rows
<1>h. /\ job \in [Jobs -> JobRecords] /\ job[j] \in JobRecords
      /\ fresh \in 0..MaxWorld /\ marker.gen \in 0..MaxGen /\ current <= fresh
      /\ lock = j /\ \A k \in Jobs : k # j => job[k].pc \notin Locked
      /\ \A k \in Jobs : job[k].snap <= fresh /\ job[k].old <= fresh
  BY Holding
<1>1. marker'.gen = marker.gen + 1 /\ marker.gen + 1 \in 0..MaxGen
  BY <1>h, StoreAssumption DEF CanBump
<1>2. /\ job' \in [Jobs -> JobRecords] /\ job'[j].pc = rec.pc /\ job'[j].kind = rec.kind
      /\ job'[j].base = rec.base /\ job'[j].snap = rec.snap /\ job'[j].old = rec.old
      /\ \A k \in Jobs : k # j =>
           /\ job'[k].pc = job[k].pc /\ job'[k].kind = job[k].kind /\ job'[k].base = job[k].base
           /\ job'[k].snap = job[k].snap /\ job'[k].old = job[k].old
  BY BumpedJobs
<1>3. \A k \in Jobs : k # j => job'[k].pc \notin Locked
  BY <1>h, <1>2
<1>4. TypeOK'
  <2>1. marker' \in [gen : 0..MaxGen, pub : Publishers]
    BY <1>1
  <2>2. lock' \in Jobs \cup {None}
    OBVIOUS
  <2>3. torn' \in BOOLEAN
    OBVIOUS
  <2>4. /\ tree' \in [1..MaxWorld -> 0..MaxWorld] /\ current' \in 0..MaxWorld
        /\ lease' \in [Readers -> 0..MaxWorld] /\ sweeping' \in 0..MaxWorld
        /\ assigned' \in Workers \cup {None} /\ started' \in Workers \cup {None}
        /\ fresh' \in 0..MaxWorld
    BY DEF StoreInv, TypeOK
  <2>5. raced' \in BOOLEAN
    BY DEF StoreInv, TypeOK
  <2> QED
    BY <1>2, <2>1, <2>2, <2>3, <2>4, <2>5 DEF TypeOK
<1>5. LockHeld'
  BY <1>2, <1>3 DEF LockHeld, Locked
<1>6. Numbered'
  <2> SUFFICES ASSUME NEW k \in Jobs
               PROVE  /\ job'[k].snap <= fresh /\ job'[k].old <= fresh
                      /\ job'[k].pc \notin {"moved", "flipped", "unlinked", "emptied",
                                            "editing", "edited"}
    BY <1>h DEF Numbered
  <2> QED
    BY <1>h, <1>2, <1>3 DEF Locked
<1>7. Reclaims'
  <2> SUFFICES ASSUME NEW i \in Jobs, job'[i].pc = "reclaim"
               PROVE  /\ job'[i].old # 0 /\ job'[i].old # current
                      /\ \A r \in Readers : lease[r] # job'[i].old
                      /\ \A k \in Jobs : job'[k].pc # "moved"
    BY DEF Reclaims
  <2>1. \A k \in Jobs : job'[k].pc # "moved"
    BY <1>2, <1>3 DEF Locked
  <2>2. CASE i = j
    BY <1>2, <2>1, <2>2
  <2>3. CASE i # j
    BY <1>2, <2>1, <2>3 DEF StoreInv, Reclaims
  <2> QED
    BY <2>2, <2>3
<1>8. IssuedLive'
  <2>1. \A i \in issued : i.gen <= marker.gen /\ i.gen \in Nat
    BY StoreAssumption DEF StoreInv, IssuedLive, TypeOK
  <2>2. \A i \in issued' : i.gen <= marker.gen + 1
    BY <1>h, <2>1
  <2>3. ASSUME Resolves', NEW i \in issued', i.gen = marker.gen + 1 PROVE i.world = tree[current]
    <3>1. i \notin issued
      BY <1>h, <2>1, <2>3
    <3>2. tree[current] # 0
      BY <2>3 DEF Resolves
    <3> QED
      BY <3>1, <3>2
  <2> QED
    BY <1>1, <2>2, <2>3 DEF IssuedLive
<1>9. SweepSpares' /\ TreesStay' /\ StartAssigned'
  BY DEF StoreInv, SweepSpares, TreesStay, StartAssigned, Leased
<1>10. UploadsMarked'
  <2>1. \A u \in Uploads : u \in Jobs
    BY DEF Jobs
  <2> SUFFICES ASSUME NEW u \in Uploads
               PROVE  /\ job'[u].base <= marker.gen + 1
                      /\ job'[u].pc \in {"guarded", "staged"} => job'[u].kind = "snapshot"
                      /\ job'[u].pc \in {"guarded", "staged"} => job'[u].base < marker.gen + 1
                      /\ job'[u].pc \notin {"fenced", "moved"}
    BY <1>1 DEF UploadsMarked
  <2>2. job'[u].base <= marker.gen /\ job'[u].base \in Nat
    <3>1. job'[u] \in JobRecords
      BY <1>2, <2>1
    <3>2. job'[u].base <= marker.gen
      BY <1>2, <2>1 DEF StoreInv, UploadsMarked
    <3> QED
      BY <3>1, <3>2, JobFields
  <2>3. job'[u].pc \in {"guarded", "staged"} => job'[u].kind = "snapshot"
    BY <1>2, <2>1 DEF StoreInv, UploadsMarked
  <2>4. job'[u].pc \notin {"fenced", "moved"}
    BY <1>2, <1>3, <2>1 DEF Locked
  <2> QED
    BY <1>h, <2>2, <2>3, <2>4
<1> QED
  BY <1>4, <1>5, <1>6, <1>7, <1>8, <1>9, <1>10 DEF StoreInv

LEMMA StampStep ==
  ASSUME StoreInv, NEW j \in Jobs, Stamp(j)
  PROVE  StoreInv'
<1>1. job[j].pc \in {"flipped", "edited"} /\ job[j].pc \in Locked
  BY DEF Stamp, Locked
<1>h. /\ job \in [Jobs -> JobRecords] /\ job[j] \in JobRecords
      /\ fresh \in 0..MaxWorld /\ marker.gen \in 0..MaxGen
      /\ \A k \in Jobs : job[k].snap <= fresh /\ job[k].old <= fresh
  BY <1>1, Holding
<1>2. PICK rec \in {[job[j] EXCEPT !.pc = "reclaim"], Idle} :
        /\ job' = Outdated([job EXCEPT ![j] = rec])
        /\ Superseded(j) \/ rec = Idle
  <2>1. CASE Superseded(j)
    <3>1. job' = Outdated([job EXCEPT ![j].pc = "reclaim"])
      BY <2>1 DEF Stamp
    <3>2. [job EXCEPT ![j].pc = "reclaim"] = [job EXCEPT ![j] = [job[j] EXCEPT !.pc = "reclaim"]]
      BY <1>h
    <3> QED
      BY <2>1, <3>1, <3>2
  <2>2. CASE ~Superseded(j)
    <3>1. job' = Outdated([job EXCEPT ![j] = Idle])
      BY <2>2 DEF Stamp
    <3> QED
      BY <3>1
  <2> QED
    BY <2>1, <2>2
<1>3. /\ rec \in JobRecords /\ rec.pc \in {"idle", "reclaim"} /\ rec.base \in {0, job[j].base}
      /\ rec.snap \in {0, job[j].snap} /\ rec.old \in {0, job[j].old}
      /\ rec.pc = "reclaim" => Superseded(j) /\ rec.old = job[j].old
  <2>1. "reclaim" \in Stages
    BY DEF Stages
  <2>2. CASE rec = Idle
    BY <2>2, IdleRecord
  <2>3. CASE rec = [job[j] EXCEPT !.pc = "reclaim"] /\ rec # Idle
    BY <1>h, <1>2, <2>1, <2>3, StepRecord
  <2> QED
    BY <1>2, <2>2, <2>3
<1>4. rec.snap <= fresh /\ rec.old <= fresh
  BY <1>h, <1>3, StoreAssumption
<1>5. j \in Uploads => rec.base <= marker.gen
  BY <1>h, <1>3 DEF StoreInv, UploadsMarked
<1>6. rec.pc = "reclaim" =>
        rec.old # 0 /\ rec.old # current /\ \A r \in Readers : lease[r] # rec.old
  <2>1. Superseded(j) => job[j].pc = "flipped"
    BY <1>1, <1>h DEF Superseded, StoreInv, Numbered
  <2>2. job[j].pc = "flipped" => job[j].old # current
    BY DEF StoreInv, Numbered
  <2> QED
    BY <1>3, <2>1, <2>2 DEF Superseded, Leased
<1>7. /\ issued' \subseteq [gen : 0..MaxGen, world : 1..MaxWorld]
      /\ \A i \in issued' : i \in issued \/ /\ i.gen = marker.gen + 1 /\ i.world = current
                                            /\ tree[current] \in {0, current}
  <2>1. issued \subseteq [gen : 0..MaxGen, world : 1..MaxWorld]
    BY DEF StoreInv, TypeOK
  <2>2. CASE job[j].kind = "snapshot"
    <3>1. job[j].pc = "flipped"
      BY <1>1, <2>2 DEF StoreInv, Numbered
    <3>2. job[j].snap # 0 /\ job[j].snap = current /\ tree[current] \in {0, current}
      BY <3>1 DEF StoreInv, Numbered
    <3>3. job[j].snap \in 1..MaxWorld
      BY <1>h, <3>2, JobFields, StoreAssumption
    <3>4. marker.gen + 1 \in 0..MaxGen
      BY <1>h, StoreAssumption DEF Stamp, CanBump
    <3>5. issued' = issued \cup {[gen |-> marker.gen + 1, world |-> job[j].snap]}
      BY <2>2 DEF Stamp, Answer
    <3> QED
      BY <2>1, <3>2, <3>3, <3>4, <3>5
  <2>3. CASE job[j].kind # "snapshot"
    <3>1. issued' = issued
      BY <2>3 DEF Stamp, Answer
    <3> QED
      BY <2>1, <3>1
  <2> QED
    BY <2>2, <2>3
<1>8. job[j].pub \in Publishers
  BY <1>h, JobFields
<1>9. /\ lock' = None /\ CanBump /\ marker' = [gen |-> marker.gen + 1, pub |-> job[j].pub]
      /\ torn' = FALSE /\ UNCHANGED <<tree, current, lease, sweeping, rows, fresh, raced>>
  BY DEF Stamp, WriteMarker
<1> QED
  BY <1>1, <1>2, <1>3, <1>4, <1>5, <1>6, <1>7, <1>8, <1>9, Bumped

\* The trees left by a removal.
LEMMA WithoutTrees ==
  ASSUME StoreInv, NEW S
  PROVE  /\ Without(S) \in [1..MaxWorld -> 0..MaxWorld]
         /\ \A s \in 1..MaxWorld : /\ Without(S)[s] \in {0, tree[s]}
                                   /\ s \notin S => Without(S)[s] = tree[s]
BY StoreAssumption DEF StoreInv, TypeOK, Without

\* What a step keeps that removes trees nobody uses, releases leases and drops jobs.
LEMMA Lessened ==
  ASSUME StoreInv, tree' \in [1..MaxWorld -> 0..MaxWorld],
         \A s \in 1..MaxWorld : tree'[s] \in {0, tree[s]},
         raced \/ /\ current # 0 => tree'[current] = tree[current]
                  /\ \A r \in Readers : lease'[r] # 0 => tree'[lease'[r]] = tree[lease'[r]],
         lease' \in [Readers -> 0..MaxWorld], \A r \in Readers : lease'[r] \in {0, lease[r]},
         sweeping' \in {0, sweeping}, job' \in [Jobs -> JobRecords],
         \A k \in Jobs : job'[k] = Idle \/ job'[k] = job[k],
         lock' \in Jobs \cup {None}, LockHeld', torn' \in BOOLEAN, Settled' => Settled,
         UNCHANGED <<current, marker, rows, fresh, issued, raced>>
  PROVE  StoreInv'
<1> USE DEF rows
<1>h. /\ fresh \in Nat /\ current \in 0..MaxWorld /\ marker.gen \in Nat
      /\ lease \in [Readers -> 0..MaxWorld]
  BY StoreAssumption DEF StoreInv, TypeOK
<1>1. TypeOK'
  <2>1. /\ current' \in 0..MaxWorld /\ marker' \in [gen : 0..MaxGen, pub : Publishers]
        /\ sweeping' \in 0..MaxWorld
    BY <1>h, StoreAssumption DEF StoreInv, TypeOK
  <2>2. /\ assigned' \in Workers \cup {None} /\ started' \in Workers \cup {None}
        /\ fresh' \in 0..MaxWorld /\ issued' \subseteq [gen : 0..MaxGen, world : 1..MaxWorld]
    BY DEF StoreInv, TypeOK
  <2>3. raced' \in BOOLEAN
    BY DEF StoreInv, TypeOK
  <2> QED
    BY <2>1, <2>2, <2>3 DEF TypeOK
<1>2. Numbered'
  <2> SUFFICES ASSUME NEW k \in Jobs
               PROVE  /\ job'[k].snap <= fresh /\ job'[k].old <= fresh
                      /\ job'[k].pc \in {"moved", "flipped"} =>
                           job'[k].snap # 0 /\ tree'[job'[k].snap] \in {0, job'[k].snap}
                      /\ job'[k].pc = "moved" => job'[k].snap # current
                      /\ job'[k].pc = "flipped" => job'[k].snap = current /\ job'[k].old # current
                      /\ job'[k].pc \in {"unlinked", "emptied"} => current = 0
                      /\ job'[k].pc \in {"editing", "edited"} => job'[k].kind = "edit"
    BY DEF StoreInv, Numbered
  <2>1. CASE job'[k] = Idle
    BY <1>h, <2>1, IdleRecord
  <2>2. CASE job'[k] = job[k]
    <3>1. job[k].pc \in {"moved", "flipped"} => job[k].snap \in 1..MaxWorld
      BY <2>2, JobFields, StoreAssumption DEF StoreInv, Numbered
    <3>2. job[k].pc \in {"moved", "flipped"} =>
            job[k].snap # 0 /\ tree[job[k].snap] \in {0, job[k].snap}
      BY DEF StoreInv, Numbered
    <3>3. job[k].pc \in {"moved", "flipped"} =>
            job[k].snap # 0 /\ tree'[job[k].snap] \in {0, job[k].snap}
      BY <3>1, <3>2
    <3> QED
      BY <2>2, <3>3 DEF StoreInv, Numbered
  <2> QED
    BY <2>1, <2>2
<1>3. Reclaims'
  <2> SUFFICES ASSUME NEW i \in Jobs, job'[i].pc = "reclaim"
               PROVE  /\ job'[i].old # 0 /\ job'[i].old # current
                      /\ \A r \in Readers : lease'[r] # job'[i].old
                      /\ \A k \in Jobs : job'[k].pc = "moved" => job'[k].snap # job'[i].old
    BY DEF Reclaims
  <2>1. job'[i] = job[i]
    BY IdleRecord
  <2>2. /\ job[i].old # 0 /\ job[i].old # current
        /\ \A r \in Readers : lease[r] # job[i].old
        /\ \A k \in Jobs : job[k].pc = "moved" => job[k].snap # job[i].old
    BY <2>1 DEF StoreInv, Reclaims
  <2>3. \A k \in Jobs : job'[k].pc = "moved" => job'[k] = job[k]
    BY IdleRecord
  <2> QED
    BY <2>1, <2>2, <2>3
<1>4. IssuedLive'
  <2>1. Resolves' => Resolves /\ tree'[current] = tree[current]
    BY <1>h DEF Resolves
  <2> QED
    BY <2>1 DEF StoreInv, IssuedLive
<1>5. SweepSpares'
  <2> SUFFICES ASSUME ~raced, sweeping' # 0
               PROVE  sweeping' # current /\ \A r \in Readers : lease'[r] # sweeping'
    BY DEF SweepSpares, Leased
  <2>1. sweeping' = sweeping /\ sweeping # current /\ \A r \in Readers : lease[r] # sweeping
    BY DEF StoreInv, SweepSpares, Leased
  <2> QED
    BY <2>1
<1>6. TreesStay'
  <2> SUFFICES ASSUME ~raced
               PROVE  /\ current # 0 => tree'[current] # 0
                      /\ \A r \in Readers : lease'[r] # 0 => tree'[lease'[r]] # 0
    BY DEF TreesStay
  <2>1. /\ current # 0 => tree[current] # 0
        /\ \A r \in Readers : lease[r] # 0 => tree[lease[r]] # 0
    BY DEF StoreInv, TreesStay
  <2> QED
    BY <2>1
<1>7. UploadsMarked'
  <2> SUFFICES ASSUME NEW u \in Uploads
               PROVE  /\ job'[u].base <= marker.gen
                      /\ job'[u].pc \in {"guarded", "staged"} => job'[u].kind = "snapshot"
                      /\ job'[u].pc \in {"guarded", "staged"} /\ job'[u].stale =>
                           job'[u].base < marker.gen
                      /\ job'[u].pc \in {"fenced", "moved"} =>
                           /\ job'[u].kind = "snapshot" /\ ~job'[u].stale
                           /\ started \in {None, job'[u].pub}
    BY DEF StoreInv, UploadsMarked
  <2>1. u \in Jobs
    BY DEF Jobs
  <2>2. CASE job'[u] = Idle
    BY <1>h, <2>2, IdleRecord
  <2>3. CASE job'[u] = job[u]
    BY <2>3 DEF StoreInv, UploadsMarked
  <2> QED
    BY <2>1, <2>2, <2>3
<1>8. StartAssigned'
  BY DEF StoreInv, StartAssigned
<1> QED
  BY <1>1, <1>2, <1>3, <1>4, <1>5, <1>6, <1>7, <1>8 DEF StoreInv

\* The jobs after j's record is dropped.
LEMMA Dropped ==
  ASSUME StoreInv, NEW j \in Jobs, Drop(j), job[j].pc \notin {"flipped", "edited"},
         UNCHANGED <<lock, torn>>
  PROVE  /\ job' \in [Jobs -> JobRecords] /\ \A k \in Jobs : job'[k] = Idle \/ job'[k] = job[k]
         /\ LockHeld' /\ (Settled' => Settled)
<1>1. job' = [job EXCEPT ![j] = Idle] /\ job \in [Jobs -> JobRecords]
  BY DEF Drop, StoreInv, TypeOK
<1>2. /\ job' \in [Jobs -> JobRecords] /\ job'[j] = Idle
      /\ \A k \in Jobs : k # j => job'[k] = job[k]
  BY <1>1, IdleRecord
<1>3. LockHeld'
  BY <1>2, IdleRecord DEF StoreInv, LockHeld, Locked
<1>4. Settled' => Settled
  BY <1>2 DEF Settled
<1> QED
  BY <1>2, <1>3, <1>4

LEMMA ReclaimStep ==
  ASSUME StoreInv, NEW j \in Jobs, Reclaim(j)
  PROVE  StoreInv'
<1> DEFINE S == {job[j].old}
<1>1. /\ job[j].pc = "reclaim" /\ tree' \in {tree, Without(S)} /\ Drop(j)
      /\ UNCHANGED <<current, marker, lock, lease, sweeping, rows, fresh, issued, torn, raced>>
  BY DEF Reclaim, history
<1>2. /\ job' \in [Jobs -> JobRecords] /\ \A k \in Jobs : job'[k] = Idle \/ job'[k] = job[k]
      /\ LockHeld' /\ (Settled' => Settled)
  BY <1>1, Dropped
<1>3. /\ current \in 0..MaxWorld /\ lease \in [Readers -> 0..MaxWorld]
      /\ tree \in [1..MaxWorld -> 0..MaxWorld] /\ lock \in Jobs \cup {None}
  BY DEF StoreInv, TypeOK
<1>t. torn \in BOOLEAN
  BY DEF StoreInv, TypeOK
<1>4. current \notin S /\ \A r \in Readers : lease[r] \notin S
  BY <1>1 DEF StoreInv, Reclaims
<1> HIDE DEF S
<1>5. /\ tree' \in [1..MaxWorld -> 0..MaxWorld]
      /\ \A s \in 1..MaxWorld : tree'[s] \in {0, tree[s]} /\ (s \notin S => tree'[s] = tree[s])
  BY <1>1, <1>3, WithoutTrees
<1>6. /\ current # 0 => tree'[current] = tree[current]
      /\ \A r \in Readers : lease'[r] # 0 => tree'[lease'[r]] = tree[lease'[r]]
  BY <1>1, <1>3, <1>4, <1>5
<1> QED
  <2>1. /\ UNCHANGED <<current, marker, rows, fresh, issued, raced>>
        /\ sweeping' \in {0, sweeping} /\ lock' \in Jobs \cup {None}
    BY <1>1, <1>3
  <2>2. /\ lease' \in [Readers -> 0..MaxWorld] /\ \A r \in Readers : lease'[r] \in {0, lease[r]}
    BY <1>1, <1>3
  <2>3. torn' \in BOOLEAN
    BY <1>1, <1>t
  <2>4. \A s \in 1..MaxWorld : tree'[s] \in {0, tree[s]}
    BY <1>5
  <2> QED
    BY <1>2, <1>5, <1>6, <2>1, <2>2, <2>3, <2>4, Lessened


-----------------------------------------------------------------------------
(* The API's own writers *)

LEMMA EditStep ==
  ASSUME StoreInv, NEW p \in Writers, EditInPlace(p)
  PROVE  StoreInv'
<1> USE DEF rows
<1>1. p \in Jobs /\ job[p].pc = "editing" /\ job[p].pc \in Locked
  BY DEF EditInPlace, Step, Locked, Jobs
<1>h. /\ job \in [Jobs -> JobRecords] /\ job[p] \in JobRecords
      /\ fresh \in 0..MaxWorld /\ current <= fresh /\ current \in 0..MaxWorld
      /\ tree \in [1..MaxWorld -> 0..MaxWorld]
      /\ lock = p /\ \A k \in Jobs : k # p => job[k].pc \notin Locked
      /\ \A k \in Jobs : job[k].snap <= fresh /\ job[k].old <= fresh
  BY <1>1, Holding
<1> DEFINE rec == [job[p] EXCEPT !.pc = "edited"]
<1>2. /\ fresh' = fresh + 1 /\ fresh < MaxWorld
      /\ tree' = [tree EXCEPT ![current] = fresh + 1] /\ job' = [job EXCEPT ![p] = rec]
      /\ UNCHANGED <<current, marker, lock, lease, sweeping, assigned, started, issued, torn, raced>>
  BY <1>h DEF EditInPlace, Step, CanWrite
<1>3. fresh + 1 \in 1..MaxWorld
  BY <1>h, <1>2, StoreAssumption
<1>4. /\ rec \in JobRecords /\ rec.pc = "edited" /\ rec.snap = job[p].snap /\ rec.old = job[p].old
      /\ rec.kind = job[p].kind /\ rec.base = job[p].base
  <2>1. "edited" \in Stages
    BY DEF Stages
  <2> QED
    BY <1>h, <2>1, StepRecord
<1> HIDE DEF rec
<1>5. job'[p] = rec /\ \A k \in Jobs : k # p => job'[k] = job[k]
  BY <1>1, <1>h, <1>2
<1>6. TypeOK'
  <2>w. fresh + 1 \in 0..MaxWorld
    BY <1>3
  <2>1. tree' \in [1..MaxWorld -> 0..MaxWorld] /\ fresh' \in 0..MaxWorld
    BY <1>h, <1>2, <2>w
  <2>2. job' \in [Jobs -> JobRecords]
    BY <1>1, <1>h, <1>2, <1>4
  <2> QED
    BY <1>2, <2>1, <2>2 DEF StoreInv, TypeOK
<1>7. LockHeld'
  BY <1>1, <1>2, <1>5 DEF StoreInv, LockHeld
<1>8. Numbered'
  <2> SUFFICES ASSUME NEW k \in Jobs
               PROVE  /\ job'[k].snap <= fresh + 1 /\ job'[k].old <= fresh + 1
                      /\ job'[k].pc \notin {"moved", "flipped", "unlinked", "emptied"}
                      /\ job'[k].pc \in {"editing", "edited"} => job'[k].kind = "edit"
    BY <1>2, <1>h DEF Numbered
  <2>1. job[k].snap \in Nat /\ job[k].old \in Nat /\ fresh \in Nat
    BY <1>h, JobFields
  <2>2. job'[k].snap = job[k].snap /\ job'[k].old = job[k].old
    BY <1>4, <1>5
  <2>3. job'[k].snap <= fresh + 1 /\ job'[k].old <= fresh + 1
    BY <1>h, <2>1, <2>2
  <2>4. CASE k = p
    BY <1>1, <1>4, <1>5, <2>3, <2>4 DEF StoreInv, Numbered
  <2>5. CASE k # p
    BY <1>h, <1>5, <2>3, <2>5 DEF Locked
  <2> QED
    BY <2>4, <2>5
<1>9. Reclaims'
  BY <1>2, <1>4, <1>5 DEF StoreInv, Reclaims
<1>10. IssuedLive'
  <2>1. ~Settled'
    BY <1>1, <1>4, <1>5 DEF Settled
  <2> QED
    BY <1>2, <2>1 DEF StoreInv, IssuedLive
<1>11. SweepSpares'
  BY <1>2 DEF StoreInv, SweepSpares, Leased
<1>12. TreesStay'
  <2>1. \A s \in 1..MaxWorld : tree[s] # 0 => tree'[s] # 0
    BY <1>h, <1>2, <1>3
  <2>2. lease \in [Readers -> 0..MaxWorld]
    BY DEF StoreInv, TypeOK
  <2> QED
    BY <1>h, <1>2, <2>1, <2>2 DEF StoreInv, TreesStay
<1>13. UploadsMarked'
  <2>1. p \notin Uploads
    BY StoreAssumption
  <2> QED
    BY <1>1, <1>2, <1>5, <2>1, OthersMarked
<1>14. StartAssigned'
  BY <1>2 DEF StoreInv, StartAssigned
<1> QED
  BY <1>6, <1>7, <1>8, <1>9, <1>10, <1>11, <1>12, <1>13, <1>14 DEF StoreInv

\* A writer that begins, is refused, or takes the lock.
LEMMA WriterEnters ==
  ASSUME StoreInv, NEW p \in Writers,
         \/ BeginRestore(p) \/ RestoreRefused(p) \/ EnterRestore(p)
         \/ LockInitial(p) \/ LockEdit(p) \/ PrunePack(p)
  PROVE  StoreInv'
<1>1. p \in Jobs /\ p \notin Uploads /\ job \in [Jobs -> JobRecords] /\ job[p] \in JobRecords
  BY StoreAssumption DEF Jobs, StoreInv, TypeOK
<1>2. job[p].snap <= fresh /\ job[p].old <= fresh /\ fresh \in Nat
  BY <1>1, StoreAssumption DEF StoreInv, Numbered, TypeOK
<1>3. /\ RestorePublisher \in Publishers /\ ApiEditPublisher \in Publishers /\ None \in Publishers
      /\ "restore" \in Kinds /\ "edit" \in Kinds /\ "prune" \in Kinds
      /\ "staged" \in Stages /\ "fenced" \in Stages /\ "editing" \in Stages /\ "packed" \in Stages
  BY DEF Publishers, Kinds, Stages
<1>z. 0 \in 0..MaxGen
  BY StoreAssumption
<1>4. ASSUME NEW rec \in JobRecords, job' = [job EXCEPT ![p] = rec], UNCHANGED <<marker, started>>
      PROVE  UploadsMarked'
  <2>1. \A k \in Jobs : k # p => job'[k] = job[k]
    BY <1>1, <1>4
  <2> QED
    BY <1>1, <1>4, <2>1, OthersMarked
<1>5. ASSUME BeginRestore(p) PROVE StoreInv'
  <2> DEFINE rec == Begun("staged", "restore", RestorePublisher, 0)
  <2>1. /\ job' = [job EXCEPT ![p] = rec] /\ job[p].pc = "idle"
        /\ UNCHANGED <<disk, lock, lease, sweeping, rows, history>>
    BY <1>5 DEF BeginRestore
  <2>2. rec \in JobRecords /\ rec.pc = "staged" /\ rec.snap = 0 /\ rec.old = 0
    BY <1>3, <1>z, BegunRecord
  <2> HIDE DEF rec
  <2>3. UploadsMarked'
    BY <1>4, <2>1, <2>2 DEF disk, rows
  <2>4. rec.snap <= fresh /\ rec.old <= fresh
    BY <1>2, <2>2
  <2> QED
    BY <1>1, <2>1, <2>2, <2>3, <2>4, Aside DEF StoreInv
<1>6. ASSUME RestoreRefused(p) PROVE StoreInv'
  <2>1. /\ job' = [job EXCEPT ![p] = Idle] /\ job[p].pc = "staged"
        /\ UNCHANGED <<disk, lock, lease, sweeping, rows, history>>
    BY <1>6 DEF RestoreRefused, Drop
  <2>2. UploadsMarked'
    BY <1>4, <2>1, IdleRecord DEF disk, rows
  <2>3. Idle.snap <= fresh /\ Idle.old <= fresh
    BY <1>2, IdleRecord
  <2> QED
    BY <1>1, <2>1, <2>2, <2>3, IdleRecord, Aside DEF StoreInv
<1>7. ASSUME EnterRestore(p) PROVE StoreInv'
  <2> DEFINE rec == [job[p] EXCEPT !.pc = "fenced"]
  <2>1. /\ job' = [job EXCEPT ![p] = rec] /\ lock = None /\ lock' = p
        /\ UNCHANGED <<disk, lease, sweeping, rows, history>>
    BY <1>1, <1>7 DEF EnterRestore, Step
  <2>2. rec \in JobRecords /\ rec.pc = "fenced" /\ rec.snap = job[p].snap /\ rec.old = job[p].old
    BY <1>1, <1>3, StepRecord
  <2> HIDE DEF rec
  <2>3. UploadsMarked'
    BY <1>4, <2>1, <2>2 DEF disk, rows
  <2>4. rec.snap <= fresh /\ rec.old <= fresh
    BY <1>2, <2>2
  <2> QED
    BY <1>1, <2>1, <2>2, <2>3, <2>4, Entered DEF StoreInv
<1>8. ASSUME LockInitial(p) \/ LockEdit(p) \/ PrunePack(p) PROVE StoreInv'
  <2>1. PICK pc \in {"fenced", "editing", "packed"}, kind \in {"edit", "prune"},
             pub \in {ApiEditPublisher, None} :
          /\ job' = [job EXCEPT ![p] = Begun(pc, kind, pub, 0)] /\ lock = None /\ lock' = p
          /\ pc = "editing" => kind = "edit"
          /\ UNCHANGED <<disk, lease, sweeping, rows, history>>
    <3>1. CASE LockInitial(p)
      <4>1. /\ job' = [job EXCEPT ![p] = Begun("fenced", "edit", ApiEditPublisher, 0)]
            /\ lock = None /\ lock' = p /\ UNCHANGED <<disk, lease, sweeping, rows, history>>
        BY <3>1 DEF LockInitial
      <4> QED
        BY <4>1
    <3>2. CASE LockEdit(p)
      <4>1. /\ job' = [job EXCEPT ![p] = Begun("editing", "edit", ApiEditPublisher, 0)]
            /\ lock = None /\ lock' = p /\ UNCHANGED <<disk, lease, sweeping, rows, history>>
        BY <3>2 DEF LockEdit
      <4> QED
        BY <4>1
    <3>3. CASE PrunePack(p)
      <4>1. /\ job' = [job EXCEPT ![p] = Begun("packed", "prune", None, 0)]
            /\ lock = None /\ lock' = p /\ UNCHANGED <<disk, lease, sweeping, rows, history>>
        BY <3>3 DEF PrunePack
      <4> QED
        BY <4>1
    <3> QED
      BY <1>8, <3>1, <3>2, <3>3
  <2> DEFINE rec == Begun(pc, kind, pub, 0)
  <2>2. rec \in JobRecords /\ rec.pc = pc /\ rec.kind = kind /\ rec.snap = 0 /\ rec.old = 0
    BY <1>3, <1>z, BegunRecord
  <2> HIDE DEF rec
  <2>3. job' = [job EXCEPT ![p] = rec]
    BY <2>1 DEF rec
  <2>4. UploadsMarked'
    BY <1>4, <2>1, <2>2, <2>3 DEF disk, rows
  <2>5. rec.snap <= fresh /\ rec.old <= fresh
    BY <1>2, <2>2
  <2> QED
    BY <1>1, <2>1, <2>2, <2>3, <2>4, <2>5, Entered DEF StoreInv
<1> QED
  BY <1>5, <1>6, <1>7, <1>8


\* The delete's bump, with the store's own publisher or with none.
LEMMA PruneBumps ==
  ASSUME StoreInv, NEW p \in Writers, PruneBump(p) \/ PruneEmptyBump(p)
  PROVE  StoreInv'
<1>1. p \in Jobs /\ p \notin Uploads /\ job[p].pc \in Locked
  BY StoreAssumption DEF Jobs, Locked, PruneBump, PruneEmptyBump
<1>h. /\ job \in [Jobs -> JobRecords] /\ job[p] \in JobRecords
      /\ fresh \in 0..MaxWorld /\ marker.gen \in 0..MaxGen
      /\ marker \in [gen : 0..MaxGen, pub : Publishers]
      /\ \A k \in Jobs : job[k].snap <= fresh /\ job[k].old <= fresh
      /\ lock = p
  BY <1>1, Holding
<1>2. PICK rec \in {[job[p] EXCEPT !.pc = "bumped"], Idle}, pub \in {marker.pub, None} :
        /\ job' = Outdated([job EXCEPT ![p] = rec])
        /\ marker' = [gen |-> marker.gen + 1, pub |-> pub]
        /\ \/ rec = [job[p] EXCEPT !.pc = "bumped"] /\ lock' = p
           \/ rec = Idle /\ lock' = None
  <2>1. CASE PruneBump(p)
    <3>1. job' = Outdated([job EXCEPT ![p].pc = "bumped"])
      BY <2>1 DEF PruneBump
    <3>2. [job EXCEPT ![p].pc = "bumped"] = [job EXCEPT ![p] = [job[p] EXCEPT !.pc = "bumped"]]
      BY <1>1, <1>h
    <3>3. marker' = [gen |-> marker.gen + 1, pub |-> marker.pub] /\ lock' = p
      BY <1>h, <2>1 DEF PruneBump, WriteMarker
    <3> QED
      BY <3>1, <3>2, <3>3
  <2>2. CASE PruneEmptyBump(p)
    <3>1. /\ job' = Outdated([job EXCEPT ![p] = Idle]) /\ lock' = None
          /\ marker' = [gen |-> marker.gen + 1, pub |-> None]
      BY <2>2 DEF PruneEmptyBump, WriteMarker
    <3> QED
      BY <3>1
  <2> QED
    BY <2>1, <2>2
<1>3. /\ rec \in JobRecords /\ rec.pc \in {"idle", "bumped"}
      /\ rec.snap \in {0, job[p].snap} /\ rec.old \in {0, job[p].old}
      /\ rec.pc = "bumped" => lock' = p
  <2>1. "bumped" \in Stages
    BY DEF Stages
  <2>2. CASE rec = Idle /\ lock' = None
    BY <2>2, IdleRecord
  <2>3. CASE rec = [job[p] EXCEPT !.pc = "bumped"] /\ lock' = p
    BY <1>h, <2>1, <2>3, StepRecord
  <2> QED
    BY <1>2, <2>2, <2>3
<1>4. rec.snap <= fresh /\ rec.old <= fresh
  BY <1>1, <1>h, <1>3, StoreAssumption
<1>5. pub \in Publishers
  BY <1>h DEF Publishers
<1>6. /\ CanBump /\ torn' = FALSE /\ issued' = issued
      /\ UNCHANGED <<tree, current, lease, sweeping, rows, fresh, raced>>
  BY DEF PruneBump, PruneEmptyBump, WriteMarker
<1>7. issued' \subseteq [gen : 0..MaxGen, world : 1..MaxWorld]
  BY <1>6 DEF StoreInv, TypeOK
<1>8. lock' \in {None, p}
  BY <1>2
<1> QED
  BY <1>1, <1>2, <1>3, <1>4, <1>5, <1>6, <1>7, <1>8, Bumped

LEMMA UnlinkStep ==
  ASSUME StoreInv, NEW p \in Writers, PruneUnlink(p)
  PROVE  StoreInv'
<1> USE DEF rows, history
<1>1. p \in Jobs /\ p \notin Uploads /\ job[p].pc = "bumped" /\ job[p].pc \in Locked
  BY StoreAssumption DEF PruneUnlink, Step, Locked, Jobs
<1>h. /\ job \in [Jobs -> JobRecords] /\ job[p] \in JobRecords /\ fresh \in 0..MaxWorld
      /\ lock = p /\ \A k \in Jobs : k # p => job[k].pc \notin Locked
      /\ \A k \in Jobs : job[k].snap <= fresh /\ job[k].old <= fresh
  BY <1>1, Holding
<1> DEFINE rec == [job[p] EXCEPT !.pc = "unlinked"]
<1>2. /\ current' = 0 /\ job' = [job EXCEPT ![p] = rec]
      /\ UNCHANGED <<tree, marker, lock, lease, sweeping, assigned, started, fresh, issued, torn,
                     raced>>
  BY <1>1, <1>h DEF PruneUnlink, Step
<1>3. /\ rec \in JobRecords /\ rec.pc = "unlinked" /\ rec.snap = job[p].snap
      /\ rec.old = job[p].old
  <2>1. "unlinked" \in Stages
    BY DEF Stages
  <2> QED
    BY <1>h, <2>1, StepRecord
<1> HIDE DEF rec
<1>4. job'[p] = rec /\ \A k \in Jobs : k # p => job'[k] = job[k]
  BY <1>1, <1>h, <1>2
<1>5. TypeOK'
  BY <1>1, <1>h, <1>2, <1>3, StoreAssumption DEF StoreInv, TypeOK
<1>6. LockHeld'
  BY <1>1, <1>2, <1>4 DEF StoreInv, LockHeld
<1>7. Numbered'
  <2> SUFFICES ASSUME NEW k \in Jobs
               PROVE  /\ job'[k].snap <= fresh /\ job'[k].old <= fresh
                      /\ job'[k].pc \notin {"moved", "flipped", "editing", "edited"}
    BY <1>2, <1>h, StoreAssumption DEF Numbered
  <2> QED
    BY <1>h, <1>3, <1>4 DEF Locked
<1>8. Reclaims'
  BY <1>2, <1>3, <1>4 DEF StoreInv, Reclaims, Locked
<1>9. IssuedLive'
  BY <1>2 DEF StoreInv, IssuedLive, Resolves
<1>10. SweepSpares' /\ TreesStay' /\ StartAssigned'
  BY <1>2 DEF StoreInv, SweepSpares, TreesStay, StartAssigned, Leased
<1>11. UploadsMarked'
  BY <1>1, <1>2, <1>4, OthersMarked
<1> QED
  BY <1>5, <1>6, <1>7, <1>8, <1>9, <1>10, <1>11 DEF StoreInv

\* The delete's collection: every tree, every lease and every staging is gone, and
\* there is no live tree.
LEMMA Collected ==
  ASSUME StoreInv, NEW p \in Jobs, p \notin Uploads, NEW rec \in JobRecords,
         \A k \in Jobs : k # p => job[k].pc \notin Locked,
         rec.pc \in {"idle", "emptied"}, rec.snap <= fresh, rec.old <= fresh,
         Collect(p, [job EXCEPT ![p] = rec]), current' = 0,
         marker' \in [gen : 0..MaxGen, pub : Publishers], marker'.gen = marker.gen,
         lock' \in Jobs \cup {None}, rec.pc = "emptied" => lock' = p, torn' \in BOOLEAN,
         UNCHANGED <<sweeping, rows, fresh, issued, raced>>
  PROVE  StoreInv'
<1> USE DEF rows
<1>1. /\ job \in [Jobs -> JobRecords] /\ fresh \in 0..MaxWorld
      /\ \A k \in Jobs : job[k].snap <= fresh /\ job[k].old <= fresh
      /\ marker.gen \in Nat
  BY StoreAssumption DEF StoreInv, TypeOK, Numbered
<1> DEFINE jobs == [job EXCEPT ![p] = rec]
<1>2. jobs \in [Jobs -> JobRecords] /\ jobs[p] = rec /\ \A k \in Jobs : k # p => jobs[k] = job[k]
  BY <1>1
<1>3. /\ job' = [j \in Jobs |-> IF j # p /\ jobs[j].pc = "staged" THEN Idle ELSE jobs[j]]
      /\ tree' = Without(1..MaxWorld) /\ lease' = [r \in Readers |-> 0]
  BY DEF Collect
<1> HIDE DEF jobs
<1>4. /\ job' \in [Jobs -> JobRecords] /\ job'[p] = rec
      /\ \A k \in Jobs : k # p => job'[k] = Idle \/ job'[k] = job[k]
  BY <1>2, <1>3, IdleRecord
<1>5. tree' \in [1..MaxWorld -> 0..MaxWorld] /\ lease' \in [Readers -> 0..MaxWorld]
  <2>1. tree' \in [1..MaxWorld -> 0..MaxWorld]
    BY <1>3, WithoutTrees
  <2> QED
    BY <1>3, <2>1, StoreAssumption
<1>6. \A k \in Jobs : k # p => job'[k].pc \notin Locked
  BY <1>4, IdleRecord DEF Locked
<1>7. TypeOK'
  <2>1. /\ current' \in 0..MaxWorld /\ sweeping' \in 0..MaxWorld /\ fresh' \in 0..MaxWorld
    BY StoreAssumption DEF StoreInv, TypeOK
  <2>2. /\ assigned' \in Workers \cup {None} /\ started' \in Workers \cup {None}
        /\ issued' \subseteq [gen : 0..MaxGen, world : 1..MaxWorld]
    BY DEF StoreInv, TypeOK
  <2>3. raced' \in BOOLEAN
    BY DEF StoreInv, TypeOK
  <2> QED
    BY <1>4, <1>5, <2>1, <2>2, <2>3 DEF TypeOK
<1>8. LockHeld'
  BY <1>4, <1>6 DEF LockHeld, Locked
<1>9. Numbered'
  <2> SUFFICES ASSUME NEW k \in Jobs
               PROVE  /\ job'[k].snap <= fresh /\ job'[k].old <= fresh
                      /\ job'[k].pc \notin {"moved", "flipped", "editing", "edited"}
    BY <1>1, StoreAssumption DEF Numbered
  <2>1. CASE k = p
    BY <1>4, <2>1
  <2>2. CASE k # p /\ job'[k] = job[k]
    BY <1>1, <1>6, <2>2 DEF Locked
  <2>3. CASE k # p /\ job'[k] = Idle
    BY <1>1, <2>3, IdleRecord
  <2> QED
    BY <1>4, <2>1, <2>2, <2>3
<1>10. Reclaims'
  <2> SUFFICES ASSUME NEW i \in Jobs, job'[i].pc = "reclaim"
               PROVE  /\ job'[i].old # 0 /\ job'[i].old # current'
                      /\ \A r \in Readers : lease'[r] # job'[i].old
                      /\ \A k \in Jobs : job'[k].pc # "moved"
    BY DEF Reclaims
  <2>1. i # p /\ job'[i] = job[i]
    BY <1>4, IdleRecord
  <2>2. job[i].old # 0
    BY <2>1 DEF StoreInv, Reclaims
  <2>3. \A k \in Jobs : job'[k].pc # "moved"
    BY <1>4, <1>6 DEF Locked
  <2> QED
    BY <1>3, <2>1, <2>2, <2>3
<1>11. IssuedLive'
  BY DEF StoreInv, IssuedLive, Resolves
<1>12. SweepSpares' /\ TreesStay' /\ StartAssigned'
  BY <1>3 DEF StoreInv, SweepSpares, TreesStay, StartAssigned, Leased
<1>13. UploadsMarked'
  <2> SUFFICES ASSUME NEW u \in Uploads
               PROVE  /\ job'[u].base <= marker.gen
                      /\ job'[u].pc \in {"guarded", "staged"} => job'[u].kind = "snapshot"
                      /\ job'[u].pc \in {"guarded", "staged"} /\ job'[u].stale =>
                           job'[u].base < marker.gen
                      /\ job'[u].pc \in {"fenced", "moved"} =>
                           /\ job'[u].kind = "snapshot" /\ ~job'[u].stale
                           /\ started \in {None, job'[u].pub}
    BY DEF UploadsMarked
  <2>1. u \in Jobs /\ u # p
    BY DEF Jobs
  <2>2. CASE job'[u] = Idle
    BY <1>1, <2>2, IdleRecord
  <2>3. CASE job'[u] = job[u]
    BY <2>3 DEF StoreInv, UploadsMarked
  <2> QED
    BY <1>4, <2>1, <2>2, <2>3
<1> QED
  BY <1>7, <1>8, <1>9, <1>10, <1>11, <1>12, <1>13 DEF StoreInv

LEMMA CollectSteps ==
  ASSUME StoreInv, NEW p \in Writers, PruneCollect(p) \/ PruneEmpty(p)
  PROVE  StoreInv'
<1>1. p \in Jobs /\ p \notin Uploads /\ marker \in [gen : 0..MaxGen, pub : Publishers]
  BY StoreAssumption DEF Jobs, StoreInv, TypeOK
<1>2. None \in Publishers /\ "emptied" \in Stages /\ "prune" \in Kinds /\ 0 \in 0..MaxGen
  BY StoreAssumption DEF Publishers, Stages, Kinds
<1>f. fresh \in Nat /\ torn \in BOOLEAN
  BY StoreAssumption DEF StoreInv, TypeOK
<1>3. ASSUME PruneCollect(p) PROVE StoreInv'
  <2>1. /\ job[p].pc = "unlinked" /\ job[p].pc \in Locked /\ Collect(p, [job EXCEPT ![p] = Idle])
        /\ marker' = [gen |-> marker.gen, pub |-> None] /\ torn' = FALSE /\ lock' = None
        /\ UNCHANGED <<current, sweeping, rows, fresh, issued, raced>>
    BY <1>3 DEF PruneCollect, WriteMarker, Locked
  <2>2. current' = 0
    BY <1>1, <2>1 DEF StoreInv, Numbered
  <2>3. \A k \in Jobs : k # p => job[k].pc \notin Locked
    BY <1>1, <2>1, OneHolder
  <2>4. marker' \in [gen : 0..MaxGen, pub : Publishers] /\ marker'.gen = marker.gen
    BY <1>1, <1>2, <2>1
  <2>5. Idle.snap <= fresh /\ Idle.old <= fresh
    BY <1>f, IdleRecord
  <2>6. lock' \in Jobs \cup {None} /\ torn' \in BOOLEAN
    BY <2>1
  <2> QED
    BY <1>1, <2>1, <2>2, <2>3, <2>4, <2>5, <2>6, IdleRecord, Collected
<1>4. ASSUME PruneEmpty(p) PROVE StoreInv'
  <2> DEFINE rec == Begun("emptied", "prune", None, 0)
  <2>1. /\ lock = None /\ lock' = p /\ Collect(p, [job EXCEPT ![p] = rec]) /\ current' = 0
        /\ UNCHANGED <<marker, sweeping, rows, fresh, issued, raced, torn>>
    BY <1>4 DEF PruneEmpty, history
  <2>2. rec \in JobRecords /\ rec.pc = "emptied" /\ rec.snap = 0 /\ rec.old = 0
    BY <1>2, BegunRecord
  <2> HIDE DEF rec
  <2>3. \A k \in Jobs : k # p => job[k].pc \notin Locked
    BY <2>1, Unlocked
  <2>4. marker' \in [gen : 0..MaxGen, pub : Publishers] /\ marker'.gen = marker.gen
    BY <1>1, <2>1
  <2>5. rec.snap <= fresh /\ rec.old <= fresh
    BY <1>f, <2>2
  <2>6. lock' \in Jobs \cup {None}
    BY <1>1, <2>1
  <2>7. torn' \in BOOLEAN
    BY <1>f, <2>1
  <2> QED
    BY <1>1, <2>1, <2>2, <2>3, <2>4, <2>5, <2>6, <2>7, Collected
<1> QED
  BY <1>3, <1>4

LEMMA WriterSteps ==
  ASSUME StoreInv, NEW p \in Writers, WriterStep(p)
  PROVE  StoreInv'
BY EditStep, WriterEnters, PruneBumps, UnlinkStep, CollectSteps DEF WriterStep

-----------------------------------------------------------------------------
(* Readers, the sweep, the row and a restart *)

\* A reader leases the live tree, or lets its lease go.
LEMMA ReaderSteps ==
  ASSUME StoreInv, NEW r \in Readers, ReaderStep(r)
  PROVE  StoreInv'
<1> USE DEF disk, rows, history
<1>h. /\ lease \in [Readers -> 0..MaxWorld] /\ current \in 0..MaxWorld
      /\ tree \in [1..MaxWorld -> 0..MaxWorld] /\ marker.gen \in 0..MaxGen
      /\ issued \subseteq [gen : 0..MaxGen, world : 1..MaxWorld]
  BY DEF StoreInv, TypeOK
<1>1. ASSUME LeaseHydrate(r) \/ LeaseBackup(r) PROVE StoreInv'
  <2>1. /\ Resolves /\ lease' = [lease EXCEPT ![r] = current]
        /\ issued' \subseteq issued \cup {[gen |-> marker.gen, world |-> tree[current]]}
        /\ UNCHANGED <<disk, lock, job, sweeping, rows, fresh, torn, raced>>
    BY <1>1 DEF LeaseHydrate, LeaseBackup
  <2>2. current \in 1..MaxWorld /\ tree[current] \in 1..MaxWorld
    BY <1>h, <2>1, StoreAssumption DEF Resolves
  <2>3. /\ lease' \in [Readers -> 0..MaxWorld]
        /\ \A q \in Readers : lease'[q] \in {current, lease[q]}
    BY <1>h, <2>1
  <2>4. /\ issued' \subseteq [gen : 0..MaxGen, world : 1..MaxWorld]
        /\ \A i \in issued' : i \in issued \/ (i.gen = marker.gen /\ i.world = tree[current])
    BY <1>h, <2>1, <2>2
  <2>5. TypeOK'
    BY <2>1, <2>3, <2>4 DEF StoreInv, TypeOK
  <2>6. LockHeld' /\ Numbered' /\ StartAssigned'
    BY <2>1 DEF StoreInv, LockHeld, Numbered, StartAssigned
  <2>7. Reclaims'
    BY <2>1, <2>3 DEF StoreInv, Reclaims
  <2>8. IssuedLive'
    <3>1. marker.gen <= marker.gen
      BY <1>h, StoreAssumption
    <3>2. Settled' = Settled /\ Resolves' = Resolves
      BY <2>1 DEF Settled, Resolves
    <3> QED
      BY <2>1, <2>4, <3>1, <3>2 DEF StoreInv, IssuedLive
  <2>9. SweepSpares'
    BY <2>1, <2>3 DEF StoreInv, SweepSpares, Leased
  <2>10. TreesStay'
    BY <2>1, <2>2, <2>3 DEF StoreInv, TreesStay
  <2>11. UploadsMarked'
    BY <2>1 DEF StoreInv, UploadsMarked
  <2> QED
    BY <2>5, <2>6, <2>7, <2>8, <2>9, <2>10, <2>11 DEF StoreInv
<1>2. ASSUME ReleaseLease(r) PROVE StoreInv'
  <2>1. /\ lease' = [lease EXCEPT ![r] = 0]
        /\ UNCHANGED <<tree, current, marker, lock, job, sweeping, assigned, started, fresh,
                       issued, torn, raced>>
    BY <1>2 DEF ReleaseLease
  <2>2. /\ lease' \in [Readers -> 0..MaxWorld]
        /\ \A q \in Readers : lease'[q] \in {0, lease[q]}
    BY <1>h, <2>1, StoreAssumption
  <2>3. TypeOK'
    BY <2>1, <2>2 DEF StoreInv, TypeOK
  <2>4. LockHeld' /\ Numbered' /\ StartAssigned' /\ UploadsMarked'
    BY <2>1 DEF StoreInv, LockHeld, Numbered, StartAssigned, UploadsMarked
  <2>5. Reclaims' /\ TreesStay'
    BY <2>1, <2>2 DEF StoreInv, Reclaims, TreesStay
  <2>6. IssuedLive'
    BY <2>1 DEF StoreInv, IssuedLive, Settled, Resolves
  <2>7. SweepSpares'
    BY <2>1, <2>2 DEF StoreInv, SweepSpares, Leased
  <2> QED
    BY <2>3, <2>4, <2>5, <2>6, <2>7 DEF StoreInv
<1> QED
  BY <1>1, <1>2 DEF ReaderStep

LEMMA SweepSteps ==
  ASSUME StoreInv, SweepRemove \/ \E s \in 1..MaxWorld : SweepJudge(s)
  PROVE  StoreInv'
<1> USE DEF disk, rows, history
<1>h. /\ current \in 0..MaxWorld /\ lease \in [Readers -> 0..MaxWorld] /\ sweeping \in 0..MaxWorld
      /\ tree \in [1..MaxWorld -> 0..MaxWorld] /\ lock \in Jobs \cup {None}
      /\ job \in [Jobs -> JobRecords]
  BY DEF StoreInv, TypeOK
<1>t. torn \in BOOLEAN
  BY DEF StoreInv, TypeOK
<1>1. ASSUME NEW s \in 1..MaxWorld, SweepJudge(s) PROVE StoreInv'
  <2>1. /\ sweeping' = s /\ s # current /\ ~Leased(s)
        /\ UNCHANGED <<tree, current, marker, lock, job, lease, assigned, started, fresh, issued,
                       torn, raced>>
    BY <1>1 DEF SweepJudge
  <2>2. TypeOK'
    BY <2>1, StoreAssumption DEF StoreInv, TypeOK
  <2>3. LockHeld' /\ Numbered' /\ StartAssigned' /\ UploadsMarked'
    BY <2>1 DEF StoreInv, LockHeld, Numbered, StartAssigned, UploadsMarked
  <2>4. Reclaims' /\ TreesStay' /\ SweepSpares'
    BY <2>1 DEF StoreInv, Reclaims, TreesStay, SweepSpares, Leased
  <2>5. IssuedLive'
    BY <2>1 DEF StoreInv, IssuedLive, Settled, Resolves
  <2> QED
    BY <2>2, <2>3, <2>4, <2>5 DEF StoreInv
<1>2. ASSUME SweepRemove PROVE StoreInv'
  <2> DEFINE S == {sweeping}
  <2>1. /\ sweeping # 0 /\ tree' = Without(S) /\ sweeping' = 0
        /\ UNCHANGED <<current, marker, lock, job, lease, assigned, started, fresh, issued, torn,
                       raced>>
    BY <1>2 DEF SweepRemove
  <2>2. raced \/ (current \notin S /\ \A r \in Readers : lease[r] \notin S)
    BY <2>1 DEF StoreInv, SweepSpares, Leased
  <2> HIDE DEF S
  <2>3. /\ tree' \in [1..MaxWorld -> 0..MaxWorld]
        /\ \A s \in 1..MaxWorld : tree'[s] \in {0, tree[s]} /\ (s \notin S => tree'[s] = tree[s])
    BY <2>1, WithoutTrees
  <2>4. raced \/ /\ current # 0 => tree'[current] = tree[current]
                 /\ \A r \in Readers : lease'[r] # 0 => tree'[lease'[r]] = tree[lease'[r]]
    BY <1>h, <2>1, <2>2, <2>3
  <2>5. LockHeld' /\ (Settled' => Settled)
    BY <2>1 DEF StoreInv, LockHeld, Settled
  <2>6. /\ lease' \in [Readers -> 0..MaxWorld] /\ \A r \in Readers : lease'[r] \in {0, lease[r]}
        /\ job' \in [Jobs -> JobRecords] /\ \A k \in Jobs : job'[k] = job[k]
        /\ lock' \in Jobs \cup {None}
    BY <1>h, <2>1
  <2>7. torn' \in BOOLEAN
    BY <1>t, <2>1
  <2>8. UNCHANGED <<current, marker, rows, fresh, issued, raced>> /\ sweeping' \in {0, sweeping}
    BY <2>1
  <2>9. \A s \in 1..MaxWorld : tree'[s] \in {0, tree[s]}
    BY <2>3
  <2> QED
    BY <2>3, <2>4, <2>5, <2>6, <2>7, <2>8, <2>9, Lessened
<1> QED
  BY <1>1, <1>2

LEMMA RowSteps ==
  ASSUME StoreInv, (\E w \in Workers : Assign(w)) \/ Unassign \/ StartReads
  PROVE  StoreInv'
<1> USE DEF disk, memory, history
<1>1. /\ UNCHANGED <<tree, current, marker, lock, job, lease, sweeping, fresh, issued, torn, raced>>
      /\ \/ \E w \in Workers : assigned = None /\ assigned' = w /\ started' = started
         \/ assigned' = None /\ started' = None
         \/ assigned # None /\ lock = None /\ started' = assigned /\ assigned' = assigned
  BY DEF Assign, Unassign, StartReads
<1>2. assigned \in Workers \cup {None} /\ started \in Workers \cup {None}
  BY DEF StoreInv, TypeOK
<1>3. TypeOK'
  <2>1. assigned' \in Workers \cup {None} /\ started' \in Workers \cup {None}
    BY <1>1, <1>2
  <2> QED
    BY <1>1, <2>1 DEF StoreInv, TypeOK
<1>4. LockHeld' /\ Numbered' /\ Reclaims' /\ TreesStay'
  BY <1>1 DEF StoreInv, LockHeld, Numbered, Reclaims, TreesStay
<1>5. SweepSpares' /\ IssuedLive'
  BY <1>1 DEF StoreInv, SweepSpares, Leased, IssuedLive, Settled, Resolves
<1>6. StartAssigned'
  BY <1>1, <1>2 DEF StoreInv, StartAssigned
<1>7. UploadsMarked'
  <2>1. \A u \in Uploads : job[u].pc \in {"fenced", "moved"} => started' \in {None, job[u].pub}
    <3>1. CASE started' \in {started, None}
      BY <3>1 DEF StoreInv, UploadsMarked
    <3>2. CASE lock = None
      BY <3>2, Unlocked DEF Jobs, Locked
    <3> QED
      BY <1>1, <3>1, <3>2
  <2> QED
    BY <1>1, <2>1 DEF StoreInv, UploadsMarked
<1> QED
  BY <1>3, <1>4, <1>5, <1>6, <1>7 DEF StoreInv

\* A restart loses the memory and keeps the live tree.
LEMMA RestartStep ==
  ASSUME StoreInv, Restart
  PROVE  StoreInv'
<1> USE DEF rows
<1> DEFINE S == (1..MaxWorld) \ {current}
<1>h. current \in 0..MaxWorld /\ job \in [Jobs -> JobRecords]
  BY DEF StoreInv, TypeOK
<1>1. /\ tree' = Without(S) /\ lock' = None /\ job' = [j \in Jobs |-> Idle]
      /\ lease' = [r \in Readers |-> 0] /\ sweeping' = 0
      /\ UNCHANGED <<current, marker, assigned, started, fresh, issued, raced>>
  BY DEF Restart
<1>2. torn' = (torn \/ \E j \in Jobs : job[j].pc \in {"flipped", "edited"})
  BY DEF Restart
<1>3. /\ job' \in [Jobs -> JobRecords] /\ \A k \in Jobs : job'[k] = Idle
      /\ lease' \in [Readers -> 0..MaxWorld] /\ \A r \in Readers : lease'[r] = 0
  BY <1>1, IdleRecord, StoreAssumption
<1>4. LockHeld'
  BY <1>3, IdleRecord DEF LockHeld, Locked
<1>5. Settled' => Settled
  BY <1>2 DEF Settled
<1>6. torn' \in BOOLEAN
  BY <1>2
<1>7. current \notin S
  OBVIOUS
<1> HIDE DEF S
<1>8. /\ tree' \in [1..MaxWorld -> 0..MaxWorld]
      /\ \A s \in 1..MaxWorld : tree'[s] \in {0, tree[s]} /\ (s \notin S => tree'[s] = tree[s])
  BY <1>1, WithoutTrees
<1>9. /\ current # 0 => tree'[current] = tree[current]
      /\ \A r \in Readers : lease'[r] # 0 => tree'[lease'[r]] = tree[lease'[r]]
  BY <1>h, <1>3, <1>7, <1>8
<1>10. /\ \A s \in 1..MaxWorld : tree'[s] \in {0, tree[s]}
       /\ \A r \in Readers : lease'[r] \in {0, lease[r]}
       /\ lock' \in Jobs \cup {None} /\ sweeping' \in {0, sweeping}
       /\ UNCHANGED <<current, marker, rows, fresh, issued, raced>>
  BY <1>1, <1>3, <1>8
<1> QED
  BY <1>3, <1>4, <1>5, <1>6, <1>8, <1>9, <1>10, Lessened

LEMMA StoreStep == StoreInv /\ [Next]_vars => StoreInv'
<1> SUFFICES ASSUME StoreInv, [Next]_vars PROVE StoreInv'
  OBVIOUS
<1>1. ASSUME NEW j \in Jobs, PublishStep(j) PROVE StoreInv'
  BY <1>1, MoveStep, FlipStep, StampStep, ReclaimStep DEF PublishStep
<1>2. CASE UNCHANGED vars
  <2>1. UNCHANGED <<tree, current, marker, lock, job, lease, sweeping, assigned, started, fresh,
                    issued, torn, raced>>
    BY <1>2 DEF vars, disk, memory, rows, history
  <2>2. TypeOK'
    BY <2>1 DEF StoreInv, TypeOK
  <2>3. LockHeld' /\ Numbered' /\ Reclaims' /\ TreesStay' /\ UploadsMarked' /\ StartAssigned'
    BY <2>1 DEF StoreInv, LockHeld, Numbered, Reclaims, TreesStay, UploadsMarked, StartAssigned
  <2>4. SweepSpares' /\ IssuedLive'
    BY <2>1 DEF StoreInv, SweepSpares, Leased, IssuedLive, Settled, Resolves
  <2> QED
    BY <2>2, <2>3, <2>4 DEF StoreInv
<1> QED
  BY <1>1, <1>2, UploadSteps, WriterSteps, ReaderSteps, SweepSteps, RowSteps, RestartStep DEF Next

-----------------------------------------------------------------------------
(* Theorems *)

\* The invariant holds in every state.
THEOREM StoreInvariant == Spec => []StoreInv
BY StoreInit, StoreStep, PTL DEF Spec

\* Every variable keeps its type: a generation, a world and a record of the store never
\* leave their ranges, whatever is published, pruned, swept or lost.
THEOREM StoreTypeCorrect == Spec => []TypeOK
<1>1. StoreInv => TypeOK
  BY DEF StoreInv
<1> QED
  BY <1>1, StoreInvariant, PTL

\* Skipping the hydrate is safe: whoever holds the store's generation was given the world
\* that is live (lifecycle.py's comparison with settled_generation), unless a crash
\* separated a write from its bump.
THEOREM SkipAlwaysSafe == Spec => []SkipSafe
<1>1. StoreInv => SkipSafe
  <2> SUFFICES ASSUME StoreInv, lock = None, Resolves, ~torn, NEW i \in issued,
                      i.gen >= marker.gen
               PROVE  i.world = tree[current]
    BY DEF SkipSafe
  <2>1. Settled
    BY Unlocked DEF Settled, Locked
  <2>2. i.gen \in Nat /\ marker.gen \in Nat /\ i.gen <= marker.gen
    BY StoreAssumption DEF StoreInv, TypeOK, IssuedLive
  <2>3. i.gen = marker.gen
    BY <2>2
  <2> QED
    BY <2>1, <2>3 DEF StoreInv, IssuedLive
<1> QED
  BY <1>1, StoreInvariant, PTL

\* The reclaims after a publish, a delete and the sweeps leave every live and every leased
\* tree on disk, unless the lock-free sweep had judged a tree before it became the live one.
THEOREM TreesAlwaysStay == Spec => []TreesStay
<1>1. StoreInv => TreesStay
  BY DEF StoreInv
<1> QED
  BY <1>1, StoreInvariant, PTL

\* Only an upload that is not outdated, of a Worker no other Worker's start excludes,
\* reaches the live pointer: the commit's generation check and its fence are taken under
\* the lock the bump needs.
THEOREM PublishesAlwaysCurrent == Spec => PublishesCurrent
<1>1. StoreInv /\ [Next]_vars =>
        [\A u \in Uploads : Publishes(u) => ~job[u].stale]_vars
  BY DEF StoreInv, UploadsMarked, Publishes
<1>2. StoreInv /\ [Next]_vars =>
        [\A u \in Uploads : Publishes(u) => started \in {None, job[u].pub}]_vars
  BY DEF StoreInv, UploadsMarked, Publishes
<1> QED
  BY <1>1, <1>2, StoreInvariant, PTL
     DEF Spec, PublishesCurrent, NoStalePublish, NoPublishUnderStart

=============================================================================
