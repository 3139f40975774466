------------------------------ MODULE JarPool ------------------------------
(***************************************************************************)
(* Server JARs: the catalog that resolves a version to its latest build,   *)
(* the start that brings that build into the content-addressed pool before *)
(* it commits the row naming it, and the collection of the JARs no row     *)
(* names.  All servers here have the same type and version.                *)
(*                                                                         *)
(* Builds are numbers; the content of a build, and so its pool key, is its *)
(* number.  Junk is what a spoilt download leaves.                         *)
(***************************************************************************)
EXTENDS Naturals

CONSTANTS
  Servers, None, Junk,
  GC_SAFETY_WINDOW, cache_ttl,
  MaxBuild, MaxTime, MaxDownloads, MaxCollections  \* bounds

VARIABLES
  now,
  hash_algorithm, \* what the source publishes: "sha256", "sha1" or None
  upstream, cache, \* its latest build; the fetcher's last good answer
  pool,        \* per key: when it was stored, or None
  rows, start, \* per server: its row, or None; the start in progress, or None
  gc,          \* the collection in progress, or None
  downloads, collections

vars == <<now, hash_algorithm, upstream, cache, pool, rows, start, gc, downloads, collections>>
source == <<hash_algorithm, upstream>>

Builds == 1..MaxBuild
Keys == Builds \cup {Junk}
has(k) == k \in {j \in Keys: pool[j] # None}

\* A digest and the URL of a source without one both change with the build.
source_fingerprint(build) == build

ServerJarReferences == {rows[s].key: s \in {t \in Servers: rows[t] # None}} \ {None}

-----------------------------------------------------------------------------
(* The catalog *)

fresh_cache == IF cache = None THEN None ELSE IF now - cache.at > cache_ttl THEN None ELSE cache

\* The answer of the source and the cache it leaves; when every attempt fails, the
\* last good answer while it is fresh, else None.
fetch_cached(build, left) ==
  \/ build = upstream /\ left = [build |-> upstream, at |-> now]
  \/ left = cache /\ build = IF fresh_cache = None THEN None ELSE cache.build

refresh_catalog == cache # None /\ cache' = None /\ UNCHANGED <<now, source, pool, rows, start, gc, downloads, collections>>

-----------------------------------------------------------------------------
(* StartServer and PlaceOrphan: EnsureJar, then the commit of the row *)

At(s, step) == IF start[s] = None THEN FALSE ELSE start[s].step = step
Goto(s, r) == start' = [start EXCEPT ![s] = r]
Ensured(key, fingerprint, reused, put) == [step |-> "ensured", key |-> key, source |-> fingerprint, reused |-> reused, put |-> put]
Pooled(row) == IF row.key = None THEN FALSE ELSE has(row.key)
Fallback(s) == IF Pooled(rows[s]) THEN Ensured(rows[s].key, rows[s].source, rows[s].reused, None) ELSE None

IsBuild(row, build) ==
  Pooled(row) /\ IF hash_algorithm = "sha256" THEN row.key = build ELSE row.source = source_fingerprint(build)

\* Resolve the latest build; reuse the pooled JAR if it is that build, and fall
\* back to it if the catalog does not answer.  No collection can take it meanwhile:
\* the row names it.
EnsureJar(s) ==
  /\ rows[s] # None /\ start[s] = None
  /\ \E build \in Builds \cup {None}, left \in {cache, [build |-> upstream, at |-> now]}:
       /\ fetch_cached(build, left) /\ cache' = left
       /\ Goto(s, IF build = None THEN Fallback(s)
                  ELSE IF IsBuild(rows[s], build)
                       THEN Ensured(rows[s].key, source_fingerprint(build), rows[s].reused, None)
                       ELSE [step |-> "fetch", build |-> build])
  /\ UNCHANGED <<now, source, pool, rows, gc, downloads, collections>>

verify(build, data) == hash_algorithm = None \/ data = build

\* Download and verify.
Fetch(s) ==
  /\ At(s, "fetch") /\ downloads < MaxDownloads /\ downloads' = downloads + 1
  /\ LET build == start[s].build IN
     \/ \E data \in {build, Junk}:
          /\ verify(build, data)
          /\ Goto(s, [step |-> "put", build |-> build, data |-> data])
     \/ Goto(s, Fallback(s))
  /\ UNCHANGED <<now, source, cache, pool, rows, gc, collections>>

\* The file system replaces a stored JAR, the object store skips the upload.
put_jar(k, t) == t = now \/ t = pool[k]

Put(s) ==
  /\ At(s, "put")
  /\ LET r == start[s] IN
     \E t \in {now, pool[r.data]} \ {None}:
       /\ put_jar(r.data, t)
       /\ pool' = [pool EXCEPT ![r.data] = t]
       /\ Goto(s, Ensured(r.data, source_fingerprint(r.build), has(r.data), now))
  /\ UNCHANGED <<now, source, cache, rows, gc, downloads, collections>>

\* Placed and committed, or given up: no worker, a lost race, a failed commit.
Commit(s) ==
  /\ At(s, "ensured") /\ Goto(s, None)
  /\ \/ LET r == start[s] IN
        rows' = [rows EXCEPT ![s] = [key |-> r.key, reused |-> r.reused, source |-> IF r.source = None THEN @.source ELSE r.source]]
     \/ UNCHANGED rows
  /\ UNCHANGED <<now, source, cache, pool, gc, downloads, collections>>

DeleteServer(s) ==
  /\ rows[s] # None /\ start[s] = None /\ rows' = [rows EXCEPT ![s] = None]
  /\ UNCHANGED <<now, source, cache, pool, start, gc, downloads, collections>>

\* The JAR a hydrate splices into the working set.
get_resolved_jar_lookup(s) == IF rows[s] = None THEN None ELSE rows[s].key
jar_member(s) ==
  LET k == get_resolved_jar_lookup(s) IN IF k = None THEN None ELSE IF has(k) THEN k ELSE None

-----------------------------------------------------------------------------
(* RunJarPoolGc *)

list_entries == {[key |-> k, modified_at |-> pool[k]]: k \in {j \in Keys: pool[j] # None}}

jar_pool_gc ==
  /\ gc = None /\ collections < MaxCollections /\ collections' = collections + 1
  /\ gc' = [step |-> "live", entries |-> list_entries]
  /\ UNCHANGED <<now, source, cache, pool, rows, start, downloads>>

ReadLive ==
  /\ gc # None /\ gc.step = "live"
  /\ gc' = [step |-> "scan", entries |-> gc.entries, live |-> ServerJarReferences, at |-> now, doomed |-> None]
  /\ UNCHANGED <<now, source, cache, pool, rows, start, downloads, collections>>

\* Not named when the collection began nor now, and older than the window.
Collectable(e, live, at) == e.key \notin live /\ e.modified_at + GC_SAFETY_WINDOW <= at /\ e.key \notin ServerJarReferences

Scan(e) ==
  /\ gc' = [gc EXCEPT !.entries = @ \ {e}, !.doomed = IF Collectable(e, gc.live, gc.at) THEN e.key ELSE None]
  /\ UNCHANGED <<now, source, cache, pool, rows, start, downloads, collections>>

Delete ==
  /\ pool' = [pool EXCEPT ![gc.doomed] = None] /\ gc' = [gc EXCEPT !.doomed = None]
  /\ UNCHANGED <<now, source, cache, rows, start, downloads, collections>>

GcDone ==
  /\ gc.entries = {} /\ gc' = None
  /\ UNCHANGED <<now, source, cache, pool, rows, start, downloads, collections>>

RunJarPoolGc ==
  \/ jar_pool_gc
  \/ ReadLive
  \/ /\ gc # None /\ gc.step = "scan"
     /\ IF gc.doomed # None THEN Delete ELSE GcDone \/ \E e \in gc.entries: Scan(e)

-----------------------------------------------------------------------------

Release ==
  /\ upstream < MaxBuild /\ upstream' = upstream + 1
  /\ UNCHANGED <<now, hash_algorithm, cache, pool, rows, start, gc, downloads, collections>>

\* A start commits within the safety window of storing its JAR.
Tick ==
  /\ now < MaxTime /\ now' = now + 1
  /\ \A s \in {t \in Servers: IF At(t, "ensured") THEN start[t].put # None ELSE FALSE}: now' < start[s].put + GC_SAFETY_WINDOW
  /\ UNCHANGED <<source, cache, pool, rows, start, gc, downloads, collections>>

Init ==
  /\ now = 0 /\ hash_algorithm \in {"sha256", "sha1", None} /\ upstream = 1 /\ cache = None
  /\ pool = [k \in Keys |-> None]
  /\ rows = [s \in Servers |-> [key |-> None, source |-> None, reused |-> FALSE]]
  /\ start = [s \in Servers |-> None] /\ gc = None /\ downloads = 0 /\ collections = 0

Next ==
  \/ \E s \in Servers: EnsureJar(s) \/ Fetch(s) \/ Put(s) \/ Commit(s) \/ DeleteServer(s)
  \/ RunJarPoolGc
  \/ refresh_catalog
  \/ Release
  \/ Tick

Spec == Init /\ [][Next]_vars

\* A server's hydrate finds the JAR its row names, which a collection never takes
\* (ensure_jar.py stores it before the row naming it commits, jar_gc.py); and where
\* the source publishes a digest the JAR is the build the row's fingerprint tells, so
\* that a later start recognises it and misses no update.  A JAR that was in the pool
\* when the start stored it again is exempt: the collection may have listed it before.
JarsKept ==
  \A s \in Servers:
    IF rows[s] = None THEN TRUE
    ELSE IF rows[s].key = None THEN TRUE
    ELSE /\ ~rows[s].reused => jar_member(s) = rows[s].key
         /\ hash_algorithm # None => rows[s].source = source_fingerprint(rows[s].key)
=============================================================================
