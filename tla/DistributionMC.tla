--------------------------- MODULE DistributionMC ----------------------------
(* Small instances of how working sets are kept and carried, for TLC: the     *)
(* object-store backend, downloads through the browser, and the hydrate       *)
(* streams and spools of the file-system backend.  A behaviour is of one of   *)
(* them.                                                                      *)
EXTENDS ObjectStore

VARIABLES
  part,    \* the component this behaviour is of
  now, active, allowed, at_rest, url, jar, req, archive, got, finished, trees, pinned,
  zip, stayed, events, requests, issues,
  pc, slot, hydrateJob, orphan, lease, hydrateJar, tar, chunks, pipe, shut, cut,
  outcome, slots, leases, locked, publishes, unbegun,
  caller, spoolJob, heir, disposals, file, kept

downloadVars == <<now, active, allowed, at_rest, url, jar, req, archive, got,
  finished, trees, pinned, zip, stayed, events, requests, issues>>
hydrateVars == <<pc, slot, hydrateJob, orphan, lease, hydrateJar, tar, chunks, pipe,
  shut, cut, outcome, slots, leases, locked, publishes, unbegun>>
spoolVars == <<caller, spoolJob, heir, disposals, file, kept>>

DownloadNames == {"f", "g"}
Requests == {"r1", "r2"}

D == INSTANCE Downloads WITH download_grant_ttl <- 2, download_cookie_ttl <- 2,
  Names <- DownloadNames, Size <- 2, MaxTime <- 3, MaxEvents <- 1, MaxRequests <- 3,
  MaxGrants <- 2
H == INSTANCE HydrateStreams WITH job <- hydrateJob, jar <- hydrateJar,
  Slots <- 1, MaxChunks <- 2, MaxPublishes <- 1
S == INSTANCE Spools WITH job <- spoolJob

\* The variables of a component that is not the one at work are put aside.
AllInit ==
  /\ part \in {"objects", "downloads", "hydrates", "spools"}
  /\ Init
  /\ IF part = "downloads" THEN D!Init
     ELSE now = 0 /\ active = 0 /\ allowed = 0 /\ at_rest = 0 /\ url = 0 /\ jar = 0
          /\ req = 0 /\ archive = 0 /\ got = 0 /\ finished = 0 /\ trees = 0
          /\ pinned = 0 /\ zip = 0 /\ stayed = 0 /\ events = 0 /\ requests = 0
          /\ issues = 0
  /\ IF part = "hydrates" THEN H!Init
     ELSE pc = 0 /\ slot = 0 /\ hydrateJob = 0 /\ orphan = 0 /\ lease = 0
          /\ hydrateJar = 0 /\ tar = 0 /\ chunks = 0 /\ pipe = 0 /\ shut = 0
          /\ cut = 0 /\ outcome = 0 /\ slots = 0 /\ leases = 0 /\ locked = 0
          /\ publishes = 0 /\ unbegun = 0
  /\ IF part = "spools" THEN S!Init
     ELSE caller = 0 /\ spoolJob = 0 /\ heir = 0 /\ disposals = 0 /\ file = 0
          /\ kept = 0

AllNext ==
  \/ part = "objects" /\ Next /\ UNCHANGED <<part, downloadVars, hydrateVars,
     spoolVars>>
  \/ part = "downloads" /\ D!Next /\ UNCHANGED <<part, vars, hydrateVars, spoolVars>>
  \/ part = "hydrates" /\ H!Next /\ UNCHANGED <<part, vars, downloadVars, spoolVars>>
  \/ part = "spools" /\ S!Next /\ UNCHANGED <<part, vars, downloadVars, hydrateVars>>

\* Of the edit, the failed call or restart, and the sweep of a prefix that a behaviour
\* may have, two at most meet.
TwoOfThree == part = "objects" => edits + faults + sweeps <= 2

allVars == <<part, vars, downloadVars, hydrateVars, spoolVars>>
AllSpec == AllInit /\ [][AllNext]_allVars

-----------------------------------------------------------------------------
\* A Worker that holds a generation as high as the store's holds the live world, the
\* prefix that is live or leased stays whole beside reclaims and sweeps, and no
\* half-deleted working set becomes a server's final archive (object_store.py).
ObjectsKept == SkipSafe /\ PrefixesWhole /\ FinalWhole

\* However its credentials are combined, retried and resumed, a download is let in only
\* for so long after the session's token was shown for that resource
\* (verify_resource_scoped), and what arrives is the beginning, and in the end the
\* whole, of one published generation (suffix_range, the leased view).  A hydrate, which
\* is whole too when it ends well, leaves no lease, no slot taken and no spool on disk,
\* wherever it is cancelled (_acquire_off_loop, _tar_stream, _run_spool_writer).
TransfersSound ==
  /\ part = "downloads" => D!CredentialsExpire /\ D!DownloadsWhole
  /\ part = "hydrates" => H!TransfersReturn
  /\ part = "spools" => S!SpoolsGone
==============================================================================
