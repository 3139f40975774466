------------------------------ MODULE StorageMC ------------------------------
(* Small instances of the working-set store for TLC: the store on a file      *)
(* system with two Workers, one upload, one API-side writer and one reader;   *)
(* the scratch directories of a Worker; and the judges of what is stored, on  *)
(* backup archives, gzip streams and region files.  A behaviour is of one.    *)
EXTENDS WorkingSetStore, TLC

VARIABLES
  part,    \* the component this behaviour is of
  scratchTree, store, running, hold, hyd, fin, run, slotClaim, displaced, covered,
  lost,
  archive, origin, restored,
  stream, kept, step, read, chunk, stage, padding, undecided, first_end, blips,
  verdict,
  size, location, prefix, damaged, crashed

scratchVars == <<scratchTree, store, running, hold, hyd, fin, run, slotClaim,
  displaced, covered, lost>>
archiveVars == <<archive, origin, restored>>
gzipVars == <<stream, kept, step, read, chunk, stage, padding, undecided, first_end,
  blips, verdict>>
regionVars == <<size, location, prefix, damaged, crashed>>

Chunks == {1, 2}

S == INSTANCE WorkerScratch WITH tree <- scratchTree, MaxTree <- 4, MaxGen <- 2
B == INSTANCE BackupArchives WITH MAX_ARCHIVE_ENTRIES <- 2,
  MAX_DECOMPRESSED_BYTES <- 3
G == INSTANCE GzipProbe WITH MaxBlips <- 2
R == INSTANCE RegionFile WITH SECTOR <- 6, MaxSectors <- 5,
  MaxLength <- 8

\* The variables of a component that is not the one at work are put aside.
AllInit ==
  /\ part \in {"store", "scratch", "archives", "gzip", "region"}
  /\ Init
  /\ IF part = "scratch" THEN S!Init
     ELSE scratchTree = 0 /\ store = 0 /\ running = 0 /\ hold = 0 /\ hyd = 0
          /\ fin = 0 /\ run = 0 /\ slotClaim = 0 /\ displaced = 0 /\ covered = 0
          /\ lost = 0
  /\ IF part = "archives" THEN B!Init
     ELSE archive = 0 /\ origin = 0 /\ restored = 0
  /\ IF part = "gzip" THEN G!Init
     ELSE stream = 0 /\ kept = 0 /\ step = 0 /\ read = 0 /\ chunk = 0 /\ stage = 0
          /\ padding = 0 /\ undecided = 0 /\ first_end = 0 /\ blips = 0 /\ verdict = 0
  /\ IF part = "region" THEN R!Init
     ELSE size = 0 /\ location = 0 /\ prefix = 0 /\ damaged = 0 /\ crashed = 0

AllNext ==
  \/ part = "store" /\ Next /\ UNCHANGED <<part, scratchVars, archiveVars, gzipVars,
     regionVars>>
  \/ part = "scratch" /\ S!Next /\ UNCHANGED <<part, vars, archiveVars, gzipVars,
     regionVars>>
  \/ part = "archives" /\ B!Next /\ UNCHANGED <<part, vars, scratchVars, gzipVars,
     regionVars>>
  \/ part = "gzip" /\ G!Next /\ UNCHANGED <<part, vars, scratchVars, archiveVars,
     regionVars>>
  \/ part = "region" /\ R!Next /\ UNCHANGED <<part, vars, scratchVars, archiveVars,
     gzipVars>>

allVars == <<part, vars, scratchVars, archiveVars, gzipVars, regionVars>>
AllSpec == AllInit /\ [][AllNext]_allVars

WorkerSymmetry == Permutations(Workers)

\* A behaviour is not followed past the step at which a publish meets the sweep:
\* run store_swept is about what happens there.
BeforeRace == ~raced

-----------------------------------------------------------------------------
\* A directory's marker never claims a generation its contents do not descend from, so
\* a start never skips a hydrate it needs (#2284; generation.go).  And once a hydrate has
\* moved aside a world that no published pack covers, some moved world stays on disk: a
\* sweep removes only what a published pack covers, in every order of the hydrate and
\* the two snapshots' sweeps (#2278, #3112, #3118).
ScratchKept ==
  /\ [](part = "scratch" => S!MarkerHonest /\ S!RecoveryKept)
  /\ [][part = "scratch" => S!SweepsOnlySuperseded]_allVars

\* The judges of what is stored agree with what its reader makes of it: an upload that
\* is accepted, or an archive a backend packed, restores alike on both backends
\* (backups.py, archive.py); the gzip probe calls readable exactly the archives that
\* are, however the store's answers are cut (archive.py GzipReadProbe); and the region
\* check flags exactly the files in which a crash left a chunk torn (region.py).
JudgesRight ==
  /\ part = "archives" => B!ArchivesRestore
  /\ part = "gzip" => G!ProbeJudges
  /\ part = "region" => R!TornFound
==============================================================================
