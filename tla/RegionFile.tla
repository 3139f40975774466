----------------------------- MODULE RegionFile -----------------------------
(***************************************************************************)
(* A region file of a world, and the structural check of it that guards    *)
(* every publish and restore.  The game saves chunks into free sectors and *)
(* pads the file only when it closes it; a crash cuts it anywhere or spoils*)
(* a header entry.                                                         *)
(***************************************************************************)
EXTENDS Naturals, FiniteSets

CONSTANTS
  SECTOR,        \* bytes of a sector, at least the chunk prefix
  Chunks,
  MaxSectors,    \* bound: sectors of a file
  MaxLength      \* bound: declared length of a chunk

CHUNK_PREFIX == 5
HEADER_SECTORS == 2
COMPRESSION_SCHEMES == {1, 2}
EXTERNAL_FLAG == 8
Absent == [offset |-> 0, sector_count |-> 0]

VARIABLES
  size,          \* bytes
  location,      \* per chunk: its entry of the location table
  prefix,        \* per chunk: the length and compression at the start of its sectors
  damaged,       \* a fault has left a chunk, or the header, that cannot be read
  crashed        \* no more saves

vars == <<size, location, prefix, damaged, crashed>>

Present(c) == location[c] # Absent
Ceil(n) == (n + SECTOR - 1) \div SECTOR
Sectors(c) == location[c].offset..(location[c].offset + location[c].sector_count - 1)
Biggest(a, b) == IF a > b THEN a ELSE b

-----------------------------------------------------------------------------
(* _check_region *)

scheme(compression) == IF compression >= EXTERNAL_FLAG THEN compression - EXTERNAL_FLAG ELSE compression

\* Defect: the end of the file counted in whole sectors.
WholeSectors(offset, length) == offset * SECTOR + 4 + length <= (size \div SECTOR) * SECTOR
WithinFile(offset, length) == offset * SECTOR + 4 + length <= size

check_chunk(c) ==
  LET e == location[c] p == prefix[c] IN
  IF e = Absent THEN "none"
  ELSE IF e.offset < HEADER_SECTORS \/ e.sector_count = 0 \/ e.offset * SECTOR >= size THEN "sector_out_of_bounds"
  ELSE IF size - e.offset * SECTOR < CHUNK_PREFIX THEN "truncated_chunk"
  ELSE IF scheme(p.compression) \notin COMPRESSION_SCHEMES THEN "bad_compression"
  ELSE IF p.length < 1 \/ p.length > e.sector_count * SECTOR - 4 \/ ~WithinFile(e.offset, p.length) THEN "truncated_chunk"
  ELSE "none"

check_region ==
  IF size = 0 THEN "none"
  ELSE IF size < HEADER_SECTORS * SECTOR THEN "not_4096_aligned"
  ELSE LET bad == {c \in Chunks: check_chunk(c) # "none"}
       IN IF bad = {} THEN "none" ELSE check_chunk(CHOOSE c \in bad: \A d \in bad: c <= d)

-----------------------------------------------------------------------------
(* The game and its faults, which the check's callers meet *)

Place(c, offset, count) == offset >= HEADER_SECTORS /\ offset + count <= MaxSectors
  /\ \A d \in {x \in Chunks \ {c}: Present(x)}: (offset..(offset + count - 1)) \cap Sectors(d) = {}

Save(c) ==
  /\ ~crashed
  /\ \E offset \in HEADER_SECTORS..MaxSectors, length \in 1..MaxLength, compression \in COMPRESSION_SCHEMES \cup {EXTERNAL_FLAG + 1}:
       LET count == Ceil(4 + length) IN
       /\ Place(c, offset, count)
       /\ location' = [location EXCEPT ![c] = [offset |-> offset, sector_count |-> count]]
       /\ prefix' = [prefix EXCEPT ![c] = [length |-> length, compression |-> compression]]
       /\ size' = Biggest(Biggest(size, HEADER_SECTORS * SECTOR), offset * SECTOR + 4 + length)
  /\ UNCHANGED <<damaged, crashed>>

Pad == ~crashed /\ size' = Ceil(size) * SECTOR /\ UNCHANGED <<location, prefix, damaged, crashed>>

\* The file ends at n: what reaches past it is gone.  Nothing tells a file cut to
\* nothing from one that was never written.
Cut ==
  \E n \in 0..(size - 1):
    /\ size > 0 /\ size' = n /\ crashed' = TRUE
    /\ damaged' = (n # 0 /\ (damaged \/ n < HEADER_SECTORS * SECTOR
                    \/ \E c \in Chunks: Present(c) /\ location[c].offset * SECTOR + 4 + prefix[c].length > n))
    /\ UNCHANGED <<location, prefix>>

\* A header entry or a chunk's prefix written over: an offset inside the header or
\* past the end, no sectors, fewer than the chunk fills, an unknown compression, an
\* impossible length.
Spoil(c) ==
  /\ size >= HEADER_SECTORS * SECTOR /\ Present(c) /\ crashed' = TRUE /\ damaged' = TRUE
  /\ \/ \E o \in {1, MaxSectors + 1}: location' = [location EXCEPT ![c].offset = o] /\ UNCHANGED prefix
     \/ \E k \in 0..(Ceil(4 + prefix[c].length) - 1): location' = [location EXCEPT ![c].sector_count = k] /\ UNCHANGED prefix
     \/ \E q \in {0, 3, EXTERNAL_FLAG}: prefix' = [prefix EXCEPT ![c].compression = q] /\ UNCHANGED location
     \/ \E l \in {0, location[c].sector_count * SECTOR - 3}: prefix' = [prefix EXCEPT ![c].length = l] /\ UNCHANGED location
  /\ UNCHANGED size

-----------------------------------------------------------------------------

Init ==
  /\ size = 0 /\ location = [c \in Chunks |-> Absent] /\ prefix = [c \in Chunks |-> [length |-> 0, compression |-> 0]]
  /\ damaged = FALSE /\ crashed = FALSE

Next ==
  \/ \E c \in Chunks: Save(c)
  \/ Pad
  \/ Cut
  \/ ~crashed /\ \E c \in Chunks: Spoil(c)

Spec == Init /\ [][Next]_vars

\* The check (region.py _check_region) flags a region file exactly when a crash has
\* left a chunk or the header unreadable: an unpadded tail, and any layout the game
\* writes, passes, and no cut short of the whole file does unless it took only
\* padding.
TornFound == (check_region # "none") = damaged
=============================================================================
