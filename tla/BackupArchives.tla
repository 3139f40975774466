--------------------------- MODULE BackupArchives ---------------------------
(***************************************************************************)
(* What is inside a backup's archive: the check of an uploaded one, the    *)
(* archive each backend packs from a working set, and the two walks over   *)
(* its members that the backends' restores and health checks make.  Its    *)
(* bytes are read back whole here (GzipProbe has the reading).             *)
(*                                                                         *)
(* A name is the sequence of its components, "/" first if it is absolute;  *)
(* a member is a file, a directory or a link.                              *)
(***************************************************************************)
EXTENDS Naturals, Sequences, SequencesExt

CONSTANTS
  MAX_ARCHIVE_ENTRIES,
  MAX_DECOMPRESSED_BYTES \* the cap of the upload and of both restores

Backslash == "x\\.."     \* one component, two for the upload's check
Names == {<<"w">>, <<"w", "v">>, <<".", "w">>, <<"w", ".">>, <<".">>, <<"x", "..", "w">>, <<"/", "w">>, <<Backslash>>,
          <<"server.properties">>, <<"server.properties", "w">>, <<"marker">>, <<".", "marker", "w">>}
Members == [name: Names, type: {"file"}, size: {1}, torn: {FALSE}]
             \cup [name: {<<"w">>, <<"w", "v">>}, type: {"file"}, size: {2}, torn: BOOLEAN]
             \cup [name: Names, type: {"dir", "link"}, size: {0}, torn: {FALSE}]

VARIABLES
  archive,    \* the members, in order
  origin,     \* "upload": being sent; "accepted": stored; "old": stored before the
              \* checks; "packed": written by a backend; "refused"
  restored    \* per backend what the restore made of it, "none" before

vars == <<archive, origin, restored>>

-----------------------------------------------------------------------------
(* Names *)

parts(name) == SelectSeq(name, LAMBDA c: c # ".")
is_absolute(name) == name[1] = "/"

refuse_unrestorable_member(m) ==
  \/ m.type = "link"
  \/ is_absolute(m.name) \/ Contains(parts(m.name), "..")

is_reserved_root_member(name) == parts(name) # <<>> /\ parts(name)[1] = "marker"

is_unsafe_member_name(name) == is_absolute(name) \/ Contains(name, "..") \/ Contains(name, Backslash)

refuse_dir_at_root_properties(dir) == dir # <<>> /\ dir[1] = "server.properties"
refuse_reserved_root_name(name) == is_reserved_root_member(name)

-----------------------------------------------------------------------------
(* _validate_backup_archive *)

Bytes(ms) == FoldLeft(LAMBDA n, m: n + m.size, 0, ms)
drain_capped(ms) == Bytes(ms) <= MAX_DECOMPRESSED_BYTES

validate_backup_archive(ms) ==
  /\ Len(ms) <= MAX_ARCHIVE_ENTRIES
  /\ \A i \in 1..Len(ms):
       LET m == ms[i] IN
       /\ m.type # "link"
       /\ ~is_unsafe_member_name(m.name)
       /\ ~refuse_dir_at_root_properties(IF m.type = "dir" THEN parts(m.name) ELSE IF parts(m.name) = <<>> THEN <<>> ELSE Front(parts(m.name)))
       /\ ~refuse_reserved_root_name(m.name)
  /\ drain_capped(ms)

-----------------------------------------------------------------------------
(* Restore, per backend *)

Key(m) == [name |-> m.name, size |-> m.size, torn |-> m.torn]
Lands(tree, name, m) == {e \in tree: e.name # name} \cup {[Key(m) EXCEPT !.name = name]}
Start == [verdict |-> "restored", total |-> 0, tree |-> {}, dirs |-> {}]

\* What stands in the way of a file, or a directory, on a file system.
Blocked(acc, name, type) ==
  \/ \E e \in acc.tree: IsStrictPrefix(e.name, name) \/ (type = "dir" /\ e.name = name)
  \/ type = "file" /\ name \in acc.dirs
Above(name) == {SubSeq(name, 1, n): n \in 0..(Len(name) - 1)}

extract_member_capped(acc, m, name) ==
  IF Blocked(acc, name, m.type) THEN [acc EXCEPT !.verdict = "fault"]
  ELSE IF m.type = "dir" THEN [acc EXCEPT !.dirs = @ \cup Above(name) \cup {name}]
  ELSE IF acc.total + m.size > MAX_DECOMPRESSED_BYTES THEN [acc EXCEPT !.verdict = "too_large"]
  ELSE [acc EXCEPT !.total = @ + m.size, !.dirs = @ \cup Above(name), !.tree = Lands(@, name, m)]

extract_tar_gz_into(ms) ==
  FoldLeft(LAMBDA acc, m:
             IF acc.verdict # "restored" THEN acc
             ELSE IF refuse_unrestorable_member(m) THEN [acc EXCEPT !.verdict = "unreadable"]
             ELSE IF is_reserved_root_member(parts(m.name)) THEN acc
             ELSE extract_member_capped(acc, m, parts(m.name)),
           Start, ms)

\* Members are stored under their names as they are; directories are left out.
archive_file_member_streams(ms) ==
  FoldLeft(LAMBDA acc, m:
             IF acc.verdict # "restored" THEN acc
             ELSE IF refuse_unrestorable_member(m) THEN [acc EXCEPT !.verdict = "unreadable"]
             ELSE IF is_reserved_root_member(m.name) \/ m.type # "file" THEN acc
             ELSE IF acc.total + m.size > MAX_DECOMPRESSED_BYTES THEN [acc EXCEPT !.verdict = "too_large"]
             ELSE [acc EXCEPT !.total = @ + m.size, !.tree = Lands(@, m.name, m)],
           Start, ms)

Walk(backend, ms) == IF backend = "fs" THEN extract_tar_gz_into(ms) ELSE archive_file_member_streams(ms)

\* A torn region file refuses the restore unless it is forced.
check_working_set(acc) == \A e \in acc.tree: ~e.torn
Report(acc) == IF acc.verdict = "restored" /\ ~check_working_set(acc) THEN "corrupt" ELSE acc.verdict

restore_backup(backend) ==
  /\ origin \in {"accepted", "old", "packed"}
  /\ restored[backend].verdict = "none"
  /\ restored' = [restored EXCEPT ![backend] = [verdict |-> Report(Walk(backend, archive)), tree |-> Walk(backend, archive).tree]]
  /\ UNCHANGED <<archive, origin>>

\* The file system's looks into the region files; the object store's only drains
\* the members.
check_backup_health(backend) == IF backend = "fs" THEN Report(Walk("fs", archive)) ELSE Walk("object", archive).verdict

-----------------------------------------------------------------------------
(* Where archives come from *)

Send(m) ==
  /\ origin = "upload" /\ Len(archive) <= MAX_ARCHIVE_ENTRIES
  /\ archive' = Append(archive, m) /\ UNCHANGED <<origin, restored>>

UploadBackup ==
  /\ origin = "upload" /\ archive # <<>>
  /\ origin' = IF validate_backup_archive(archive) THEN "accepted" ELSE "refused"
  /\ UNCHANGED <<archive, restored>>

\* An archive stored before the checks, whatever it holds.
StoredBefore == origin = "upload" /\ archive # <<>> /\ origin' = "old" /\ UNCHANGED <<archive, restored>>

\* A hard link goes into the archive as the file it is, a symbolic link not at all.
add_plain(ms) ==
  LET hard(m) == IF m.type = "link" /\ m.name = <<"w">> THEN [m EXCEPT !.type = "file", !.size = 1] ELSE m
  IN SelectSeq([i \in 1..Len(ms) |-> hard(ms[i])], LAMBDA m: m.type # "link")

\* A working set on disk, links from before the refusal included: <<"w">> stands for
\* a hard link, <<"w", "v">> for a symbolic one.
OnDisk(m) == m.name \in {<<"w">>, <<"w", "v">>, <<"server.properties">>, <<"marker">>} /\ m.type # "dir"
Collide(m, n) == m.name = n.name \/ IsStrictPrefix(m.name, n.name) \/ IsStrictPrefix(n.name, m.name)

create_backup_from_current ==
  /\ origin = "upload"
  /\ \A i \in 1..Len(archive): OnDisk(archive[i]) /\ ~archive[i].torn /\ \A j \in 1..(i - 1): ~Collide(archive[i], archive[j])
  /\ drain_capped(add_plain(archive))
  /\ archive' = add_plain(archive) /\ origin' = "packed" /\ UNCHANGED restored

-----------------------------------------------------------------------------

Init == archive = <<>> /\ origin = "upload" /\ restored = [b \in {"fs", "object"} |-> [verdict |-> "none", tree |-> {}]]

Next ==
  \/ \E m \in Members: Send(m)
  \/ UploadBackup
  \/ StoredBefore
  \/ create_backup_from_current
  \/ \E b \in {"fs", "object"}: restore_backup(b)

Spec == Init /\ [][Next]_vars

\* Archives a tar of a directory can be: no member stands where another needs a
\* directory, and none is named through ".".
Ordinary ==
  \A i, j \in 1..Len(archive):
    LET m == archive[i] n == archive[j] IN
    /\ parts(m.name) = m.name
    /\ i # j => m.name # n.name
    /\ m.type # "dir" => ~IsStrictPrefix(m.name, n.name)

Done(b) == restored[b].verdict # "none"

\* An upload that is accepted, and an archive a backend packed, can be restored on
\* either backend (backups.py _validate_backup_archive, fs.py _write_tar_gz), where a
\* tar of a directory becomes the same files; whatever is stored, a backend's health
\* check refuses what its restore refuses (archive.py, the member rule of #3550).
ArchivesRestore ==
  /\ \A b \in {"fs", "object"}: Done(b) =>
       /\ origin # "old" /\ Ordinary => restored[b].verdict \in {"restored", "corrupt"}
       /\ LET h == check_backup_health(b) IN
          IF b = "fs" THEN h = restored[b].verdict ELSE h # "restored" <=> restored[b].verdict \notin {"restored", "corrupt"}
  /\ Done("fs") /\ Done("object") /\ Ordinary => restored["fs"] = restored["object"]
=============================================================================
