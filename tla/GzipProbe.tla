----------------------------- MODULE GzipProbe -----------------------------
(***************************************************************************)
(* The readability probe of a backup the object store holds: the archive's *)
(* bytes are fed to a gzip decompressor as they come, in chunks that split *)
(* them anywhere, and a body that ends early is read a second time.        *)
(*                                                                         *)
(* A byte stream is a sequence of parts: "m" and "a", the two bytes of the *)
(* gzip signature, "d" the data, "t" a trailer, "r" a rotted trailer, "p"  *)
(* padding.                                                                *)
(***************************************************************************)
EXTENDS Naturals, Sequences

CONSTANTS MaxBlips   \* bound: reads the store breaks off though it has the bytes

Member == <<"m", "a", "d", "t">>
Rotted == <<"m", "a", "d", "r">>
Streams ==
  {Rotted, <<"m", "a", "d">>, <<"m", "a">>, <<"p", "p">>}
    \cup {Member \o tail: tail \in {<<>>, <<"p">>, <<"m">>, <<"p", "m", "a">>, <<"m", "p">>, <<"m", "p", "p">>, Member, Member \o <<"p">>,
                                   Rotted, <<"m", "a">>, <<"m", "a", "d">>, Member \o Rotted}}

VARIABLES
  stream, kept,   \* the archive as written; how much of it the store still has
  step,           \* "first" or "second" read, or "done"
  read, chunk,    \* how much was read; what feed has yet to look at
  stage,          \* the decompressor: parts of the member taken, 4 at its end
  padding, undecided,
  first_end,      \* where the first read ended
  blips, verdict

vars == <<stream, kept, step, read, chunk, stage, padding, undecided, first_end, blips, verdict>>
object == <<stream, kept>>

declared == Len(stream)
eof == stage = 4
Fresh == read' = 0 /\ chunk' = <<>> /\ stage' = 0 /\ padding' = FALSE /\ undecided' = <<>>
Judge(v) == verdict' = v /\ step' = "done" /\ UNCHANGED <<object, read, chunk, stage, padding, undecided, first_end, blips>>

-----------------------------------------------------------------------------
(* GzipReadProbe.feed: a chunk, then one turn of its loop at a time *)

Receive(n) ==
  /\ step # "done" /\ chunk = <<>> /\ read + n <= kept
  /\ read' = read + n
  /\ chunk' = IF padding THEN <<>> ELSE undecided \o SubSeq(stream, read + 1, read + n)
  /\ undecided' = IF padding THEN undecided ELSE <<>>
  /\ UNCHANGED <<object, step, stage, padding, first_end, blips, verdict>>

HoldBack == chunk' = <<>> /\ undecided' = chunk /\ UNCHANGED <<stage, padding>>

\* After a member: another one if the signature says so, else padding.
Boundary ==
  IF Len(chunk) < 2 THEN HoldBack
  ELSE IF SubSeq(chunk, 1, 2) = <<"m", "a">> THEN stage' = 0 /\ UNCHANGED <<chunk, padding, undecided>>
  ELSE padding' = TRUE /\ chunk' = <<>> /\ UNCHANGED <<stage, undecided>>

Decompress == stage' = stage + 1 /\ chunk' = Tail(chunk) /\ UNCHANGED <<padding, undecided>>

feed ==
  /\ step # "done" /\ chunk # <<>>
  /\ IF eof THEN Boundary /\ UNCHANGED <<object, step, read, first_end, blips, verdict>>
     ELSE IF Head(chunk) = Member[stage + 1] THEN Decompress /\ UNCHANGED <<object, step, read, first_end, blips, verdict>>
     ELSE Judge("unreadable")

finish == IF padding \/ undecided # <<>> \/ eof THEN "readable" ELSE "unreadable"

-----------------------------------------------------------------------------
(* check_backup_health: _probe_archive, and _reprobe_short_body *)

\* All the store has, or less.
BodyEnds ==
  /\ step # "done" /\ chunk = <<>>
  /\ \/ read = kept /\ UNCHANGED blips
     \/ read < kept /\ blips < MaxBlips /\ blips' = blips + 1

probe_archive == read = declared /\ BodyEnds /\ verdict' = finish /\ step' = "done"
  /\ UNCHANGED <<object, read, chunk, stage, padding, undecided, first_end>>

EndsShort == read < declared /\ BodyEnds

FirstShort ==
  /\ step = "first" /\ EndsShort
  /\ first_end' = read /\ step' = "second" /\ Fresh /\ UNCHANGED <<object, verdict>>

SamePlight(one, two) == (one > 0) = (two > 0)

reprobe_short_body ==
  /\ step = "second" /\ EndsShort /\ step' = "done"
  /\ verdict' = IF SamePlight(first_end, read) THEN "unreadable" ELSE "outage"
  /\ UNCHANGED <<object, read, chunk, stage, padding, undecided, first_end>>

-----------------------------------------------------------------------------

Init ==
  /\ stream \in Streams /\ kept \in 0..Len(stream)
  /\ step = "first" /\ read = 0 /\ chunk = <<>> /\ stage = 0 /\ padding = FALSE /\ undecided = <<>>
  /\ first_end = 0 /\ blips = 0 /\ verdict = "none"

Next ==
  \/ \E n \in 1..Len(stream): Receive(n)
  \/ feed
  \/ probe_archive
  \/ FirstShort
  \/ reprobe_short_body

Spec == Init /\ [][Next]_vars

\* Members one after the other, then nothing that announces another.
Sound(s) ==
  \E n \in 1..3:
    /\ Len(s) >= 4 * n /\ \A i \in 1..(4 * n): s[i] = Member[((i - 1) % 4) + 1]
    /\ Len(s) >= 4 * n + 2 => SubSeq(s, 4 * n + 1, 4 * n + 2) # <<"m", "a">>

\* However the bytes are split, the probe (archive.py GzipReadProbe, object_store.py
\* _probe_archive) calls readable exactly the archives that are: it never passes one
\* that is cut or rotted, and condemns a sound one only when the store broke off both
\* reads in the same way, never because it answered badly once.
ProbeJudges ==
  /\ verdict = "readable" => Sound(stream) /\ kept = declared
  /\ verdict = "unreadable" /\ Sound(stream) /\ kept = declared => blips = 2 /\ (first_end > 0 <=> read > 0)
  /\ verdict = "outage" => first_end < declared /\ read < declared /\ (kept = declared => blips = 2)
=============================================================================
