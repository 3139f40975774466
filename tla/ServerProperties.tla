--------------------------- MODULE ServerProperties ---------------------------
(* Reading and rewriting server.properties                                    *)
(* (servers/domain/server_properties.py).                                     *)
(*                                                                            *)
(* A file is a sequence of natural lines and whether the last one ends in a   *)
(* newline.  A line holds key=value, only "=", nothing, or a comment, and may *)
(* end in a backslash: "lone" with one is the lone backslash, without one the *)
(* blank line.  Spelling (escapes, separators, blanks) is left out: what is   *)
(* kept is which lines make one logical line, which is where a rewrite can    *)
(* lose a property.  A value is the sequence of the pieces it is joined from. *)
EXTENDS Integers, SequencesExt

CONSTANT MaxLines   \* bound on the lines of the file a run starts from

VARIABLES
  file,    \* the file
  before,  \* history: the file the last operation rewrote
  op       \* history: the last operation

vars == <<file, before, op>>

Managed == {"server-port", "rcon.password", "resource-pack"}
Keys == Managed \cup {"motd"}
Line == [text: {"prop"}, key: Keys, val: {"", "old"}, cont: BOOLEAN]
        \cup [text: {"lone", "note"}, key: {""}, val: {""}, cont: BOOLEAN]

Text(k, v) == [text |-> "prop", key |-> k, val |-> v, cont |-> FALSE]
Lone == [text |-> "lone", key |-> "", val |-> "", cont |-> FALSE]
Equals == [text |-> "eq", key |-> "", val |-> "", cont |-> FALSE]
Empty == [lines |-> <<>>, newline |-> FALSE]
Files == [lines: BoundedSeq(Line, MaxLines), newline: BOOLEAN]

\* Content without its final newline has no line after its last newline.
Wellformed(f) == IF f.lines = <<>> THEN ~f.newline ELSE f.newline \/ Last(f.lines) # Lone

-----------------------------------------------------------------------------
(* The parser *)

IsLoneBackslash(l) == l.text = "lone" /\ l.cont

\* What a line adds to a value that continues onto it.
Piece(l) == CASE l.text = "prop" -> <<l.key, "=">> \o (IF l.val = "" THEN <<>> ELSE <<l.val>>)
              [] l.text = "note" -> <<"#">>
              [] l.text = "eq" -> <<"=">>
              [] OTHER -> <<>>
Value(l) == IF l.val = "" THEN <<>> ELSE <<l.val>>

\* The line the logical line at i starts on: past a run of lone backslashes,
\* unless that run is the end of the file.
TextStart(ls, i) ==
  LET past == {j \in i..Len(ls): ~IsLoneBackslash(ls[j]) /\ \A k \in i..(j - 1): IsLoneBackslash(ls[k])}
  IN  IF past = {} THEN Len(ls) ELSE CHOOSE j \in past: TRUE

\* The last natural line of the logical line whose text starts at j.
match_end(ls, j) ==
  LET ends == {k \in j..Len(ls): ~ls[k].cont /\ \A n \in j..(k - 1): ls[n].cont}
  IN  IF ends = {} THEN Len(ls) ELSE CHOOSE k \in ends: TRUE

Skipped(l) == l.text = "note" \/ l = Lone

\* The logical line that starts at line i: its property, if it is one, and the
\* line after it.
LogicalLine(ls, i) ==
  LET j == TextStart(ls, i)
      e == IF Skipped(ls[j]) THEN j ELSE match_end(ls, j)
  IN  [prop |-> ~Skipped(ls[j]), key |-> ls[j].key, start |-> i, end |-> e + 1,
       value |-> Value(ls[j]) \o FlattenSeq([n \in 1..(e - j) |-> Piece(ls[j + n])])]

\* Defect: every natural line is a logical one.
ParseOfNaturalLines(f) ==
  LET named == {i \in DOMAIN f.lines: f.lines[i].text = "prop"}
      at == SetToSortSeq(named, <)
  IN  [n \in DOMAIN at |->
         [prop |-> TRUE, key |-> f.lines[at[n]].key, value |-> Value(f.lines[at[n]]),
          start |-> at[n], end |-> at[n] + 1]]

parse(f) ==
  LET ls == f.lines
      From[i \in 1..(Len(ls) + 1)] ==
        IF i > Len(ls) THEN <<>>
        ELSE LET line == LogicalLine(ls, i)
             IN  (IF line.prop THEN <<line>> ELSE <<>>) \o From[line.end]
  IN  From[1]

values_in(props, k) ==
  LET of == SelectSeq(props, LAMBDA p: p.key = k) IN [i \in 1..Len(of) |-> of[i].value]
raw_values(f, k) == values_in(parse(f), k)

\* The guard of every write a user makes: the managed keys whose values differ.
changed_platform_managed_keys(current, incoming) ==
  LET old == parse(current)
      new == parse(incoming)
  IN  {k \in Managed: values_in(old, k) # values_in(new, k)}

-----------------------------------------------------------------------------
(* The rewrites *)

normalize(f) == IF f.lines = <<>> THEN [lines |-> <<Lone>>, newline |-> TRUE]
                 ELSE [f EXCEPT !.newline = TRUE]

\* Each property whose key is in keys loses its lines; the first one of a key in
\* values gets the key's canonical line in their place.
Spliced(f, props, values, keys) ==
  LET ls == f.lines
      At(i) == {p \in ToSet(props): p.start = i /\ p.key \in keys}
      First(p) == /\ p.key \in DOMAIN values
                  /\ \A q \in ToSet(props): q.key = p.key => p.start <= q.start
      From[i \in 1..(Len(ls) + 1)] ==
        IF i > Len(ls) THEN <<>>
        ELSE IF At(i) = {} THEN <<ls[i]>> \o From[i + 1]
        ELSE LET p == CHOOSE p \in At(i): TRUE
             IN  (IF First(p) THEN <<Text(p.key, values[p.key])>> ELSE <<>>) \o From[p.end]
  IN  From[1]

\* Whether the rewrite took the last lines of the file.
TailTaken(f, props, keys) == \E p \in ToSet(props): p.key \in keys /\ p.end = Len(f.lines) + 1

KeptNewline(f, props, keys) == f.newline \/ TailTaken(f, props, keys)

ends_in_dangling_continuation(f, props) ==
  /\ props # <<>> /\ Last(props).end = Len(f.lines) + 1
  /\ Last(f.lines).cont

continuation_end(f, p) ==
  IF \A i \in p.start..(p.end - 1): IsLoneBackslash(f.lines[i]) THEN Equals ELSE Lone

\* Order in which apply_platform_properties lists its values.
InOrder(keys) == SelectSeq(<<"server-port", "rcon.password", "resource-pack", "motd">>, LAMBDA k: k \in keys)

rewrite(f, values, cleared) ==
  LET props == parse(f)
      keys == DOMAIN values \cup cleared
      out == Spliced(f, props, values, keys)
      appended == InOrder({k \in DOMAIN values: \A p \in ToSet(props): p.key # k})
      ended == IF ~TailTaken(f, props, keys) /\ ends_in_dangling_continuation(f, props)
               THEN <<continuation_end(f, Last(props))>> ELSE <<>>
  IN  IF appended = <<>>
      THEN [lines |-> out, newline |-> out # <<>> /\ KeptNewline(f, props, keys)]
      ELSE [lines |-> out \o ended \o [i \in 1..Len(appended) |-> Text(appended[i], values[appended[i]])],
            newline |-> TRUE]

\* The append of one key looks only for the newline.
set_property(f, k, v) ==
  LET props == parse(f)
  IN  IF \A p \in ToSet(props): p.key # k
      THEN [lines |-> Append(f.lines, Text(k, v)), newline |-> TRUE]
      ELSE normalize([lines |-> Spliced(f, props, k :> v, {k}), newline |-> TRUE])

remove_keys(f, keys) == normalize(rewrite(f, <<>>, keys))

clear_resource_pack_properties(f) == remove_keys(f, {"resource-pack"})

\* A password the file has is kept.  pack: "" when none is assigned.
apply_platform_properties(f, port, password, pack) ==
  LET passwords == raw_values(f, "rcon.password")
      kept == passwords # <<>> /\ Last(passwords) # <<>>
  IN  normalize(rewrite(f,
        ("server-port" :> port)
          @@ (IF kept THEN <<>> ELSE "rcon.password" :> password)
          @@ (IF pack = "" THEN <<>> ELSE "resource-pack" :> pack),
        IF pack = "" THEN {"resource-pack"} ELSE {}))

-----------------------------------------------------------------------------
Init ==
  /\ file \in {f \in Files: Wellformed(f)}
  /\ before = Empty
  /\ op = [name |-> "none"]

Applied(new, what) == op.name = "none" /\ file' = new /\ before' = file /\ op' = what

ApplyPlatform ==
  \E pack \in {"", "new"}:
    Applied(apply_platform_properties(file, "new", "new", pack), [name |-> "apply", pack |-> pack])

RemoveKeys ==
  \E k \in Keys \ {"resource-pack"}: Applied(remove_keys(file, {k}), [name |-> "remove", key |-> k])

ClearPack ==
  Applied(clear_resource_pack_properties(file), [name |-> "remove", key |-> "resource-pack"])

SetOne == \E k \in Keys: Applied(set_property(file, k, "new"), [name |-> "set", key |-> k])

Finished == op.name # "none" /\ UNCHANGED vars

Next == ApplyPlatform \/ RemoveKeys \/ ClearPack \/ SetOne \/ Finished

Spec == Init /\ [][Next]_vars

-----------------------------------------------------------------------------
(* Reference: what java.util.Properties.load reads, one natural line at a     *)
(* time: a line is the start of a logical one while nothing has been read.    *)

LoadStep(s, l) ==
  LET read == IF s.open THEN [s EXCEPT !.value = @ \o Piece(l), !.lone = FALSE]
              ELSE IF l.text \in {"prop", "eq"}
                   THEN [s EXCEPT !.open = TRUE, !.key = l.key, !.value = Value(l), !.lone = FALSE]
                   ELSE [s EXCEPT !.lone = IsLoneBackslash(l)]
  IN  IF read.open /\ ~l.cont
      THEN [read EXCEPT !.open = FALSE, !.pairs = Append(@, <<read.key, read.value>>)]
      ELSE read

Load(f) ==
  LET end == FoldLeft(LoadStep, [pairs |-> <<>>, open |-> FALSE, key |-> "", value |-> <<>>, lone |-> FALSE], f.lines)
  IN  IF end.open THEN Append(end.pairs, <<end.key, end.value>>)
      ELSE IF end.lone THEN Append(end.pairs, <<"", <<>>>>)
      ELSE end.pairs

Among(pairs, k) ==
  LET of == SelectSeq(pairs, LAMBDA pair: pair[1] = k) IN [i \in 1..Len(of) |-> of[i][2]]
Loaded(f, k) == Among(Load(f), k)

Untouched(keys) ==
  LET now == Load(file)
      was == Load(before)
  IN  \A k \in (Keys \cup {""}) \ keys: Among(now, k) = Among(was, k)

-----------------------------------------------------------------------------
(* Properties *)

\* The guard sees what the server will read: parse finds exactly the values
\* Properties.load reads, so no spelling over several lines hides a change, and the
\* guard names the managed keys that a rewrite changes for the server.
GuardReadsWhatJavaReads ==
  LET now == Load(file)
      was == Load(before)
      props == parse(file)
  IN  /\ \A k \in Keys \cup {""}: values_in(props, k) = Among(now, k)
      /\ op.name # "none" =>
           changed_platform_managed_keys(before, file)
             = {k \in Managed: Among(was, k) # Among(now, k)}

\* After apply_platform_properties or remove_keys the server reads each key
\* written exactly once and the others as before, whatever the file ended in.
RewritesRead ==
  /\ op.name = "apply" =>
       /\ Loaded(file, "server-port") = <<<<"new">>>>
       /\ Loaded(file, "resource-pack") = IF op.pack = "" THEN <<>> ELSE <<<<"new">>>>
       /\ LET had == Loaded(before, "rcon.password")
          IN  IF had # <<>> /\ Last(had) # <<>> THEN Loaded(file, "rcon.password") = had
              ELSE Loaded(file, "rcon.password") = <<<<"new">>>>
       /\ Untouched(Managed)
  /\ op.name = "remove" => Loaded(file, op.key) = <<>> /\ Untouched({op.key})

\* set_property is documented as "content with key set to value, canonically and
\* exactly once ... Other lines and their order are preserved".
SetsExactlyOnce ==
  op.name = "set" => Loaded(file, op.key) = <<<<"new">>>> /\ Untouched({op.key})
=============================================================================
