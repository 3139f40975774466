------------------------ MODULE ServerLifecycleProofs ------------------------
(***************************************************************************)
(* Proofs about ServerLifecycle, for any workers, flows and bounds: the    *)
(* row holds its worker while a final snapshot uploads, and a stop is      *)
(* converged by one flow, which keeps its worker, whatever races happen;   *)
(* and if no stop is hasty and no revert late, no process is leaked.       *)
(*                                                                         *)
(* The first argument goes from the upload to the row.  What uploads is    *)
(* the snapshot at the head of the lane; a queued snapshot holds the row,  *)
(* since no flow but the one that sent it converges a stop until its       *)
(* answer is consumed; and that one waits for the answer or has given it   *)
(* up.  Hence every message that names a flow is awaited by it, and of     *)
(* each flow's messages, and of all snapshots, at most one is under way.   *)
(*                                                                         *)
(* The second goes from the process to the row.  Whatever runs, or is on   *)
(* its way to be started, is on the row's worker (Poise): so a flow places *)
(* a start, takes one back or clears the row only where nothing runs.      *)
(* Answers must then tell the truth about the process when they are read:  *)
(* a refused start left nothing behind, a confirmed stop left nothing      *)
(* running and no start is queued behind it (Wired).  And the row says     *)
(* that a process is gone only if the last status its worker sent, or the  *)
(* row itself, is about this process (Honest).                             *)
(***************************************************************************)
EXTENDS ServerLifecycle, FiniteSetTheorems, SequenceTheorems, TLAPS

-----------------------------------------------------------------------------
(* The inductive invariant.                                                  *)

\* The commands and results that name f, and those of a final snapshot.
Of(f) == {m \in CommandRecords \cup ResultRecords : m.flow = f}
Snapshots == {m \in CommandRecords \cup ResultRecords : m.op = "snapshot"}

\* s has an element in M, and not two.
Within(s, M) == \E i \in 1 .. Len(s) : s[i] \in M
Once(s, M) == \A i, j \in 1 .. Len(s) : s[i] \in M /\ s[j] \in M => i = j

\* Of the messages in M at most one is under way: a command in a lane or its result.
Single(M) ==
    /\ \A w \in Workers : Once(lane[w], M) /\ Once(uplink[w], M)
    /\ \A w, x \in Workers :
          /\ Within(lane[w], M) /\ Within(lane[x], M) => w = x
          /\ Within(uplink[w], M) /\ Within(uplink[x], M) => w = x
          /\ ~(Within(lane[w], M) /\ Within(uplink[x], M))
OneEach == (\A f \in Flows : Single(Of(f))) /\ Single(Snapshots)

\* fl awaits the result of op.
Awaits(fl, op) ==
    \/ fl.pc = "hydrating" /\ op = "hydrate"
    \/ fl.pc = "launching" /\ op = "start"
    \/ fl.pc = "stopping" /\ op = "stop"
    \/ fl.pc = "uploading" /\ op = "snapshot"

\* A message that names a flow is awaited by it, from that worker.
Expected(m, w) ==
    m.flow \in Flows => Awaits(flow[m.flow], m.op) /\ flow[m.flow].worker = w
AllExpected ==
    \A w \in Workers : /\ \A c \in Queued(w) : Expected(c, w)
                       /\ \A m \in Messages(w) : m.kind = "result" => Expected(m, w)

\* A stop is converged on the row of its worker, by one flow.
Converging(f) == flow[f].pc \in StopPcs
StopsHold == \A f \in Flows : Converging(f) => desired = "stopped" /\ assigned = flow[f].worker
OneStop == \A f, g \in Flows : Converging(f) /\ Converging(g) => f = g

\* A queued snapshot holds the row, and is the converging flow's if there is one; an
\* upload is the snapshot at the head of the lane.
SnapshotsHeld ==
    \A w \in Workers : \A c \in Queued(w) :
        c.op = "snapshot" => desired = "stopped" /\ assigned = w
SnapshotsOwned ==
    \A f \in Flows : Converging(f) => \A w \in Workers :
        /\ \A c \in Queued(w) : c.op = "snapshot" => c.flow = f
        /\ \A m \in Messages(w) : m.kind = "result" /\ m.op = "snapshot" => m.flow = f
UploadsHead ==
    \A w \in Workers : upload[w] => lane[w] # <<>> /\ Head(lane[w]).op = "snapshot"

LifecycleInv ==
    /\ TypeOK
    /\ OneEach /\ AllExpected
    /\ StopsHold /\ OneStop
    /\ SnapshotsHeld /\ SnapshotsOwned /\ UploadsHead

-----------------------------------------------------------------------------
(* Its proof.  What is done to a sequence, first.                            *)

\* But for status changes, the elements of t are some of s's, and what s has once t
\* has at most once.
Part(t, s) ==
    /\ Elems(t) \subseteq Elems(s) \cup StatusRecords
    /\ \A M : M \cap StatusRecords = {} =>
          (Within(t, M) => Within(s, M)) /\ (Once(s, M) => Once(t, M))

\* A command joins a lane.
LEMMA Appended ==
  ASSUME NEW S, NEW s \in Seq(S), NEW e \in S
  PROVE  /\ Append(s, e) \in Seq(S) /\ Elems(Append(s, e)) = Elems(s) \cup {e}
         /\ \A M : /\ Within(Append(s, e), M) <=> Within(s, M) \/ e \in M
                   /\ Once(s, M) /\ ~(Within(s, M) /\ e \in M) => Once(Append(s, e), M)
         /\ Append(s, e) # <<>>
         /\ s # <<>> => Head(Append(s, e)) = Head(s)
<1> DEFINE a == Append(s, e)
<1>1. a \in Seq(S) /\ Len(a) = Len(s) + 1 /\ a[Len(a)] = e /\ Len(s) \in Nat
      /\ \A i \in 1 .. Len(s) : a[i] = s[i]
  OBVIOUS
<1>2. 1 .. Len(a) = (1 .. Len(s)) \cup {Len(a)}
  BY <1>1
<1> HIDE DEF a
<1>3. Elems(a) = Elems(s) \cup {e}
  BY <1>1, <1>2 DEF Elems
<1>4. \A M : Within(a, M) <=> Within(s, M) \/ e \in M
  BY <1>1, <1>2 DEF Within
<1>5. \A M : Once(s, M) /\ ~(Within(s, M) /\ e \in M) => Once(a, M)
  BY <1>1, <1>2 DEF Within, Once
<1>6. a # <<>> /\ (s # <<>> => Head(a) = Head(s))
  <2>1. s # <<>> => 1 \in 1 .. Len(s)
    BY <1>1
  <2>2. a # <<>>
    BY <1>1
  <2> QED BY <1>1, <2>1, <2>2
<1> QED BY <1>1, <1>3, <1>4, <1>5, <1>6 DEF a

\* SequenceTheorems' facts about \o in one place.
LEMMA Concatenated ==
  ASSUME NEW S, NEW s \in Seq(S), NEW t \in Seq(S)
  PROVE  /\ s \o t \in Seq(S) /\ Len(s \o t) = Len(s) + Len(t)
         /\ Len(s) \in Nat /\ Len(t) \in Nat
         /\ \A i \in 1 .. Len(s) : (s \o t)[i] = s[i]
         /\ \A i \in 1 .. Len(t) : (s \o t)[Len(s) + i] = t[i]
  BY ConcatProperties

\* Messages join an uplink.
LEMMA Joined ==
  ASSUME NEW S, NEW s \in Seq(S), NEW t \in Seq(S)
  PROVE  /\ s \o t \in Seq(S) /\ Elems(s \o t) = Elems(s) \cup Elems(t)
         /\ \A M : /\ Within(s \o t, M) <=> Within(s, M) \/ Within(t, M)
                   /\ Once(s, M) /\ Once(t, M) /\ ~(Within(s, M) /\ Within(t, M))
                      => Once(s \o t, M)
<1> DEFINE a == s \o t
<1>1. a \in Seq(S) /\ Len(a) = Len(s) + Len(t) /\ Len(s) \in Nat /\ Len(t) \in Nat
      /\ (\A i \in 1 .. Len(s) : a[i] = s[i])
      /\ \A i \in 1 .. Len(t) : a[Len(s) + i] = t[i]
  BY Concatenated
<1> HIDE DEF a
<1>2. \A i \in 1 .. Len(a) : \/ i \in 1 .. Len(s) /\ a[i] = s[i]
                             \/ i - Len(s) \in 1 .. Len(t) /\ a[i] = t[i - Len(s)]
  <2> TAKE i \in 1 .. Len(a)
  <2>1. CASE i \in 1 .. Len(s)
    BY <1>1, <2>1
  <2>2. CASE i \notin 1 .. Len(s)
    <3>1. i - Len(s) \in 1 .. Len(t)
      BY <1>1, <2>2
    <3>2. a[Len(s) + (i - Len(s))] = t[i - Len(s)]
      BY <1>1, <3>1
    <3>3. Len(s) + (i - Len(s)) = i
      BY <1>1
    <3> QED BY <3>1, <3>2, <3>3
  <2> QED BY <2>1, <2>2
<1>3. (\A i \in 1 .. Len(s) : i \in 1 .. Len(a)) /\ \A i \in 1 .. Len(t) : Len(s) + i \in 1 .. Len(a)
  BY <1>1
<1>4. Elems(a) = Elems(s) \cup Elems(t)
  <2>1. ASSUME NEW i \in 1 .. Len(a) PROVE a[i] \in Elems(s) \cup Elems(t)
    BY <1>2 DEF Elems
  <2>2. ASSUME NEW i \in 1 .. Len(s) PROVE s[i] \in Elems(a)
    BY <1>1, <1>3 DEF Elems
  <2>3. ASSUME NEW i \in 1 .. Len(t) PROVE t[i] \in Elems(a)
    BY <1>1, <1>3 DEF Elems
  <2> QED BY <2>1, <2>2, <2>3 DEF Elems
<1>5. \A M : Within(a, M) <=> Within(s, M) \/ Within(t, M)
  BY <1>1, <1>2, <1>3 DEF Within
<1>6. ASSUME NEW M, Once(s, M), Once(t, M), ~(Within(s, M) /\ Within(t, M))
      PROVE  Once(a, M)
  <2> SUFFICES ASSUME NEW i \in 1 .. Len(a), NEW j \in 1 .. Len(a), a[i] \in M, a[j] \in M
               PROVE  i = j
    BY DEF Once
  <2>1. CASE Within(s, M)
    <3>1. i \in 1 .. Len(s) /\ j \in 1 .. Len(s) /\ s[i] \in M /\ s[j] \in M
      BY <1>2, <1>6, <2>1 DEF Within
    <3> QED BY <3>1, <1>6 DEF Once
  <2>2. CASE ~Within(s, M)
    <3>1. /\ i - Len(s) \in 1 .. Len(t) /\ j - Len(s) \in 1 .. Len(t)
          /\ t[i - Len(s)] \in M /\ t[j - Len(s)] \in M
      BY <1>2, <2>2 DEF Within
    <3>2. i - Len(s) = j - Len(s)
      BY <3>1, <1>6 DEF Once
    <3> QED BY <3>2, <1>1
  <2> QED BY <2>1, <2>2
<1> QED BY <1>1, <1>4, <1>5, <1>6 DEF a

\* The head leaves a lane.
LEMMA Shortened ==
  ASSUME NEW S, NEW s \in Seq(S), s # <<>>
  PROVE  /\ Tail(s) \in Seq(S) /\ Head(s) \in S /\ Head(s) \in Elems(s) /\ Part(Tail(s), s)
         /\ \A M : Head(s) \in M => Within(s, M) /\ (Once(s, M) => ~Within(Tail(s), M))
<1> DEFINE a == Tail(s)
<1>1. a \in Seq(S) /\ Len(s) \in Nat /\ Len(s) >= 1 /\ Len(a) = Len(s) - 1 /\ Head(s) = s[1]
      /\ \A i \in 1 .. Len(a) : a[i] = s[i + 1]
  BY HeadTailProperties
<1>2. \A i \in 1 .. Len(a) : i + 1 \in 1 .. Len(s) /\ i + 1 # 1 /\ i \in Int
  BY <1>1
<1>3. s[1] \in S
  BY <1>1
<1> HIDE DEF a
<1>4. Elems(a) \subseteq Elems(s) /\ Head(s) \in Elems(s)
  BY <1>1, <1>2 DEF Elems
<1>5. \A M : Within(a, M) => Within(s, M)
  BY <1>1, <1>2 DEF Within
<1>6. ASSUME NEW M, Once(s, M) PROVE Once(a, M)
  <2> SUFFICES ASSUME NEW i \in 1 .. Len(a), NEW j \in 1 .. Len(a), a[i] \in M, a[j] \in M
               PROVE  i = j
    BY DEF Once
  <2>1. i + 1 = j + 1
    BY <1>1, <1>2, <1>6 DEF Once
  <2> QED BY <2>1
<1>7. ASSUME NEW M, Head(s) \in M PROVE Within(s, M) /\ (Once(s, M) => ~Within(a, M))
  BY <1>1, <1>2, <1>7 DEF Within, Once
<1> QED BY <1>1, <1>3, <1>4, <1>5, <1>6, <1>7 DEF a, Part

\* An element is taken out.
LEMMA Taken ==
  ASSUME NEW S, NEW s \in Seq(S), NEW i \in 1 .. Len(s)
  PROVE  /\ Without(s, i) \in Seq(S) /\ s[i] \in S /\ s[i] \in Elems(s) /\ Part(Without(s, i), s)
         /\ \A M : s[i] \in M => Within(s, M) /\ (Once(s, M) => ~Within(Without(s, i), M))
         /\ i > 1 => Without(s, i) # <<>> /\ Head(Without(s, i)) = Head(s)
<1> DEFINE a == Without(s, i)
           at(j) == IF j < i THEN j ELSE j + 1
<1>1. /\ Len(s) \in Nat /\ a \in Seq(S) /\ Len(a) = Len(s) - 1
      /\ \A j \in 1 .. Len(a) : a[j] = s[at(j)]
  <2> DEFINE b == SubSeq(s, 1, i - 1)
             c == SubSeq(s, i + 1, Len(s))
  <2>1. Len(s) \in Nat /\ i \in Int /\ 1 <= i /\ i <= Len(s)
    OBVIOUS
  <2>2. b \in Seq(S) /\ Len(b) = i - 1 /\ \A j \in 1 .. i - 1 : b[j] = s[j]
    BY <2>1
  <2>3. c \in Seq(S) /\ Len(c) = Len(s) - i /\ \A j \in 1 .. Len(s) - i : c[j] = s[i + j]
    <3>1. \A j \in 1 .. Len(s) - i : c[j] = s[(i + 1) + j - 1] /\ (i + 1) + j - 1 = i + j
      BY <2>1
    <3> QED BY <2>1, <3>1
  <2> HIDE DEF b, c
  <2>4. /\ b \o c \in Seq(S) /\ Len(b \o c) = Len(b) + Len(c)
        /\ \A j \in 1 .. Len(b) : (b \o c)[j] = b[j]
        /\ \A j \in 1 .. Len(c) : (b \o c)[Len(b) + j] = c[j]
    <3>1. b \in Seq(S) /\ c \in Seq(S)
      BY <2>2, <2>3
    <3>2. \A x, y \in Seq(S) :
             /\ x \o y \in Seq(S) /\ Len(x \o y) = Len(x) + Len(y)
             /\ \A j \in 1 .. Len(x) : (x \o y)[j] = x[j]
             /\ \A j \in 1 .. Len(y) : (x \o y)[Len(x) + j] = y[j]
      BY Concatenated
    <3> QED BY ONLY <3>1, <3>2
  <2>5. a = b \o c
    BY DEF Without, b, c
  <2>6. ASSUME NEW j \in 1 .. Len(a) PROVE a[j] = s[at(j)]
    <3>1. CASE j < i
      BY <2>1, <2>2, <2>4, <2>5, <3>1
    <3>2. CASE ~(j < i)
      <4> DEFINE k == j - (i - 1)
      <4>1. k \in 1 .. Len(c) /\ Len(b) + k = j /\ i + k = j + 1
        BY <2>1, <2>2, <2>3, <2>4, <2>5, <3>2
      <4> HIDE DEF k
      <4>2. a[j] = c[k] /\ c[k] = s[i + k]
        BY <2>3, <2>4, <2>5, <4>1
      <4> QED BY <3>2, <4>1, <4>2
    <3> QED BY <3>1, <3>2
  <2>7. Len(a) = Len(s) - 1
    <3>1. Len(a) = (i - 1) + (Len(s) - i)
      BY <2>2, <2>3, <2>4, <2>5
    <3> QED BY <2>1, <3>1
  <2>8. a \in Seq(S)
    BY <2>4, <2>5
  <2> QED BY <2>1, <2>6, <2>7, <2>8
<1>2. \A j \in 1 .. Len(a) : at(j) \in 1 .. Len(s) /\ at(j) # i
  BY <1>1
<1>3. \A j, k \in 1 .. Len(a) : at(j) = at(k) => j = k
  BY <1>1
<1>4. s[i] \in S
  BY <1>1
<1>5. i > 1 => a # <<>> /\ Head(a) = Head(s)
  <2> SUFFICES ASSUME i > 1 PROVE a # <<>> /\ Head(a) = Head(s)
    OBVIOUS
  <2>1. 1 \in 1 .. Len(a) /\ at(1) = 1
    BY <1>1
  <2>2. a[1] = s[1]
    BY <1>1, <2>1
  <2> HIDE DEF a
  <2>3. a # <<>> /\ Head(a) = a[1] /\ Head(s) = s[1]
    BY <1>1, <2>1
  <2> QED BY <2>2, <2>3
<1> HIDE DEF a, at
<1>6. Elems(a) \subseteq Elems(s) /\ s[i] \in Elems(s)
  BY <1>1, <1>2 DEF Elems
<1>7. \A M : Within(a, M) => Within(s, M)
  BY <1>1, <1>2 DEF Within
<1>8. \A M : Once(s, M) => Once(a, M)
  BY <1>1, <1>2, <1>3 DEF Once
<1>9. \A M : s[i] \in M => Within(s, M) /\ (Once(s, M) => ~Within(a, M))
  BY <1>1, <1>2 DEF Within, Once
<1> QED BY <1>1, <1>4, <1>5, <1>6, <1>7, <1>8, <1>9 DEF a, Part

\* A set of numbers has an element of every rank.
LEMMA Ranked ==
  ASSUME NEW n \in Nat, NEW I \in SUBSET (1 .. n), NEW k \in 1 .. Cardinality(I)
  PROVE  \E i \in I : Cardinality({j \in I : j <= i}) = k
<1> DEFINE Upto(i) == {j \in I : j <= i}
           T == {i \in Nat : k <= Cardinality(Upto(i))}
<1>1. IsFiniteSet(I) /\ Cardinality(I) \in Nat
  <2>1. IsFiniteSet(1 .. n)
    BY FS_Interval
  <2>2. IsFiniteSet(I)
    BY <2>1, FS_Subset
  <2> QED BY <2>2, FS_CardinalityType
<1>2. \A i \in Nat : IsFiniteSet(Upto(i)) /\ Cardinality(Upto(i)) \in Nat
  <2> TAKE i \in Nat
  <2>1. Upto(i) \subseteq I
    OBVIOUS
  <2> QED BY <1>1, <2>1, FS_Subset, FS_CardinalityType
<1>0. \A j \in I : j \in Int /\ 1 <= j /\ j <= n
  OBVIOUS
<1>3. Upto(n) = I /\ Upto(0) = {}
  <2>1. \A j \in I : j <= n /\ ~(j <= 0)
    BY <1>0
  <2> QED BY <2>1
<1>4. n \in T
  BY <1>1, <1>3
<1>5. PICK m \in T : \A i \in T : ~(i < m)
  <2>1. IsWellFoundedOn(OpToRel(<, Nat), Nat)
    BY NatLessThanWellFounded
  <2>2. T \subseteq Nat
    OBVIOUS
  <2>3. PICK m \in T : \A i \in T : <<i, m>> \notin OpToRel(<, Nat)
    BY <1>4, <2>1, <2>2, WFMin
  <2> QED BY <2>2, <2>3 DEF OpToRel
<1>6. m \in Nat /\ m # 0
  <2>1. Cardinality({}) = 0
    BY FS_EmptySet
  <2> QED BY <1>3, <1>5, <2>1
<1>7. m - 1 \in Nat /\ ~(k <= Cardinality(Upto(m - 1)))
  <2>1. m - 1 \in Nat /\ m - 1 < m
    BY <1>6
  <2>2. m - 1 \notin T
    BY <1>5, <2>1
  <2> QED BY <2>1, <2>2
<1>8. m \in I /\ m \notin Upto(m - 1) /\ Upto(m) = Upto(m - 1) \cup {m}
  <2>0. \A j \in I : j <= m <=> j <= m - 1 \/ j = m
    BY <1>0, <1>6
  <2>1. m \notin I => Upto(m) = Upto(m - 1)
    BY <2>0
  <2>2. m \in I => m \notin Upto(m - 1) /\ Upto(m) = Upto(m - 1) \cup {m}
    <3>1. ~(m <= m - 1) /\ m <= m
      BY <1>6
    <3> QED BY <2>0, <3>1
  <2> QED BY <2>1, <2>2, <1>5, <1>7
<1>9. Cardinality(Upto(m)) = Cardinality(Upto(m - 1)) + 1
  BY <1>2, <1>7, <1>8, FS_AddElement
<1>10. Cardinality(Upto(m)) = k
  <2>1. k \in Int /\ Cardinality(Upto(m - 1)) \in Nat /\ k <= Cardinality(Upto(m))
    <3>1. k \in Int /\ Cardinality(Upto(m - 1)) \in Nat
      <4>1. k \in Int
        BY <1>1
      <4> QED BY <1>2, <1>7, <4>1
    <3>2. k <= Cardinality(Upto(m))
      BY <1>5
    <3> QED BY <3>1, <3>2
  <2> HIDE DEF Upto
  <2> QED BY <1>7, <1>9, <2>1
<1> QED BY <1>8, <1>10

\* What a lost session leaves queued are status changes.
LEMMA StatusesOnly ==
  ASSUME NEW s \in Seq(ResultRecords \cup StatusRecords)
  PROVE  Statuses(s) \in Seq(StatusRecords)
<1> DEFINE kept == {i \in 1 .. Len(s) : s[i].kind = "status"}
           Nth(k) == CHOOSE i \in kept : Cardinality({j \in kept : j <= i}) = k
<1>1. Len(s) \in Nat /\ kept \in SUBSET (1 .. Len(s))
  OBVIOUS
<1>2. Cardinality(kept) \in Nat
  <2>1. IsFiniteSet(1 .. Len(s))
    BY <1>1, FS_Interval
  <2> QED BY <1>1, <2>1, FS_Subset, FS_CardinalityType
<1>3. \A i \in kept : s[i] \in StatusRecords
  BY DEF ResultRecords, StatusRecords
<1> HIDE DEF kept
<1>4. \A k \in 1 .. Cardinality(kept) : Nth(k) \in kept
  BY <1>1, Ranked
<1> HIDE DEF Nth
<1>5. [k \in 1 .. Cardinality(kept) |-> s[Nth(k)]] \in Seq(StatusRecords)
  BY <1>2, <1>3, <1>4
<1> QED BY <1>5 DEF Statuses, kept, Nth

\* f's messages are disowned: they stay where they are and name nobody.
LEMMA Renamed ==
  ASSUME NEW f \in Flows, NEW S \in {CommandRecords, ResultRecords \cup StatusRecords},
         NEW s \in Seq(S)
  PROVE  /\ Disowned(s, f) \in Seq(S)
         /\ ~Within(Disowned(s, f), Of(f))
         /\ \A M \in {Snapshots} \cup {Of(g) : g \in Flows \ {f}} :
               /\ Within(Disowned(s, f), M) => Within(s, M)
               /\ Once(s, M) => Once(Disowned(s, f), M)
         /\ \A m \in Elems(Disowned(s, f)) :
               \/ m \in Elems(s) /\ (m.kind # "status" => m.flow # f)
               \/ /\ m.kind # "status" /\ m.flow = NoFlow
                  /\ \E n \in Elems(s) : n.kind = m.kind /\ n.op = m.op /\ n.flow = f
         /\ s # <<>> => /\ Disowned(s, f) # <<>>
                        /\ Head(s).kind # "status" => Head(Disowned(s, f)).op = Head(s).op
<1> DEFINE d == Disowned(s, f)
           New(m) == IF m.kind # "status" /\ m.flow = f THEN [m EXCEPT !.flow = NoFlow] ELSE m
<1>1. /\ Len(s) \in Nat /\ d = [i \in 1 .. Len(s) |-> New(s[i])]
      /\ \A i \in 1 .. Len(s) : s[i] \in S
  BY DEF Disowned
<1>2. \A m \in S :
         /\ New(m) \in S /\ New(m) \notin Of(f) /\ New(m).kind = m.kind
         /\ m.kind # "status" => New(m).op = m.op
         /\ New(m) \in Snapshots <=> m \in Snapshots
         /\ \A g \in Flows \ {f} : New(m) \in Of(g) <=> m \in Of(g)
         /\ \/ New(m) = m /\ (m.kind # "status" => m.flow # f)
            \/ m.kind # "status" /\ New(m).flow = NoFlow /\ m.flow = f
  <2> TAKE m \in S
  <2>1. CASE m \in StatusRecords
    BY <2>1 DEF CommandRecords, ResultRecords, StatusRecords, Of, Snapshots
  <2>2. CASE m \in CommandRecords
    <3>1. m.kind = "command" /\ New(m) \in CommandRecords /\ New(m).kind = "command" /\ New(m).op = m.op
      BY <2>2 DEF CommandRecords, Awaiters
    <3>2. New(m).flow = IF m.flow = f THEN NoFlow ELSE m.flow
      BY <2>2 DEF CommandRecords, Awaiters
    <3>3. S = CommandRecords
      BY <2>2 DEF CommandRecords, ResultRecords, StatusRecords
    <3>4. m.flow # f => New(m) = m
      OBVIOUS
    <3> HIDE DEF New
    <3> QED BY <2>2, <3>1, <3>2, <3>3, <3>4, IdsAssumption DEF Of, Snapshots
  <2>3. CASE m \in ResultRecords
    <3>1. m.kind = "result" /\ New(m) \in ResultRecords /\ New(m).kind = "result" /\ New(m).op = m.op
      BY <2>3 DEF ResultRecords, Awaiters
    <3>2. New(m).flow = IF m.flow = f THEN NoFlow ELSE m.flow
      BY <2>3 DEF ResultRecords, Awaiters
    <3>3. S = ResultRecords \cup StatusRecords
      BY <2>3 DEF CommandRecords, ResultRecords, StatusRecords
    <3>4. m.flow # f => New(m) = m
      OBVIOUS
    <3> HIDE DEF New
    <3> QED BY <2>3, <3>1, <3>2, <3>3, <3>4, IdsAssumption DEF Of, Snapshots
  <2> QED BY <2>1, <2>2, <2>3
<1> HIDE DEF New
<1>3. d \in Seq(S) /\ Len(d) = Len(s) /\ \A i \in 1 .. Len(s) : d[i] = New(s[i])
  BY <1>1, <1>2
<1> HIDE DEF d
<1>4. ~Within(d, Of(f))
  BY <1>1, <1>2, <1>3 DEF Within
<1>5. ASSUME NEW M \in {Snapshots} \cup {Of(g) : g \in Flows \ {f}}
      PROVE  (Within(d, M) => Within(s, M)) /\ (Once(s, M) => Once(d, M))
  <2>1. \A m \in S : New(m) \in M <=> m \in M
    BY <1>2
  <2> QED BY <1>1, <1>3, <2>1 DEF Within, Once
<1>6. ASSUME NEW i \in 1 .. Len(s)
      PROVE  \/ d[i] \in Elems(s) /\ (d[i].kind # "status" => d[i].flow # f)
             \/ /\ d[i].kind # "status" /\ d[i].flow = NoFlow
                /\ \E n \in Elems(s) : n.kind = d[i].kind /\ n.op = d[i].op /\ n.flow = f
  <2>1. s[i] \in S /\ s[i] \in Elems(s) /\ d[i] = New(s[i])
    BY <1>1, <1>3 DEF Elems
  <2> QED BY <1>2, <2>1
<1>7. s # <<>> => d # <<>> /\ (Head(s).kind # "status" => Head(d).op = Head(s).op)
  <2> SUFFICES ASSUME s # <<>> PROVE d # <<>> /\ (Head(s).kind # "status" => Head(d).op = Head(s).op)
    OBVIOUS
  <2>1. 1 \in 1 .. Len(s) /\ Head(s) = s[1]
    BY <1>1
  <2>2. d # <<>> /\ Head(d) = d[1]
    BY <1>3, <2>1
  <2> QED BY <1>1, <1>2, <1>3, <2>1, <2>2
<1>8. \A m \in Elems(d) : \E i \in 1 .. Len(s) : m = d[i]
  BY <1>3 DEF Elems
<1> QED BY <1>3, <1>4, <1>5, <1>6, <1>7, <1>8 DEF d

-----------------------------------------------------------------------------
(* What is done to a flow.                                                   *)

\* A flow that is not idle has every field of its record.
LEMMA FlowsTyped ==
  ASSUME TypeOK, NEW f \in Flows
  PROVE  /\ flow[f] \in FlowRecords /\ (flow[f].pc # "idle" => flow[f] \in BusyRecords)
         /\ Idle \in FlowRecords /\ Idle.pc = "idle" /\ Idle.worker = NoWorker
         /\ flow[f] = Idle => flow[f].pc = "idle"
  BY DEF TypeOK, FlowRecords, Idle

\* A flow that begins.
LEMMA Begun ==
  \A op \in Ops, pc \in Pcs, w \in Workers :
     /\ Begin(op, pc, w) \in BusyRecords
     /\ Begin(op, pc, w).pc = pc /\ Begin(op, pc, w).worker = w
  BY DEF Begin, Idle, BusyRecords

\* And with one of its flags set.
LEMMA Ticked ==
  \A r \in BusyRecords, b \in BOOLEAN :
     /\ [r EXCEPT !.release = b] \in BusyRecords
     /\ [r EXCEPT !.release = b].pc = r.pc /\ [r EXCEPT !.release = b].worker = r.worker
     /\ [r EXCEPT !.fresh = b] \in BusyRecords
     /\ [r EXCEPT !.fresh = b].pc = r.pc /\ [r EXCEPT !.fresh = b].worker = r.worker
  BY DEF BusyRecords

\* A fresher write changes where no flow stands.
LEMMA OutdatedFlows ==
  ASSUME NEW fl \in [Flows -> FlowRecords]
  PROVE  /\ Outdated(fl) \in [Flows -> FlowRecords]
         /\ \A g \in Flows : Outdated(fl)[g].pc = fl[g].pc /\ Outdated(fl)[g].worker = fl[g].worker
<1>1. \A g \in Flows : fl[g] \in FlowRecords
  OBVIOUS
<1>2. \A r \in FlowRecords : /\ [r EXCEPT !.fresh = FALSE] \in FlowRecords
                             /\ [r EXCEPT !.fresh = FALSE].pc = r.pc
                             /\ [r EXCEPT !.fresh = FALSE].worker = r.worker
  <2>1. [Idle EXCEPT !.fresh = FALSE] = Idle
    <3>1. Idle.fresh = FALSE
      BY DEF Idle
    <3>2. Idle = [x \in DOMAIN Idle |-> Idle[x]] /\ "fresh" \in DOMAIN Idle
      BY DEF Idle
    <3>3. ASSUME NEW r, r = [x \in DOMAIN r |-> r[x]], "fresh" \in DOMAIN r, r.fresh = FALSE
          PROVE  [r EXCEPT !.fresh = FALSE] = r
      <4>1. ASSUME NEW v, r.fresh = v PROVE [r EXCEPT !.fresh = v] = r
        BY <3>3, <4>1, SMT
      <4> QED BY <3>3, <4>1, Zenon
    <3> QED BY <3>1, <3>2, <3>3
  <2>2. \A r \in BusyRecords : /\ [r EXCEPT !.fresh = FALSE] \in BusyRecords
                               /\ [r EXCEPT !.fresh = FALSE].pc = r.pc
                               /\ [r EXCEPT !.fresh = FALSE].worker = r.worker
    BY DEF BusyRecords
  <2> QED BY <2>1, <2>2 DEF FlowRecords
<1> QED BY <1>1, <1>2 DEF Outdated

\* A flow that loses its answer is at rest, reverts or, if it was at its snapshot,
\* releases.
LEMMA LostFlows ==
  ASSUME NEW r \in BusyRecords, NEW timedOut \in BOOLEAN
  PROVE  /\ Lost(r, timedOut) \in FlowRecords
         /\ \/ Lost(r, timedOut) = Idle
            \/ /\ Lost(r, timedOut).worker = r.worker
               /\ \/ Lost(r, timedOut).pc = "revert"
                  \/ /\ Lost(r, timedOut).pc = "release"
                     /\ r.pc \in {"snapshot", "uploading"} /\ ~timedOut
  BY DEF Lost, Unsent, Settled, FlowRecords, BusyRecords, Pcs, StopPcs, Idle

\* A refused launch converges, reverts or ends.
LEMMA RefusedFlows ==
  ASSUME NEW r \in BusyRecords, NEW status
  PROVE  /\ Refused(r, status) \in FlowRecords
         /\ \/ Refused(r, status) = Idle
            \/ Refused(r, status).worker = r.worker /\ Refused(r, status).pc \in {"converge", "revert"}
  BY DEF Refused, FlowRecords, BusyRecords, Pcs, StopPcs, Idle

\* An answered stop goes on to record it, or ends.
LEMMA StopAnsweredFlows ==
  ASSUME NEW r \in BusyRecords, NEW status
  PROVE  /\ StopAnswered(r, status) \in FlowRecords
         /\ \/ StopAnswered(r, status) = Idle
            \/ /\ StopAnswered(r, status).worker = r.worker
               /\ StopAnswered(r, status).pc \in {"confirmed", "gone"}
  BY DEF StopAnswered, FlowRecords, BusyRecords, Pcs, StopPcs, Idle

\* The bounds are kept.
LEMMA Counted ==
  ASSUME TypeOK, Request \/ Fault \/ UNCHANGED bounds
  PROVE  requests' \in 0 .. MaxRequests /\ faults' \in 0 .. MaxFaults
  BY LifecycleBounds DEF TypeOK, Request, Fault, bounds

-----------------------------------------------------------------------------
(* Steps that send and receive nothing.                                      *)

\* f becomes r.
LEMMA FlowTyped ==
  ASSUME TypeOK, NEW f \in Flows, NEW r, r \in FlowRecords, flow' = [flow EXCEPT ![f] = r],
         desired' \in {"stopped", "running"}, observed' \in States,
         assigned' \in Workers \cup {NoWorker}, forsaken' \subseteq Workers,
         Request \/ Fault \/ UNCHANGED bounds, UNCHANGED <<links, wire, detached, inst>>
  PROVE  TypeOK' /\ flow'[f] = r /\ \A g \in Flows \ {f} : flow'[g] = flow[g]
<1>1. flow' \in [Flows -> FlowRecords] /\ flow'[f] = r /\ \A g \in Flows \ {f} : flow'[g] = flow[g]
  BY DEF TypeOK
<1>2. requests' \in 0 .. MaxRequests /\ faults' \in 0 .. MaxFaults
  BY Counted
<1> QED BY <1>1, <1>2 DEF TypeOK, links, wire

\* The messages under way stay expected while the flows that await one wait on.
LEMMA WiresStill ==
  ASSUME LifecycleInv, UNCHANGED <<lane, uplink>>,
         \A g \in Flows : flow[g].pc \in AwaitPcs =>
            flow'[g].pc = flow[g].pc /\ flow'[g].worker = flow[g].worker
  PROVE  OneEach' /\ AllExpected'
<1>1. OneEach'
  BY DEF LifecycleInv, OneEach, Single
<1>2. ASSUME NEW m, NEW w \in Workers, Expected(m, w) PROVE Expected(m, w)'
  BY <1>2 DEF Expected, Awaits, AwaitPcs
<1>3. AllExpected'
  BY <1>2 DEF LifecycleInv, AllExpected, Queued, Messages
<1> QED BY <1>1, <1>3

\* No final snapshot is queued or uploading, and no flow but f converges a stop.
Unheld(f) ==
    /\ \A w \in Workers : \A c \in Queued(w) : c.op # "snapshot"
    /\ \A g \in Flows \ {f} : ~Converging(g)

\* And a step of a flow f that awaits nothing: it leaves the row's intent and worker as
\* they are, or has the row to itself.
LEMMA StillStep ==
  ASSUME LifecycleInv, TypeOK', UNCHANGED <<lane, uplink, upload>>, NEW f \in Flows,
         flow[f].pc \notin AwaitPcs,
         \A g \in Flows \ {f} : flow'[g].pc = flow[g].pc /\ flow'[g].worker = flow[g].worker,
         \/ /\ UNCHANGED <<desired, assigned>>
            /\ Converging(f)' => Converging(f) /\ flow'[f].worker = flow[f].worker
         \/ Unheld(f) /\ ~Converging(f)'
         \/ ~InFlight /\ desired' = "stopped" /\ assigned' = flow'[f].worker
  PROVE  LifecycleInv'
<1>1. OneEach' /\ AllExpected'
  BY WiresStill
<1>2. \A g \in Flows \ {f} : Converging(g)' <=> Converging(g)
  BY DEF Converging
<1>3. \A w \in Workers : Queued(w)' = Queued(w) /\ Messages(w)' = Messages(w)
  BY DEF Queued, Messages
<1>4. UploadsHead'
  BY DEF LifecycleInv, UploadsHead
<1>5. CASE /\ UNCHANGED <<desired, assigned>>
           /\ Converging(f)' => Converging(f) /\ flow'[f].worker = flow[f].worker
  <2>1. StopsHold' /\ OneStop' /\ SnapshotsHeld' /\ SnapshotsOwned'
    BY <1>2, <1>3, <1>5 DEF LifecycleInv, StopsHold, OneStop, SnapshotsHeld, SnapshotsOwned
  <2> QED BY <1>1, <1>4, <2>1 DEF LifecycleInv
<1>6. CASE Unheld(f) /\ ~Converging(f)'
  <2>1. StopsHold' /\ OneStop' /\ SnapshotsHeld' /\ SnapshotsOwned'
    BY <1>2, <1>3, <1>6 DEF Unheld, StopsHold, OneStop, SnapshotsHeld, SnapshotsOwned
  <2> QED BY <1>1, <1>4, <2>1 DEF LifecycleInv
<1>7. CASE ~InFlight /\ desired' = "stopped" /\ assigned' = flow'[f].worker
  <2>1. /\ \A g \in Flows : ~Converging(g)
        /\ \A w \in Workers : /\ \A c \in Queued(w) : c.op # "snapshot"
                              /\ \A m \in Messages(w) : ~(m.kind = "result" /\ m.op = "snapshot")
    BY <1>7 DEF InFlight, Outstanding, Converging
  <2>2. StopsHold' /\ OneStop' /\ SnapshotsHeld' /\ SnapshotsOwned'
    BY <1>2, <1>3, <1>7, <2>1 DEF StopsHold, OneStop, SnapshotsHeld, SnapshotsOwned
  <2> QED BY <1>1, <1>4, <2>2 DEF LifecycleInv
<1> QED BY <1>5, <1>6, <1>7

\* The row of a start is free of stops: it has no worker, or it intends to run.
LEMMA FreeToStart ==
  ASSUME LifecycleInv, desired = "running" \/ assigned = NoWorker
  PROVE  /\ \A g \in Flows : ~Converging(g) /\ Unheld(g)
         /\ \A w \in Workers : \A c \in Queued(w) : c.op # "snapshot"
<1>1. \A g \in Flows : Converging(g) => flow[g].worker \in Workers
  BY DEF LifecycleInv, TypeOK, FlowRecords, BusyRecords, Converging, StopPcs, Idle
<1>2. \A g \in Flows : ~Converging(g)
  BY <1>1, IdsAssumption DEF LifecycleInv, StopsHold
<1>3. \A w \in Workers : \A c \in Queued(w) : c.op # "snapshot"
  BY IdsAssumption DEF LifecycleInv, SnapshotsHeld
<1> QED BY <1>2, <1>3 DEF Unheld

\* A converging flow has the row to itself but while its snapshot is under way.
LEMMA AloneOnRow ==
  ASSUME LifecycleInv, NEW f \in Flows, Converging(f), flow[f].pc # "uploading"
  PROVE  /\ Unheld(f)
         /\ \A w \in Workers : \A m \in Messages(w) : ~(m.kind = "result" /\ m.op = "snapshot")
<1>1. \A g \in Flows \ {f} : ~Converging(g)
  BY DEF LifecycleInv, OneStop
<1>2. ASSUME NEW w \in Workers, NEW c \in Queued(w) PROVE c.op # "snapshot"
  BY DEF LifecycleInv, SnapshotsOwned, AllExpected, Expected, Awaits
<1>3. ASSUME NEW w \in Workers, NEW m \in Messages(w) PROVE ~(m.kind = "result" /\ m.op = "snapshot")
  BY DEF LifecycleInv, SnapshotsOwned, AllExpected, Expected, Awaits
<1> QED BY <1>1, <1>2, <1>3 DEF Unheld

LEMMA StartKept ==
  ASSUME LifecycleInv, NEW f \in Flows, NEW w \in Workers, Start(f, w)
  PROVE  LifecycleInv'
<1> DEFINE r == Begin("start", "launch", w)
<1>1. r \in FlowRecords /\ r.pc = "launch"
  BY Begun DEF FlowRecords, Ops, Pcs
<1>2. TypeOK /\ flow[f].pc = "idle"
  BY FlowsTyped DEF LifecycleInv, Start
<1> HIDE DEF r
<1>3. TypeOK' /\ flow'[f] = r /\ \A g \in Flows \ {f} : flow'[g] = flow[g]
  BY <1>1, <1>2, FlowTyped DEF TypeOK, Start, r
<1>4. Unheld(f) /\ ~Converging(f)'
  BY <1>1, <1>3, FreeToStart DEF Start, Converging, StopPcs
<1> QED BY <1>2, <1>3, <1>4, StillStep DEF Start, wire, AwaitPcs

LEMMA PlaceAndStartKept ==
  ASSUME LifecycleInv, NEW f \in Flows, NEW w \in Workers, PlaceAndStart(f, w)
  PROVE  LifecycleInv'
<1> DEFINE r == Begin("place", "launch", w)
<1>1. r \in FlowRecords /\ r.pc = "launch"
  BY Begun DEF FlowRecords, Ops, Pcs
<1>2. TypeOK /\ flow[f].pc = "idle"
  BY FlowsTyped DEF LifecycleInv, PlaceAndStart
<1> HIDE DEF r
<1>3. TypeOK' /\ flow'[f] = r /\ \A g \in Flows \ {f} : flow'[g] = flow[g]
  BY <1>1, <1>2, FlowTyped DEF TypeOK, PlaceAndStart, r
<1>4. Unheld(f) /\ ~Converging(f)'
  BY <1>1, <1>3, FreeToStart DEF PlaceAndStart, Converging, StopPcs
<1> QED BY <1>2, <1>3, <1>4, StillStep DEF PlaceAndStart, wire, AwaitPcs

LEMMA RedispatchStartKept ==
  ASSUME LifecycleInv, NEW f \in Flows, RedispatchStart(f)
  PROVE  LifecycleInv'
<1> DEFINE r == Begin("redispatch", "launch", assigned)
<1>1. TypeOK /\ flow[f].pc = "idle" /\ assigned \in Workers
  BY FlowsTyped DEF LifecycleInv, RedispatchStart, TypeOK
<1>2. r \in FlowRecords /\ r.pc = "launch"
  BY <1>1, Begun DEF FlowRecords, Ops, Pcs
<1> HIDE DEF r
<1>3. TypeOK' /\ flow'[f] = r /\ \A g \in Flows \ {f} : flow'[g] = flow[g]
  BY <1>1, <1>2, FlowTyped DEF TypeOK, RedispatchStart, row, r
<1>4. Unheld(f) /\ ~Converging(f)'
  BY <1>2, <1>3, FreeToStart DEF RedispatchStart, Converging, StopPcs
<1> QED BY <1>1, <1>3, <1>4, StillStep DEF RedispatchStart, wire, AwaitPcs

LEMMA StopKept ==
  ASSUME LifecycleInv, NEW f \in Flows, Stop(f)
  PROVE  LifecycleInv'
<1> DEFINE r == Begin("stop", "stop", assigned)
<1>1. TypeOK /\ flow[f].pc = "idle" /\ assigned \in Workers
  BY FlowsTyped DEF LifecycleInv, Stop, Stoppable, TypeOK
<1>2. r \in FlowRecords /\ r.pc = "stop" /\ r.worker = assigned
  BY <1>1, Begun DEF FlowRecords, Ops, Pcs, StopPcs
<1> HIDE DEF r
<1>3. TypeOK' /\ flow'[f] = r /\ \A g \in Flows \ {f} : flow'[g] = flow[g]
  BY <1>1, <1>2, FlowTyped DEF TypeOK, Stop, r
<1>4. ~InFlight /\ desired' = "stopped" /\ assigned' = flow'[f].worker
  BY <1>2, <1>3 DEF Stop, Claim
<1> QED BY <1>1, <1>3, <1>4, StillStep DEF Stop, wire, AwaitPcs

LEMMA RedispatchStopKept ==
  ASSUME LifecycleInv, NEW f \in Flows, RedispatchStop(f)
  PROVE  LifecycleInv'
<1> DEFINE r == Begin("stop", "stop", assigned)
<1>1. TypeOK /\ flow[f].pc = "idle" /\ assigned \in Workers
  BY FlowsTyped DEF LifecycleInv, RedispatchStop, TypeOK
<1>2. r \in FlowRecords /\ r.pc = "stop" /\ r.worker = assigned
  BY <1>1, Begun DEF FlowRecords, Ops, Pcs, StopPcs
<1> HIDE DEF r
<1>3. TypeOK' /\ flow'[f] = r /\ \A g \in Flows \ {f} : flow'[g] = flow[g]
  BY <1>1, <1>2, FlowTyped DEF TypeOK, RedispatchStop, row, r
<1>4. ~InFlight /\ desired' = "stopped" /\ assigned' = flow'[f].worker
  BY <1>2, <1>3 DEF RedispatchStop, Claim, row
<1> QED BY <1>1, <1>3, <1>4, StillStep DEF RedispatchStop, wire, AwaitPcs

LEMMA ClearStaleKept ==
  ASSUME LifecycleInv, NEW f \in Flows, ClearStale(f)
  PROVE  LifecycleInv'
<1> DEFINE r == CASE observed \in {"stopped", "crashed"} /\ assigned \in online
                        -> [Begin("clear", "snapshot", assigned) EXCEPT !.release = TRUE]
                  [] observed = "stopping"
                        -> [Begin("clear", "releaseUnknown", assigned) EXCEPT !.fresh = TRUE]
                  [] OTHER -> Begin("clear", "release", assigned)
<1>1. TypeOK /\ flow[f].pc = "idle" /\ assigned \in Workers
  BY FlowsTyped DEF LifecycleInv, ClearStale, TypeOK
<1>2. "clear" \in Ops /\ \A pc \in {"snapshot", "releaseUnknown", "release"} : pc \in Pcs
  BY DEF Ops, Pcs, StopPcs
<1>3. r \in FlowRecords /\ r.worker = assigned
  <2> DEFINE b(pc) == Begin("clear", pc, assigned)
  <2>1. \A pc \in {"snapshot", "releaseUnknown", "release"} :
           b(pc) \in BusyRecords /\ b(pc).worker = assigned
    BY <1>1, <1>2, Begun
  <2> HIDE DEF b
  <2>2. /\ [b("snapshot") EXCEPT !.release = TRUE] \in BusyRecords
        /\ [b("snapshot") EXCEPT !.release = TRUE].worker = assigned
        /\ [b("releaseUnknown") EXCEPT !.fresh = TRUE] \in BusyRecords
        /\ [b("releaseUnknown") EXCEPT !.fresh = TRUE].worker = assigned
    BY <2>1, Ticked
  <2> QED BY <2>1, <2>2 DEF FlowRecords, b
<1> HIDE DEF r
<1>4. flow' = [flow EXCEPT ![f] = r]
  BY DEF ClearStale, r
<1>5. TypeOK' /\ flow'[f] = r /\ \A g \in Flows \ {f} : flow'[g] = flow[g]
  BY <1>1, <1>3, <1>4, FlowTyped DEF TypeOK, ClearStale, row
<1>6. ~InFlight /\ desired' = "stopped" /\ assigned' = flow'[f].worker
  BY <1>3, <1>5 DEF ClearStale, Claim, row
<1> QED BY <1>1, <1>5, <1>6, StillStep DEF ClearStale, wire, AwaitPcs

\* Nothing but stamps and what the row says it observed.
LEMMA SameStand ==
  ASSUME LifecycleInv, TypeOK', UNCHANGED <<lane, uplink, upload>>,
         \A g \in Flows : flow'[g].pc = flow[g].pc /\ flow'[g].worker = flow[g].worker,
         UNCHANGED <<desired, assigned>> \/ (desired = "running" /\ desired' = "stopped" /\ UNCHANGED assigned)
  PROVE  LifecycleInv'
<1>1. OneEach' /\ AllExpected'
  BY WiresStill
<1>2. \A g \in Flows : Converging(g)' <=> Converging(g)
  BY DEF Converging
<1>3. \A w \in Workers : Queued(w)' = Queued(w) /\ Messages(w)' = Messages(w)
  BY DEF Queued, Messages
<1>4. StopsHold' /\ OneStop' /\ SnapshotsHeld' /\ SnapshotsOwned' /\ UploadsHead'
  BY <1>2, <1>3 DEF LifecycleInv, StopsHold, OneStop, SnapshotsHeld, SnapshotsOwned, UploadsHead
<1> QED BY <1>1, <1>4 DEF LifecycleInv

LEMMA DrainKept ==
  ASSUME LifecycleInv, Drain
  PROVE  LifecycleInv'
<1>1. TypeOK' /\ UNCHANGED <<lane, uplink, upload>>
  <2>1. TypeOK /\ requests' \in 0 .. MaxRequests /\ faults' \in 0 .. MaxFaults
    BY Counted DEF LifecycleInv, Drain
  <2> QED BY <2>1 DEF TypeOK, Drain, links, wire
<1> QED BY <1>1, SameStand DEF Drain, Stoppable

LEMMA MarkUnknownKept ==
  ASSUME LifecycleInv, NEW w \in Workers, MarkUnknown(w)
  PROVE  LifecycleInv'
<1>1. TypeOK /\ flow \in [Flows -> FlowRecords]
  BY DEF LifecycleInv, TypeOK
<1>2. /\ flow' \in [Flows -> FlowRecords]
      /\ \A g \in Flows : flow'[g].pc = flow[g].pc /\ flow'[g].worker = flow[g].worker
  BY <1>1, OutdatedFlows DEF MarkUnknown
<1>3. TypeOK' /\ UNCHANGED <<lane, uplink, upload>>
  BY <1>1, <1>2 DEF TypeOK, MarkUnknown, wire, bounds, States
<1> QED BY <1>2, <1>3, SameStand DEF MarkUnknown

LEMMA ResetUnverifiableKept ==
  ASSUME LifecycleInv, ResetUnverifiable
  PROVE  LifecycleInv'
<1>1. TypeOK /\ flow \in [Flows -> FlowRecords]
  BY DEF LifecycleInv, TypeOK
<1>2. /\ flow' \in [Flows -> FlowRecords]
      /\ \A g \in Flows : flow'[g].pc = flow[g].pc /\ flow'[g].worker = flow[g].worker
  BY <1>1, OutdatedFlows DEF ResetUnverifiable
<1>3. TypeOK' /\ UNCHANGED <<lane, uplink, upload>>
  BY <1>1, <1>2 DEF TypeOK, ResetUnverifiable, wire, bounds, States
<1> QED BY <1>2, <1>3, SameStand DEF ResetUnverifiable

\* The verdict of a flow on the row it may have written.
LEMMA Verdict ==
  ASSUME LifecycleInv, NEW f \in Flows, flow[f].pc # "idle", flow[f].pc \notin AwaitPcs,
         NEW fl, fl \in [Flows -> FlowRecords], flow' = fl \/ flow' = Outdated(fl),
         \A g \in Flows \ {f} : fl[g] = flow[g],
         fl[f].pc \notin StopPcs \/ (Converging(f) /\ fl[f].worker = flow[f].worker),
         observed' \in States,
         UNCHANGED <<desired, assigned, links, wire, detached, inst, forsaken, bounds>>
  PROVE  LifecycleInv'
<1>1. /\ flow' \in [Flows -> FlowRecords]
      /\ \A g \in Flows : flow'[g].pc = fl[g].pc /\ flow'[g].worker = fl[g].worker
  BY OutdatedFlows
<1>2. TypeOK' /\ UNCHANGED <<lane, uplink, upload>>
  BY <1>1 DEF LifecycleInv, TypeOK, links, wire, bounds
<1>3. Converging(f)' => Converging(f) /\ flow'[f].worker = flow[f].worker
  BY <1>1 DEF Converging
<1> QED BY <1>1, <1>2, <1>3, StillStep

LEMMA Gone ==
  ASSUME TypeOK, NEW f \in Flows, flow[f].pc # "idle"
  PROVE  /\ Finish(f) \in [Flows -> FlowRecords] /\ Finish(f)[f].pc = "idle"
         /\ \A g \in Flows \ {f} : Finish(f)[g] = flow[g]
         /\ \A b \in BOOLEAN :
              LET fl == [Goto(f, "snapshot") EXCEPT ![f].release = b]
              IN /\ fl \in [Flows -> FlowRecords] /\ fl[f].worker = flow[f].worker
                 /\ \A g \in Flows \ {f} : fl[g] = flow[g]
<1>1. flow \in [Flows -> FlowRecords] /\ flow[f] \in BusyRecords
  BY FlowsTyped DEF TypeOK
<1>2. Idle \in FlowRecords /\ Idle.pc = "idle"
  BY DEF FlowRecords, Idle
<1>3. /\ Finish(f) \in [Flows -> FlowRecords] /\ Finish(f)[f].pc = "idle"
      /\ \A g \in Flows \ {f} : Finish(f)[g] = flow[g]
  BY <1>1, <1>2 DEF Finish
<1>4. ASSUME NEW b \in BOOLEAN
      PROVE  LET fl == [Goto(f, "snapshot") EXCEPT ![f].release = b]
             IN /\ fl \in [Flows -> FlowRecords] /\ fl[f].worker = flow[f].worker
                /\ \A g \in Flows \ {f} : fl[g] = flow[g]
  <2> DEFINE v == "snapshot" \in StampedPcs
             r == [[[flow[f] EXCEPT !.pc = "snapshot"] EXCEPT !.fresh = v] EXCEPT !.release = b]
  <2>1. r \in BusyRecords /\ r.worker = flow[f].worker
    <3>1. v \in BOOLEAN
      OBVIOUS
    <3> HIDE DEF v
    <3> QED BY <1>1, <3>1 DEF BusyRecords, Pcs, StopPcs
  <2>2. ASSUME NEW u
        PROVE  [flow EXCEPT ![f].pc = "snapshot", ![f].fresh = u]
                = [flow EXCEPT ![f] = [[@ EXCEPT !.pc = "snapshot"] EXCEPT !.fresh = u]]
    BY <1>1
  <2>3. Goto(f, "snapshot") = [flow EXCEPT ![f] = [[@ EXCEPT !.pc = "snapshot"] EXCEPT !.fresh = v]]
    BY <2>2, Zenon DEF Goto
  <2> HIDE DEF v
  <2>4. [Goto(f, "snapshot") EXCEPT ![f].release = b] = [flow EXCEPT ![f] = r]
    BY <1>1, <2>3
  <2> HIDE DEF r
  <2> QED BY <1>1, <2>1, <2>4 DEF FlowRecords
<1> QED BY <1>3, <1>4

LEMMA ConvergeKept ==
  ASSUME LifecycleInv, NEW f \in Flows, Converge(f)
  PROVE  LifecycleInv'
<1>1. /\ flow[f].pc # "idle" /\ flow[f].pc \notin AwaitPcs
      /\ flow' = Finish(f) \/ flow' = Outdated(Finish(f))
  BY DEF Converge, AwaitPcs
<1>2. /\ Finish(f) \in [Flows -> FlowRecords] /\ Finish(f)[f].pc \notin StopPcs
      /\ \A g \in Flows \ {f} : Finish(f)[g] = flow[g]
  BY <1>1, Gone DEF LifecycleInv, StopPcs
<1>3. observed' \in States
  BY DEF LifecycleInv, TypeOK, Converge, States
<1> QED BY <1>1, <1>2, <1>3, Verdict DEF Converge

LEMMA RecordStoppedKept ==
  ASSUME LifecycleInv, NEW f \in Flows, RecordStopped(f)
  PROVE  LifecycleInv'
<1> DEFINE fl == [Goto(f, "snapshot") EXCEPT ![f].release = TRUE]
<1>1. /\ flow[f].pc # "idle" /\ flow[f].pc \notin AwaitPcs /\ Converging(f)
      /\ flow' = fl \/ flow' = Outdated(fl)
  BY DEF RecordStopped, AwaitPcs, StopPcs, Converging
<1>2. /\ fl \in [Flows -> FlowRecords] /\ fl[f].worker = flow[f].worker
      /\ \A g \in Flows \ {f} : fl[g] = flow[g]
  BY <1>1, Gone DEF LifecycleInv
<1>3. observed' \in States
  BY DEF LifecycleInv, TypeOK, RecordStopped, States
<1> HIDE DEF fl
<1> QED BY <1>1, <1>2, <1>3, Verdict DEF RecordStopped

LEMMA RecordGoneKept ==
  ASSUME LifecycleInv, NEW f \in Flows, RecordGone(f)
  PROVE  LifecycleInv'
<1> DEFINE b == (observed = "crashed" /\ assigned = flow[f].worker) \/ Lands(f)
           fl == [Goto(f, "snapshot") EXCEPT ![f].release = b]
<1>1. /\ flow[f].pc # "idle" /\ flow[f].pc \notin AwaitPcs /\ Converging(f)
      /\ flow' = fl \/ flow' = Outdated(fl)
  BY DEF RecordGone, AwaitPcs, StopPcs, Converging
<1>2. /\ fl \in [Flows -> FlowRecords] /\ fl[f].worker = flow[f].worker
      /\ \A g \in Flows \ {f} : fl[g] = flow[g]
  <2>1. b \in BOOLEAN
    BY DEF Lands, LifecycleInv, TypeOK, FlowRecords, BusyRecords, Idle
  <2> HIDE DEF b
  <2> QED BY <1>1, <2>1, Gone DEF LifecycleInv
<1>3. observed' \in States
  BY DEF LifecycleInv, TypeOK, RecordGone, States
<1> HIDE DEF fl, b
<1> QED BY <1>1, <1>2, <1>3, Verdict DEF RecordGone

LEMMA RevertKept ==
  ASSUME LifecycleInv, NEW f \in Flows, Revert(f)
  PROVE  LifecycleInv'
<1>1. TypeOK /\ flow[f].pc # "idle" /\ flow[f].pc \notin AwaitPcs /\ ~Converging(f)
  BY DEF LifecycleInv, Revert, AwaitPcs, StopPcs, Converging
<1>2. TypeOK' /\ flow'[f] = Idle /\ \A g \in Flows \ {f} : flow'[g] = flow[g]
  BY <1>1, FlowsTyped, FlowTyped DEF TypeOK, Revert, Finish
<1>3. ~Converging(f)'
  BY <1>1, <1>2, FlowsTyped DEF Converging, StopPcs
<1>4. UNCHANGED <<lane, uplink, upload>>
  BY DEF Revert, wire
<1>5. CASE Revertible(f)
  BY <1>1, <1>2, <1>3, <1>4, <1>5, FreeToStart, StillStep DEF Revertible
<1>6. CASE ~Revertible(f)
  <2>1. UNCHANGED <<desired, assigned>>
    BY <1>6 DEF Revert
  <2> QED BY <1>1, <1>2, <1>3, <1>4, <2>1, StillStep
<1> QED BY <1>5, <1>6

LEMMA ReleaseKept ==
  ASSUME LifecycleInv, NEW f \in Flows, Release(f)
  PROVE  LifecycleInv'
<1>1. TypeOK /\ flow[f].pc # "idle" /\ flow[f].pc \notin AwaitPcs /\ Converging(f)
      /\ flow[f].pc # "uploading"
  BY DEF LifecycleInv, Release, AwaitPcs, StopPcs, Converging
<1>2. flow[f].worker \in Workers
  BY <1>1, FlowsTyped DEF BusyRecords
<1>3. TypeOK' /\ flow'[f] = Idle /\ \A g \in Flows \ {f} : flow'[g] = flow[g]
  <2>1. forsaken' \subseteq Workers /\ assigned' \in Workers \cup {NoWorker}
    BY <1>1, <1>2 DEF TypeOK, Release, Forsake
  <2> QED BY <1>1, <2>1, FlowsTyped, FlowTyped DEF TypeOK, Release, Finish
<1>4. ~Converging(f)'
  BY <1>1, <1>3, FlowsTyped DEF Converging, StopPcs
<1>5. UNCHANGED <<lane, uplink, upload>>
  BY DEF Release, wire
<1> QED BY <1>1, <1>3, <1>4, <1>5, AloneOnRow, StillStep

LEMMA ReleaseUnknownKept ==
  ASSUME LifecycleInv, NEW f \in Flows, ReleaseUnknown(f)
  PROVE  LifecycleInv'
<1>1. TypeOK /\ flow[f].pc # "idle" /\ flow[f].pc \notin AwaitPcs /\ Converging(f)
      /\ flow[f].pc # "uploading"
  BY DEF LifecycleInv, ReleaseUnknown, AwaitPcs, StopPcs, Converging
<1>2. flow[f].worker \in Workers
  BY <1>1, FlowsTyped DEF BusyRecords
<1>3. /\ Finish(f) \in [Flows -> FlowRecords] /\ Finish(f)[f].pc = "idle"
      /\ \A g \in Flows \ {f} : Finish(f)[g] = flow[g]
  BY <1>1, Gone
<1>4. /\ flow' \in [Flows -> FlowRecords] /\ flow'[f].pc = "idle"
      /\ \A g \in Flows \ {f} : flow'[g].pc = flow[g].pc /\ flow'[g].worker = flow[g].worker
  BY <1>3, OutdatedFlows DEF ReleaseUnknown
<1>5. TypeOK' /\ UNCHANGED <<lane, uplink, upload>>
  <2>1. forsaken' \subseteq Workers /\ assigned' \in Workers \cup {NoWorker} /\ observed' \in States
    BY <1>1, <1>2 DEF TypeOK, ReleaseUnknown, Forsake, States
  <2> QED BY <1>1, <1>4, <2>1 DEF TypeOK, ReleaseUnknown, links, wire, bounds
<1>6. ~Converging(f)'
  BY <1>4 DEF Converging, StopPcs
<1> QED BY <1>1, <1>4, <1>5, <1>6, AloneOnRow, StillStep

LEMMA BeginUploadKept ==
  ASSUME LifecycleInv, NEW w \in Workers, BeginUpload(w)
  PROVE  LifecycleInv'
<1>1. TypeOK /\ TypeOK'
  BY DEF LifecycleInv, TypeOK, BeginUpload, row, links, bounds
<1>2. UNCHANGED <<lane, uplink, flow, desired, assigned>>
  BY DEF BeginUpload, row
<1>3. OneEach' /\ AllExpected'
  BY <1>2, WiresStill
<1>4. UploadsHead'
  BY <1>1, <1>2 DEF TypeOK, LifecycleInv, UploadsHead, BeginUpload
<1>5. StopsHold' /\ OneStop' /\ SnapshotsHeld' /\ SnapshotsOwned'
  BY <1>2 DEF LifecycleInv, StopsHold, OneStop, SnapshotsHeld, SnapshotsOwned, Converging, Queued, Messages
<1> QED BY <1>1, <1>3, <1>4, <1>5 DEF LifecycleInv

-----------------------------------------------------------------------------
(* Steps that send and receive.                                              *)

\* Status changes after s, or instead of it, are part of s.
LEMMA Told ==
  ASSUME NEW s \in Seq(ResultRecords \cup StatusRecords), NEW t \in Seq(StatusRecords)
  PROVE  /\ s \o t \in Seq(ResultRecords \cup StatusRecords) /\ Part(s \o t, s)
         /\ t \in Seq(ResultRecords \cup StatusRecords) /\ Part(t, s)
<1>1. t \in Seq(ResultRecords \cup StatusRecords)
  OBVIOUS
<1>2. Elems(t) \subseteq StatusRecords
  BY DEF Elems
<1>3. \A M : M \cap StatusRecords = {} => ~Within(t, M) /\ Once(t, M)
  BY DEF Within, Once
<1>4. /\ s \o t \in Seq(ResultRecords \cup StatusRecords) /\ Elems(s \o t) = Elems(s) \cup Elems(t)
      /\ \A M : /\ Within(s \o t, M) <=> Within(s, M) \/ Within(t, M)
                /\ Once(s, M) /\ Once(t, M) /\ ~(Within(s, M) /\ Within(t, M))
                   => Once(s \o t, M)
  BY <1>1, Joined
<1> QED BY <1>1, <1>2, <1>3, <1>4 DEF Part

LEMMA Itself == \A s : Part(s, s)
  BY DEF Part

\* No status change is a snapshot or names a flow.
LEMMA NoStatuses ==
  /\ Snapshots \cap StatusRecords = {}
  /\ \A f \in Flows : Of(f) \cap StatusRecords = {}
  BY DEF Snapshots, Of, CommandRecords, ResultRecords, StatusRecords

\* What is under way once stays so as wires lose messages.
LEMMA SingleShrunk ==
  ASSUME NEW M, Single(M),
         \A x \in Workers : /\ Within(lane'[x], M) => Within(lane[x], M)
                            /\ Within(uplink'[x], M) => Within(uplink[x], M)
                            /\ Once(lane[x], M) => Once(lane'[x], M)
                            /\ Once(uplink[x], M) => Once(uplink'[x], M)
  PROVE  Single(M)'
<1>1. Single(M)' <=>
        /\ \A w \in Workers : Once(lane'[w], M) /\ Once(uplink'[w], M)
        /\ \A w, x \in Workers :
              /\ Within(lane'[w], M) /\ Within(lane'[x], M) => w = x
              /\ Within(uplink'[w], M) /\ Within(uplink'[x], M) => w = x
              /\ ~(Within(lane'[w], M) /\ Within(uplink'[x], M))
  BY DEF Single, Once, Within
<1> QED BY <1>1 DEF Single

\* The kinds of messages are told apart.
LEMMA Kinds ==
  /\ \A c \in CommandRecords : c.kind = "command"
  /\ \A m \in ResultRecords : m.kind = "result"
  /\ \A m \in StatusRecords : m.kind = "status"
  BY DEF CommandRecords, ResultRecords, StatusRecords

\* The sets of messages, as the sets of a lane's commands.
LEMMA InLane ==
  ASSUME NEW s \in Seq(CommandRecords)
  PROVE  /\ Elems(s) \subseteq CommandRecords
         /\ Within(s, Snapshots) <=> \E c \in Elems(s) : c.op = "snapshot"
         /\ \A f \in Flows : Within(s, Of(f)) <=> \E c \in Elems(s) : c.flow = f
<1>1. \A i \in 1 .. Len(s) : s[i] \in CommandRecords
  OBVIOUS
<1>2. Elems(s) \subseteq CommandRecords
  BY <1>1 DEF Elems
<1>3. \A M : Within(s, M) <=> \E c \in Elems(s) : c \in M
  BY DEF Within, Elems
<1> QED BY <1>2, <1>3 DEF Snapshots, Of

\* And of an uplink's results.
LEMMA InUplink ==
  ASSUME NEW s \in Seq(ResultRecords \cup StatusRecords)
  PROVE  /\ Elems(s) \subseteq ResultRecords \cup StatusRecords
         /\ Within(s, Snapshots) <=> \E m \in Elems(s) : m.kind = "result" /\ m.op = "snapshot"
         /\ \A f \in Flows :
               Within(s, Of(f)) <=> \E m \in Elems(s) : m.kind = "result" /\ m.flow = f
<1>1. \A i \in 1 .. Len(s) : s[i] \in ResultRecords \cup StatusRecords
  OBVIOUS
<1>2. Elems(s) \subseteq ResultRecords \cup StatusRecords
  BY <1>1 DEF Elems
<1>3. \A M : Within(s, M) <=> \E m \in Elems(s) : m \in M
  BY DEF Within, Elems
<1>4. \A m \in StatusRecords : m \notin Snapshots /\ \A f \in Flows : m \notin Of(f)
  BY NoStatuses
<1> QED BY <1>2, <1>3, <1>4, Kinds DEF Snapshots, Of

\* Messages go away or are status changes, and a flow that moves has none left.
LEMMA ShrunkWires ==
  ASSUME LifecycleInv, TypeOK',
         \A x \in Workers : Part(lane'[x], lane[x]) /\ Part(uplink'[x], uplink[x]),
         \A g \in Flows :
            \/ flow'[g].pc = flow[g].pc /\ flow'[g].worker = flow[g].worker
            \/ \A x \in Workers : ~Within(lane'[x], Of(g)) /\ ~Within(uplink'[x], Of(g))
  PROVE  /\ OneEach' /\ AllExpected'
         /\ \A x \in Workers : /\ Queued(x)' \subseteq Queued(x)
                               /\ \A m \in Messages(x)' : m.kind = "result" => m \in Messages(x)
<1>1. TypeOK
  BY DEF LifecycleInv
<1>2. ASSUME NEW M, Single(M), M \cap StatusRecords = {} PROVE Single(M)'
  BY <1>2, SingleShrunk DEF Part
<1>3. OneEach'
  BY <1>2, NoStatuses DEF LifecycleInv, OneEach
<1>4. ASSUME NEW x \in Workers
      PROVE  /\ Queued(x)' \subseteq Queued(x)
             /\ \A m \in Messages(x)' : m.kind = "result" => m \in Messages(x)
  <2>1. Queued(x)' \subseteq CommandRecords
    BY InLane DEF Queued, TypeOK
  <2>2. Queued(x)' \subseteq Queued(x) \cup StatusRecords
    BY DEF Part, Queued
  <2>3. Messages(x)' \subseteq Messages(x) \cup StatusRecords
    BY DEF Part, Messages
  <2> QED BY <2>1, <2>2, <2>3 DEF CommandRecords, StatusRecords
<1>5. ASSUME NEW x \in Workers, NEW g \in Flows,
             ~(flow'[g].pc = flow[g].pc /\ flow'[g].worker = flow[g].worker)
      PROVE  /\ \A c \in Queued(x)' : c.flow # g
             /\ \A m \in Messages(x)' : m.kind = "result" => m.flow # g
  <2>1. ~Within(lane'[x], Of(g)) /\ ~Within(uplink'[x], Of(g))
    BY <1>5
  <2>2. lane'[x] \in Seq(CommandRecords) /\ uplink'[x] \in Seq(ResultRecords \cup StatusRecords)
    BY DEF TypeOK
  <2>3. Queued(x)' = Elems(lane'[x]) /\ Messages(x)' = Elems(uplink'[x])
    BY DEF Queued, Messages, Elems
  <2> QED BY <2>1, <2>2, <2>3, InLane, InUplink
<1>6. AllExpected'
  <2>1. ASSUME NEW x \in Workers, NEW m, Expected(m, x),
               m.flow \in Flows =>
                  flow'[m.flow].pc = flow[m.flow].pc /\ flow'[m.flow].worker = flow[m.flow].worker
        PROVE  Expected(m, x)'
    BY <2>1 DEF Expected, Awaits
  <2> QED BY <1>4, <1>5, <2>1 DEF LifecycleInv, AllExpected
<1> QED BY <1>3, <1>4, <1>6

\* The same, with the row as it is and no flow that begins to converge a stop.
LEMMA Shrunk ==
  ASSUME LifecycleInv, TypeOK', UploadsHead', UNCHANGED <<desired, assigned>>,
         \A x \in Workers : Part(lane'[x], lane[x]) /\ Part(uplink'[x], uplink[x]),
         \A g \in Flows :
            \/ flow'[g].pc = flow[g].pc /\ flow'[g].worker = flow[g].worker
            \/ /\ Converging(g)' => Converging(g) /\ flow'[g].worker = flow[g].worker
               /\ \A x \in Workers : ~Within(lane'[x], Of(g)) /\ ~Within(uplink'[x], Of(g))
  PROVE  LifecycleInv'
<1>1. /\ OneEach' /\ AllExpected'
      /\ \A x \in Workers : /\ Queued(x)' \subseteq Queued(x)
                            /\ \A m \in Messages(x)' : m.kind = "result" => m \in Messages(x)
  BY ShrunkWires
<1>2. \A g \in Flows : Converging(g)' => Converging(g) /\ flow'[g].worker = flow[g].worker
  BY DEF Converging
<1>3. StopsHold' /\ OneStop' /\ SnapshotsHeld' /\ SnapshotsOwned'
  BY <1>1, <1>2 DEF LifecycleInv, StopsHold, OneStop, SnapshotsHeld, SnapshotsOwned
<1> QED BY <1>1, <1>3 DEF LifecycleInv

\* What is in one lane, once, and nowhere else is under way once.
LEMMA SingleInLane ==
  ASSUME NEW M, NEW w \in Workers, Once(lane'[w], M),
         \A x \in Workers \ {w} : ~Within(lane'[x], M), \A x \in Workers : ~Within(uplink'[x], M)
  PROVE  Single(M)'
<1>1. \A s : ~Within(s, M) => Once(s, M)
  BY DEF Within, Once
<1>2. Single(M)' <=>
        /\ \A y \in Workers : Once(lane'[y], M) /\ Once(uplink'[y], M)
        /\ \A y, x \in Workers :
              /\ Within(lane'[y], M) /\ Within(lane'[x], M) => y = x
              /\ Within(uplink'[y], M) /\ Within(uplink'[x], M) => y = x
              /\ ~(Within(lane'[y], M) /\ Within(uplink'[x], M))
  BY DEF Single, Once, Within
<1> QED BY <1>1, <1>2

\* The same of an uplink.
LEMMA SingleInUplink ==
  ASSUME NEW M, NEW w \in Workers, Once(uplink'[w], M),
         \A x \in Workers \ {w} : ~Within(uplink'[x], M), \A x \in Workers : ~Within(lane'[x], M)
  PROVE  Single(M)'
<1>1. \A s : ~Within(s, M) => Once(s, M)
  BY DEF Within, Once
<1>2. Single(M)' <=>
        /\ \A y \in Workers : Once(lane'[y], M) /\ Once(uplink'[y], M)
        /\ \A y, x \in Workers :
              /\ Within(lane'[y], M) /\ Within(lane'[x], M) => y = x
              /\ Within(uplink'[y], M) /\ Within(uplink'[x], M) => y = x
              /\ ~(Within(lane'[y], M) /\ Within(uplink'[x], M))
  BY DEF Single, Once, Within
<1> QED BY <1>1, <1>2

\* What a command is.
LEMMA CommandsMade ==
  \A op \in Verbs, f \in Awaiters :
     /\ Command(op, f) \in CommandRecords /\ Command(op, f).op = op /\ Command(op, f).flow = f
     /\ \A g \in Flows : Command(op, f) \in Of(g) <=> f = g
     /\ Command(op, f) \in Snapshots <=> op = "snapshot"
  BY DEF Command, CommandRecords, Of, Snapshots

\* f sends op to its worker, and awaits it.
LEMMA Sent ==
  ASSUME LifecycleInv, TypeOK', NEW f \in Flows, NEW op \in {"hydrate", "start", "stop", "snapshot"},
         NEW w \in Workers, flow[f].worker = w,
         lane' = [lane EXCEPT ![w] = Append(@, Command(op, f))],
         \A x \in Workers : Part(uplink'[x], uplink[x]),
         \A x \in Workers : ~Within(lane[x], Of(f)) /\ ~Within(uplink'[x], Of(f)),
         op = "snapshot" => /\ Converging(f)
                            /\ \A x \in Workers : ~Within(lane[x], Snapshots) /\ ~Within(uplink[x], Snapshots),
         \A g \in Flows \ {f} : flow'[g].pc = flow[g].pc /\ flow'[g].worker = flow[g].worker,
         Awaits(flow'[f], op), flow'[f].worker = w, Converging(f)' => Converging(f),
         UNCHANGED <<desired, assigned, upload>>
  PROVE  LifecycleInv'
<1> DEFINE c == Command(op, f)
<1>1. /\ c \in CommandRecords /\ c.op = op /\ c.flow = f /\ c.kind = "command"
      /\ \A g \in Flows : c \in Of(g) <=> f = g
      /\ c \in Snapshots <=> op = "snapshot"
  BY CommandsMade, Kinds DEF Verbs, Awaiters
<1> HIDE DEF c
<1>2. /\ \A x \in Workers : /\ lane[x] \in Seq(CommandRecords)
                            /\ uplink[x] \in Seq(ResultRecords \cup StatusRecords)
      /\ \A x \in Workers \ {w} : lane'[x] = lane[x]
      /\ lane'[w] = Append(lane[w], c)
  BY DEF LifecycleInv, TypeOK, c
<1>3. /\ Elems(lane'[w]) = Elems(lane[w]) \cup {c}
      /\ \A M : /\ Within(lane'[w], M) <=> Within(lane[w], M) \/ c \in M
                /\ Once(lane[w], M) /\ ~(Within(lane[w], M) /\ c \in M) => Once(lane'[w], M)
      /\ lane'[w] # <<>>
      /\ lane[w] # <<>> => Head(lane'[w]) = Head(lane[w])
  BY <1>1, <1>2, Appended
<1>4. ASSUME NEW M, Single(M), M \cap StatusRecords = {}, c \notin M PROVE Single(M)'
  BY <1>2, <1>3, <1>4, SingleShrunk DEF Part
<1>5. ASSUME NEW M, c \in M, \A x \in Workers : ~Within(lane[x], M) /\ ~Within(uplink'[x], M)
      PROVE  Single(M)'
  <2>1. Once(lane'[w], M)
    BY <1>3, <1>5 DEF Within, Once
  <2> QED BY <1>2, <1>5, <2>1, SingleInLane
<1>6. OneEach'
  <2>1. \A g \in Flows : Single(Of(g))'
    BY <1>1, <1>4, <1>5, NoStatuses DEF LifecycleInv, OneEach
  <2>2. Single(Snapshots)'
    <3>1. CASE op = "snapshot"
      <4>1. \A x \in Workers : ~Within(uplink'[x], Snapshots)
        BY <3>1, NoStatuses DEF Part
      <4> QED BY <1>1, <1>5, <3>1, <4>1
    <3>2. CASE op # "snapshot"
      BY <1>1, <1>4, <3>2, NoStatuses DEF LifecycleInv, OneEach
    <3> QED BY <3>1, <3>2
  <2> QED BY <2>1, <2>2 DEF OneEach
<1>7. ASSUME NEW x \in Workers
      PROVE  /\ \A m \in Queued(x)' : (m \in Queued(x) /\ m.flow # f) \/ (m = c /\ x = w)
             /\ \A m \in Messages(x)' : m.kind = "result" => m \in Messages(x) /\ m.flow # f
  <2>1. /\ Queued(x) = Elems(lane[x]) /\ Queued(x)' = Elems(lane'[x])
        /\ Messages(x) = Elems(uplink[x]) /\ Messages(x)' = Elems(uplink'[x])
    BY DEF Queued, Messages, Elems
  <2>2. \A m \in Queued(x) : m.flow # f
    BY <1>2, <2>1, InLane
  <2>3. \A m \in Messages(x)' : m.kind = "result" => m.flow # f
    <3>1. uplink'[x] \in Seq(ResultRecords \cup StatusRecords)
      BY DEF TypeOK
    <3> QED BY <2>1, <3>1, InUplink
  <2>4. \A m \in Messages(x)' : m.kind = "result" => m \in Messages(x)
    BY <2>1, Kinds DEF Part
  <2>5. x = w \/ Queued(x)' = Queued(x)
    BY <1>2, <2>1
  <2> QED BY <1>3, <2>1, <2>2, <2>3, <2>4, <2>5
<1>8. AllExpected'
  <2>1. ASSUME NEW x \in Workers, NEW m, Expected(m, x), m.flow # f
        PROVE  Expected(m, x)'
    BY <2>1 DEF Expected, Awaits
  <2>2. Expected(c, w)'
    BY <1>1 DEF Expected
  <2> QED BY <1>7, <2>1, <2>2 DEF LifecycleInv, AllExpected
<1>9. \A g \in Flows : Converging(g)' => Converging(g) /\ flow'[g].worker = flow[g].worker
  BY DEF Converging
<1>10. StopsHold' /\ OneStop'
  BY <1>9 DEF LifecycleInv, StopsHold, OneStop
<1>11. SnapshotsHeld'
  BY <1>1, <1>7 DEF LifecycleInv, StopsHold, SnapshotsHeld
<1>12. SnapshotsOwned'
  BY <1>1, <1>7, <1>9 DEF LifecycleInv, OneStop, SnapshotsOwned
<1>13. UploadsHead'
  BY <1>2, <1>3 DEF LifecycleInv, UploadsHead
<1> QED BY <1>6, <1>8, <1>10, <1>11, <1>12, <1>13 DEF LifecycleInv

\* A flow that awaits nothing has no message under way.
LEMMA Quiet ==
  ASSUME LifecycleInv, NEW f \in Flows, flow[f].pc \notin AwaitPcs, NEW x \in Workers
  PROVE  ~Within(lane[x], Of(f)) /\ ~Within(uplink[x], Of(f))
<1>1. lane[x] \in Seq(CommandRecords) /\ uplink[x] \in Seq(ResultRecords \cup StatusRecords)
  BY DEF LifecycleInv, TypeOK
<1>2. Queued(x) = Elems(lane[x]) /\ Messages(x) = Elems(uplink[x])
  BY DEF Queued, Messages
<1>3. \A op : ~Awaits(flow[f], op)
  BY DEF Awaits, AwaitPcs
<1> QED BY <1>1, <1>2, <1>3, InLane, InUplink DEF LifecycleInv, AllExpected, Expected

\* f sends a command of its own accord, or finds its worker gone.
LEMMA Dispatched ==
  ASSUME LifecycleInv, NEW f \in Flows, flow[f].pc # "idle", flow[f].pc \notin AwaitPcs,
         NEW op \in {"hydrate", "start", "stop", "snapshot"},
         NEW r, r \in BusyRecords, r.worker = flow[f].worker, Awaits(r, op),
         r.pc \in StopPcs => Converging(f), op = "snapshot" => flow[f].pc = "snapshot",
         Dispatch(f, op, r),
         UNCHANGED <<row, links, upload, uplink, detached, inst, forsaken, bounds>>
  PROVE  LifecycleInv'
<1> DEFINE w == flow[f].worker
<1>1. TypeOK /\ flow[f] \in BusyRecords /\ w \in Workers
  BY FlowsTyped DEF LifecycleInv, BusyRecords
<1>2. UNCHANGED <<desired, assigned, upload, uplink>>
  BY DEF row
<1>3. CASE w \in online
  <2>1. lane' = [lane EXCEPT ![w] = Append(@, Command(op, f))] /\ flow' = [flow EXCEPT ![f] = r]
    BY <1>3 DEF Dispatch
  <2>2. lane' \in [Workers -> Seq(CommandRecords)]
    <3>1. Command(op, f) \in CommandRecords
      BY CommandsMade DEF Verbs, Awaiters
    <3> QED BY <1>1, <2>1, <3>1 DEF TypeOK
  <2>3. /\ flow' \in [Flows -> FlowRecords] /\ flow'[f] = r
        /\ \A g \in Flows \ {f} : flow'[g] = flow[g]
    BY <1>1, <2>1 DEF TypeOK, FlowRecords
  <2>4. TypeOK'
    BY <1>1, <2>2, <2>3 DEF TypeOK, row, links, bounds
  <2>5. \A x \in Workers : /\ ~Within(lane[x], Of(f)) /\ ~Within(uplink'[x], Of(f))
                           /\ Part(uplink'[x], uplink[x])
    BY <1>2, Quiet, Itself
  <2>6. op = "snapshot" =>
           /\ Converging(f)
           /\ \A x \in Workers : ~Within(lane[x], Snapshots) /\ ~Within(uplink[x], Snapshots)
    <3> SUFFICES ASSUME op = "snapshot"
                 PROVE  /\ Converging(f)
                        /\ \A x \in Workers : ~Within(lane[x], Snapshots) /\ ~Within(uplink[x], Snapshots)
      OBVIOUS
    <3>1. Converging(f)
      BY DEF Converging, StopPcs
    <3>2. /\ \A x \in Workers : \A c \in Queued(x) : c.op # "snapshot"
          /\ \A x \in Workers : \A m \in Messages(x) : ~(m.kind = "result" /\ m.op = "snapshot")
      BY <3>1, AloneOnRow DEF Unheld
    <3>3. \A x \in Workers : /\ lane[x] \in Seq(CommandRecords)
                             /\ uplink[x] \in Seq(ResultRecords \cup StatusRecords)
      BY <1>1 DEF TypeOK
    <3> QED BY <3>1, <3>2, <3>3, InLane, InUplink DEF Queued, Messages
  <2>7. Awaits(flow'[f], op) /\ (Converging(f)' => Converging(f))
    BY <2>3 DEF Converging
  <2> HIDE DEF w
  <2> QED BY <1>1, <1>2, <2>1, <2>3, <2>4, <2>5, <2>6, <2>7, Sent DEF w
<1>4. CASE w \notin online
  <2> DEFINE q == Lost(flow[f], FALSE)
  <2>1. /\ q \in FlowRecords
        /\ q.pc \in StopPcs => Converging(f) /\ q.worker = w
    <3>1. /\ q \in FlowRecords
          /\ \/ q = Idle
             \/ /\ q.worker = w
                /\ q.pc = "revert" \/ (q.pc = "release" /\ flow[f].pc \in {"snapshot", "uploading"})
      BY <1>1, LostFlows, Zenon
    <3> HIDE DEF q
    <3> QED BY <3>1 DEF Converging, StopPcs, Idle
  <2> HIDE DEF q
  <2>2. flow' = [flow EXCEPT ![f] = q] /\ UNCHANGED lane
    BY <1>4 DEF Dispatch, q
  <2>3. TypeOK' /\ flow'[f] = q /\ \A g \in Flows \ {f} : flow'[g] = flow[g]
    BY <1>1, <2>1, <2>2, FlowTyped DEF TypeOK, row, wire
  <2>4. Converging(f)' => Converging(f) /\ flow'[f].worker = flow[f].worker
    BY <2>1, <2>3 DEF Converging
  <2> QED BY <1>2, <2>2, <2>3, <2>4, StillStep
<1> QED BY <1>3, <1>4

LEMMA SendStopKept ==
  ASSUME LifecycleInv, NEW f \in Flows, SendStop(f)
  PROVE  LifecycleInv'
<1> DEFINE r == [flow[f] EXCEPT !.pc = "stopping"]
<1>1. flow[f].pc = "stop" /\ flow[f].pc \notin AwaitPcs /\ Converging(f)
  BY DEF SendStop, AwaitPcs, Converging, StopPcs
<1>2. r \in BusyRecords /\ r.worker = flow[f].worker /\ r.pc = "stopping"
  BY <1>1, FlowsTyped DEF LifecycleInv, BusyRecords, Pcs, StopPcs
<1>3. Awaits(r, "stop")
  BY <1>2 DEF Awaits
<1> HIDE DEF r
<1> QED BY <1>1, <1>2, <1>3, Dispatched DEF SendStop, r

LEMMA SendSnapshotKept ==
  ASSUME LifecycleInv, NEW f \in Flows, SendSnapshot(f)
  PROVE  LifecycleInv'
<1> DEFINE r == [flow[f] EXCEPT !.pc = "uploading"]
<1>1. flow[f].pc = "snapshot" /\ flow[f].pc \notin AwaitPcs /\ Converging(f)
  BY DEF SendSnapshot, AwaitPcs, Converging, StopPcs
<1>2. r \in BusyRecords /\ r.worker = flow[f].worker /\ r.pc = "uploading"
  BY <1>1, FlowsTyped DEF LifecycleInv, BusyRecords, Pcs, StopPcs
<1>3. Awaits(r, "snapshot")
  BY <1>2 DEF Awaits
<1> HIDE DEF r
<1> QED BY <1>1, <1>2, <1>3, Dispatched DEF SendSnapshot, r

\* The records of a launch's two commands.
LEMMA Launchers ==
  \A r \in BusyRecords, skip \in BOOLEAN :
     /\ [r EXCEPT !.pc = "hydrating", !.skip = FALSE] \in BusyRecords
     /\ [r EXCEPT !.pc = "hydrating", !.skip = FALSE].pc = "hydrating"
     /\ [r EXCEPT !.pc = "hydrating", !.skip = FALSE].worker = r.worker
     /\ [r EXCEPT !.pc = "launching", !.skip = skip, !.attempted = TRUE] \in BusyRecords
     /\ [r EXCEPT !.pc = "launching", !.skip = skip, !.attempted = TRUE].pc = "launching"
     /\ [r EXCEPT !.pc = "launching", !.skip = skip, !.attempted = TRUE].worker = r.worker
  BY DEF BusyRecords, Pcs

LEMMA LaunchKept ==
  ASSUME LifecycleInv, NEW f \in Flows, Launch(f)
  PROVE  LifecycleInv'
<1> DEFINE h == [flow[f] EXCEPT !.pc = "hydrating", !.skip = FALSE]
           s == [flow[f] EXCEPT !.pc = "launching", !.skip = TRUE, !.attempted = TRUE]
<1>1. flow[f].pc = "launch" /\ flow[f].pc \notin AwaitPcs /\ flow[f] \in BusyRecords
  BY FlowsTyped DEF Launch, AwaitPcs, LifecycleInv
<1>2. /\ h \in BusyRecords /\ h.worker = flow[f].worker /\ h.pc = "hydrating"
      /\ s \in BusyRecords /\ s.worker = flow[f].worker /\ s.pc = "launching"
  BY <1>1, Launchers
<1> HIDE DEF h, s
<1>3. Awaits(h, "hydrate") /\ Awaits(s, "start") /\ h.pc \notin StopPcs /\ s.pc \notin StopPcs
  BY <1>2 DEF Awaits, StopPcs
<1>4. CASE SendHydrate(f)
  BY <1>1, <1>2, <1>3, <1>4, Dispatched DEF Launch, SendHydrate, h
<1>5. CASE SendStart(f, TRUE)
  BY <1>1, <1>2, <1>3, <1>5, Dispatched DEF Launch, SendStart, s
<1> QED BY <1>4, <1>5 DEF Launch

LEMMA RestartKept ==
  ASSUME LifecycleInv, Restart
  PROVE  LifecycleInv'
<1> DEFINE c == Command("restart", NoFlow)
           w == assigned
<1>1. /\ c \in CommandRecords /\ c.op = "restart" /\ c.flow = NoFlow /\ c \notin Snapshots
      /\ \A g \in Flows : c \notin Of(g)
  BY CommandsMade, IdsAssumption DEF Verbs, Awaiters
<1> HIDE DEF c
<1>2. TypeOK /\ w \in Workers
  BY DEF LifecycleInv, TypeOK, Restart
<1>3. lane' = [lane EXCEPT ![w] = Append(@, c)] /\ UNCHANGED <<flow, desired, assigned, upload, uplink>>
  BY DEF Restart, row, c
<1> HIDE DEF w
<1>4. /\ \A x \in Workers \ {w} : lane'[x] = lane[x]
      /\ lane[w] \in Seq(CommandRecords) /\ lane'[w] = Append(lane[w], c)
  BY <1>2, <1>3 DEF TypeOK
<1>5. /\ lane'[w] \in Seq(CommandRecords) /\ Elems(lane'[w]) = Elems(lane[w]) \cup {c}
      /\ \A M : c \notin M => /\ Within(lane'[w], M) <=> Within(lane[w], M)
                              /\ Once(lane[w], M) => Once(lane'[w], M)
      /\ lane[w] # <<>> => lane'[w] # <<>> /\ Head(lane'[w]) = Head(lane[w])
  BY <1>1, <1>4, Appended
<1>6. TypeOK'
  <2>1. requests' \in 0 .. MaxRequests /\ faults' \in 0 .. MaxFaults
    BY <1>2, Counted DEF Restart
  <2>2. lane' \in [Workers -> Seq(CommandRecords)]
    BY <1>2, <1>3, <1>4, <1>5 DEF TypeOK
  <2> QED BY <1>2, <1>3, <2>1, <2>2 DEF TypeOK, Restart, row, links
<1>7. ASSUME NEW M, Single(M), c \notin M PROVE Single(M)'
  BY <1>3, <1>4, <1>5, <1>7, SingleShrunk
<1>8. OneEach'
  BY <1>1, <1>7 DEF LifecycleInv, OneEach
<1>9. \A x \in Workers : /\ \A m \in Queued(x)' : m \in Queued(x) \/ m = c
                         /\ Messages(x)' = Messages(x)
  BY <1>3, <1>4, <1>5 DEF Queued, Messages, Elems
<1>10. AllExpected'
  <2>1. \A x \in Workers : \A m : Expected(m, x) => Expected(m, x)'
    BY <1>3 DEF Expected
  <2>2. \A x \in Workers : Expected(c, x)'
    BY <1>1, IdsAssumption DEF Expected
  <2> QED BY <1>9, <2>1, <2>2 DEF LifecycleInv, AllExpected
<1>11. \A g \in Flows : ~Converging(g)'
  BY <1>3, FreeToStart DEF Restart, Converging
<1>12. SnapshotsHeld'
  BY <1>1, <1>9, FreeToStart DEF Restart, SnapshotsHeld
<1>13. StopsHold' /\ OneStop' /\ SnapshotsOwned'
  BY <1>11 DEF StopsHold, OneStop, SnapshotsOwned
<1>14. UploadsHead'
  BY <1>3, <1>4, <1>5 DEF LifecycleInv, UploadsHead
<1> QED BY <1>6, <1>8, <1>10, <1>12, <1>13, <1>14 DEF LifecycleInv

\* One message of w's uplink is taken off it.
LEMMA Consumed ==
  ASSUME TypeOK, NEW w \in Workers, NEW i \in 1 .. Len(uplink[w]), UNCHANGED lane,
         uplink' = [uplink EXCEPT ![w] = Without(@, i)]
  PROVE  /\ uplink' \in [Workers -> Seq(ResultRecords \cup StatusRecords)]
         /\ \A x \in Workers : Part(lane'[x], lane[x]) /\ Part(uplink'[x], uplink[x])
         /\ uplink[w][i] \in ResultRecords \cup StatusRecords /\ uplink[w][i] \in Messages(w)
         /\ \A M : uplink[w][i] \in M => Within(uplink[w], M) /\ (Single(M) => ~Within(uplink'[w], M))
<1> DEFINE s == uplink[w]
<1>1. s \in Seq(ResultRecords \cup StatusRecords)
  BY DEF TypeOK
<1> HIDE DEF s
<1>2. /\ Without(s, i) \in Seq(ResultRecords \cup StatusRecords)
      /\ s[i] \in ResultRecords \cup StatusRecords /\ s[i] \in Elems(s) /\ Part(Without(s, i), s)
      /\ \A M : s[i] \in M => Within(s, M) /\ (Once(s, M) => ~Within(Without(s, i), M))
  <2>1. i \in 1 .. Len(s)
    BY DEF s
  <2> QED BY <1>1, <2>1, Taken
<1>3. uplink'[w] = Without(s, i) /\ \A x \in Workers \ {w} : uplink'[x] = uplink[x]
  BY DEF TypeOK, s
<1>4. uplink' \in [Workers -> Seq(ResultRecords \cup StatusRecords)]
  BY <1>2, <1>3 DEF TypeOK
<1>5. \A x \in Workers : Part(lane'[x], lane[x]) /\ Part(uplink'[x], uplink[x])
  BY <1>2, <1>3, Itself DEF s
<1> QED BY <1>2, <1>3, <1>4, <1>5 DEF s, Messages, Single

LEMMA ReceiveStatusKept ==
  ASSUME LifecycleInv, NEW w \in Workers, NEW i \in DOMAIN uplink[w], ReceiveStatus(w, i)
  PROVE  LifecycleInv'
<1>1. TypeOK /\ i \in 1 .. Len(uplink[w]) /\ UNCHANGED <<lane, upload, desired, assigned>>
  BY DEF LifecycleInv, ReceiveStatus, Sendable
<1>2. /\ uplink' \in [Workers -> Seq(ResultRecords \cup StatusRecords)]
      /\ \A x \in Workers : Part(lane'[x], lane[x]) /\ Part(uplink'[x], uplink[x])
      /\ uplink[w][i] \in ResultRecords \cup StatusRecords
  BY <1>1, Consumed DEF ReceiveStatus
<1>3. /\ flow' \in [Flows -> FlowRecords]
      /\ \A g \in Flows : flow'[g].pc = flow[g].pc /\ flow'[g].worker = flow[g].worker
  <2>1. flow \in [Flows -> FlowRecords]
    BY <1>1 DEF TypeOK
  <2>2. flow' = flow \/ flow' = Outdated(flow)
    BY DEF ReceiveStatus
  <2> QED BY <2>1, <2>2, OutdatedFlows
<1>4. observed' \in States
  BY <1>1, <1>2 DEF TypeOK, ReceiveStatus, ResultRecords, StatusRecords
<1>5. TypeOK' /\ UploadsHead'
  BY <1>1, <1>2, <1>3, <1>4 DEF LifecycleInv, UploadsHead, TypeOK, ReceiveStatus, links, bounds
<1> QED BY <1>1, <1>2, <1>3, <1>5, Shrunk

LEMMA ReceiveLateKept ==
  ASSUME LifecycleInv, NEW w \in Workers, NEW i \in DOMAIN uplink[w], ReceiveLate(w, i)
  PROVE  LifecycleInv'
<1>1. TypeOK /\ i \in 1 .. Len(uplink[w]) /\ UNCHANGED <<lane, upload, desired, flow>>
  BY DEF LifecycleInv, ReceiveLate, Sendable
<1>2. /\ uplink' \in [Workers -> Seq(ResultRecords \cup StatusRecords)]
      /\ \A x \in Workers : Part(lane'[x], lane[x]) /\ Part(uplink'[x], uplink[x])
  BY <1>1, Consumed DEF ReceiveLate
<1>3. TypeOK' /\ UploadsHead'
  <2>1. assigned' \in Workers \cup {NoWorker}
    BY <1>1 DEF TypeOK, ReceiveLate
  <2> QED BY <1>1, <1>2, <2>1 DEF LifecycleInv, UploadsHead, TypeOK, ReceiveLate, links, bounds
<1>4. CASE UNCHANGED assigned
  BY <1>1, <1>2, <1>3, <1>4, Shrunk
<1>5. CASE ~InFlight'
  <2>1. OneEach' /\ AllExpected'
    BY <1>1, <1>2, <1>3, ShrunkWires
  <2>2. StopsHold' /\ OneStop' /\ SnapshotsHeld' /\ SnapshotsOwned'
    BY <1>5 DEF InFlight, Outstanding, StopsHold, OneStop, SnapshotsHeld, SnapshotsOwned, Converging
  <2> QED BY <1>3, <2>1, <2>2 DEF LifecycleInv
<1> QED BY <1>4, <1>5 DEF ReceiveLate

\* What is known of the result a flow receives: it awaits it, and nothing else.
LEMMA Heard ==
  ASSUME LifecycleInv, NEW w \in Workers, NEW i \in DOMAIN uplink[w], ReceiveResult(w, i)
  PROVE  \E r \in ResultRecords, f \in Flows :
            /\ r = uplink[w][i] /\ f = r.flow /\ Awaits(flow[f], r.op)
            /\ flow[f] \in BusyRecords /\ flow[f].worker = w /\ w \in online
            /\ uplink' \in [Workers -> Seq(ResultRecords \cup StatusRecords)]
            /\ \A x \in Workers :
                  /\ Part(lane[x], lane[x]) /\ Part(uplink'[x], uplink[x])
                  /\ ~Within(lane[x], Of(f)) /\ ~Within(uplink'[x], Of(f))
<1>1. TypeOK /\ i \in 1 .. Len(uplink[w]) /\ uplink' = [uplink EXCEPT ![w] = Without(@, i)]
  BY DEF LifecycleInv, ReceiveResult, Sendable
<1>2. PICK r \in ResultRecords \cup StatusRecords :
         /\ r = uplink[w][i] /\ r \in Messages(w) /\ Part(Without(uplink[w], i), uplink[w])
         /\ Without(uplink[w], i) \in Seq(ResultRecords \cup StatusRecords)
         /\ \A M : r \in M => Within(uplink[w], M)
                              /\ (Once(uplink[w], M) => ~Within(Without(uplink[w], i), M))
  <2>1. uplink[w] \in Seq(ResultRecords \cup StatusRecords)
    BY <1>1 DEF TypeOK
  <2> QED BY <1>1, <2>1, Taken DEF Messages
<1>3. r.kind = "result" /\ r.flow # NoFlow /\ w \in online
  BY <1>2 DEF ReceiveResult
<1>4. r \in ResultRecords /\ r.flow \in Flows
  BY <1>3 DEF ResultRecords, StatusRecords, Awaiters
<1>5. PICK f \in Flows : f = r.flow
  BY <1>4
<1>6. Awaits(flow[f], r.op) /\ flow[f].worker = w
  BY <1>2, <1>3, <1>5 DEF LifecycleInv, AllExpected, Expected
<1>7. flow[f] \in BusyRecords
  BY <1>1, <1>6, FlowsTyped DEF Awaits
<1>8. r \in Of(f) /\ Single(Of(f))
  BY <1>4, <1>5 DEF Of, LifecycleInv, OneEach
<1>9. /\ uplink'[w] = Without(uplink[w], i) /\ \A x \in Workers \ {w} : uplink'[x] = uplink[x]
      /\ uplink' \in [Workers -> Seq(ResultRecords \cup StatusRecords)]
  BY <1>1, <1>2 DEF TypeOK
<1>10. \A x \in Workers : ~Within(lane[x], Of(f)) /\ ~Within(uplink'[x], Of(f))
  BY <1>2, <1>8, <1>9 DEF Single
<1>11. \A x \in Workers : Part(lane[x], lane[x]) /\ Part(uplink'[x], uplink[x])
  BY <1>2, <1>9, Itself
<1> QED BY <1>2, <1>3, <1>4, <1>5, <1>6, <1>7, <1>9, <1>10, <1>11

LEMMA ReceiveResultKept ==
  ASSUME LifecycleInv, NEW w \in Workers, NEW i \in DOMAIN uplink[w], ReceiveResult(w, i)
  PROVE  LifecycleInv'
<1>1. PICK r \in ResultRecords, f \in Flows :
         /\ r = uplink[w][i] /\ f = r.flow /\ Awaits(flow[f], r.op)
         /\ flow[f] \in BusyRecords /\ flow[f].worker = w /\ w \in online
         /\ uplink' \in [Workers -> Seq(ResultRecords \cup StatusRecords)]
         /\ \A x \in Workers :
               /\ Part(lane[x], lane[x]) /\ Part(uplink'[x], uplink[x])
               /\ ~Within(lane[x], Of(f)) /\ ~Within(uplink'[x], Of(f))
  BY Heard
<1>2. TypeOK /\ UNCHANGED <<row, links, upload, detached, inst, forsaken, bounds>>
      /\ UNCHANGED <<desired, assigned>>
  BY DEF LifecycleInv, ReceiveResult, row
<1>3. \/ r.op = "hydrate" /\ r.status = "ok" /\ SendStart(f, FALSE)
      \/ r.op = "start" /\ r.status = "absent" /\ SendHydrate(f)
      \/ /\ r.op \in {"hydrate", "start"} /\ UNCHANGED lane
         /\ flow' = [flow EXCEPT ![f] = Refused(@, r.status)] \/ flow' = Finish(f)
      \/ r.op = "stop" /\ flow' = [flow EXCEPT ![f] = StopAnswered(@, r.status)] /\ UNCHANGED lane
      \/ r.op = "snapshot" /\ flow' = [flow EXCEPT ![f] = Lost(@, FALSE)] /\ UNCHANGED lane
  <2>1. r.op \in {"hydrate", "start", "stop", "snapshot"}
    BY <1>1 DEF Awaits
  <2> QED BY <1>1, <2>1 DEF ReceiveResult
\* An answer after which f sends nothing.
<1>4. ASSUME NEW q, q \in FlowRecords, flow' = [flow EXCEPT ![f] = q], UNCHANGED lane,
             q.pc \in StopPcs => Converging(f) /\ q.worker = w
      PROVE  LifecycleInv'
  <2>1. /\ flow' \in [Flows -> FlowRecords] /\ flow'[f] = q
        /\ \A g \in Flows \ {f} : flow'[g] = flow[g]
    BY <1>1, <1>2, <1>4 DEF TypeOK
  <2>2. TypeOK' /\ UploadsHead'
    BY <1>1, <1>2, <1>4, <2>1 DEF LifecycleInv, UploadsHead, TypeOK, row, links, bounds
  <2>3. Converging(f)' => Converging(f) /\ flow'[f].worker = flow[f].worker
    BY <1>1, <1>4, <2>1 DEF Converging
  <2>4. \A x \in Workers : Part(lane'[x], lane[x])
    BY <1>1, <1>4
  <2> QED BY <1>1, <1>2, <1>4, <2>1, <2>2, <2>3, <2>4, Shrunk
\* And one after which it sends op.
<1>5. ASSUME NEW q, q \in BusyRecords, NEW op \in {"hydrate", "start"}, q.worker = w,
             Awaits(q, op), q.pc \notin StopPcs, Dispatch(f, op, q)
      PROVE  LifecycleInv'
  <2>1. lane' = [lane EXCEPT ![w] = Append(@, Command(op, f))] /\ flow' = [flow EXCEPT ![f] = q]
    BY <1>1, <1>5 DEF Dispatch
  <2>2. lane' \in [Workers -> Seq(CommandRecords)]
    <3>1. Command(op, f) \in CommandRecords
      BY <1>1, CommandsMade DEF Verbs, Awaiters
    <3> QED BY <1>2, <2>1, <3>1 DEF TypeOK
  <2>3. /\ flow' \in [Flows -> FlowRecords] /\ flow'[f] = q
        /\ \A g \in Flows \ {f} : flow'[g] = flow[g]
    BY <1>1, <1>2, <1>5, <2>1 DEF TypeOK, FlowRecords
  <2>4. TypeOK'
    BY <1>1, <1>2, <2>2, <2>3 DEF TypeOK, row, links, bounds
  <2>5. ~Converging(f)' /\ op # "snapshot" /\ op \in {"hydrate", "start", "stop", "snapshot"}
    BY <1>5, <2>3 DEF Converging
  <2> QED BY <1>1, <1>2, <1>5, <2>1, <2>3, <2>4, <2>5, Sent
<1>6. CASE r.op = "hydrate" /\ r.status = "ok" /\ SendStart(f, FALSE)
  <2> DEFINE q == [flow[f] EXCEPT !.pc = "launching", !.skip = FALSE, !.attempted = TRUE]
  <2>1. q \in BusyRecords /\ q.worker = w /\ q.pc = "launching"
    BY <1>1, Launchers
  <2> HIDE DEF q
  <2>2. Awaits(q, "start") /\ q.pc \notin StopPcs /\ Dispatch(f, "start", q)
    BY <1>6, <2>1 DEF Awaits, StopPcs, SendStart, q
  <2> QED BY <1>5, <2>1, <2>2
<1>7. CASE r.op = "start" /\ r.status = "absent" /\ SendHydrate(f)
  <2> DEFINE q == [flow[f] EXCEPT !.pc = "hydrating", !.skip = FALSE]
  <2>1. q \in BusyRecords /\ q.worker = w /\ q.pc = "hydrating"
    BY <1>1, Launchers
  <2> HIDE DEF q
  <2>2. Awaits(q, "hydrate") /\ q.pc \notin StopPcs /\ Dispatch(f, "hydrate", q)
    BY <1>7, <2>1 DEF Awaits, StopPcs, SendHydrate, q
  <2> QED BY <1>5, <2>1, <2>2
<1>8. CASE /\ r.op \in {"hydrate", "start"} /\ UNCHANGED lane
           /\ flow' = [flow EXCEPT ![f] = Refused(@, r.status)] \/ flow' = Finish(f)
  <2>1. CASE flow' = [flow EXCEPT ![f] = Refused(@, r.status)]
    <3> DEFINE q == Refused(flow[f], r.status)
    <3>1. q \in FlowRecords /\ q.pc \notin StopPcs
      BY <1>1, RefusedFlows DEF StopPcs, Idle
    <3> HIDE DEF q
    <3>2. flow' = [flow EXCEPT ![f] = q]
      BY <2>1 DEF q
    <3> QED BY <1>4, <1>8, <3>1, <3>2
  <2>2. CASE flow' = Finish(f)
    <3>1. Idle \in FlowRecords /\ Idle.pc \notin StopPcs
      BY DEF FlowRecords, StopPcs, Idle
    <3> QED BY <1>4, <1>8, <2>2, <3>1 DEF Finish
  <2> QED BY <1>8, <2>1, <2>2
<1>9. CASE r.op = "stop" /\ flow' = [flow EXCEPT ![f] = StopAnswered(@, r.status)] /\ UNCHANGED lane
  <2> DEFINE q == StopAnswered(flow[f], r.status)
  <2>1. q \in FlowRecords /\ (q.pc \in StopPcs => q.worker = w)
    BY <1>1, StopAnsweredFlows DEF StopPcs, Idle
  <2>2. Converging(f)
    BY <1>1, <1>9 DEF Awaits, Converging, StopPcs
  <2> HIDE DEF q
  <2>3. flow' = [flow EXCEPT ![f] = q]
    BY <1>9 DEF q
  <2> QED BY <1>4, <1>9, <2>1, <2>2, <2>3
<1>10. CASE r.op = "snapshot" /\ flow' = [flow EXCEPT ![f] = Lost(@, FALSE)] /\ UNCHANGED lane
  <2> DEFINE q == Lost(flow[f], FALSE)
  <2>1. q \in FlowRecords /\ (q = Idle \/ q.worker = w)
    BY <1>1, LostFlows, Zenon DEF q
  <2>2. Converging(f)
    BY <1>1, <1>10 DEF Awaits, Converging, StopPcs
  <2>3. flow' = [flow EXCEPT ![f] = q]
    BY <1>10 DEF q
  <2> HIDE DEF q
  <2>4. q.pc \in StopPcs => q.worker = w
    BY <2>1 DEF StopPcs, Idle
  <2> QED BY <1>4, <1>10, <2>1, <2>2, <2>3, <2>4
<1> QED BY <1>3, <1>6, <1>7, <1>8, <1>9, <1>10

\* The outcomes of a command are processes, status changes and an answer.
Processes == {"none", "starting", "running", "orphan"}
Answers == {"ok", "failed", "absent", "invalid", "busy", "notfound", "refused", "done"}

\* The status changes a worker sends.
LEMMA StatusSequences ==
  /\ <<>> \in Seq(StatusRecords)
  /\ \A s \in States : Status(s) \in StatusRecords /\ <<Status(s)>> \in Seq(StatusRecords)
  /\ StatusesOfStop \in Seq(StatusRecords)
  /\ StatusesOfStop \o <<Status("starting")>> \in Seq(StatusRecords)
<1>1. \A s \in States : Status(s) \in StatusRecords
  BY DEF Status, StatusRecords
<1>2. \A s \in States : <<Status(s)>> \in Seq(StatusRecords)
  BY <1>1
<1>3. \A s, t \in States : <<Status(s), Status(t)>> \in Seq(StatusRecords)
  BY <1>1
<1>4. {"stopping", "stopped", "starting"} \subseteq States
  BY DEF States
<1>5. StatusesOfStop \in Seq(StatusRecords)
  BY <1>3, <1>4 DEF StatusesOfStop
<1>6. StatusesOfStop \o <<Status("starting")>> \in Seq(StatusRecords)
  BY <1>2, <1>4, <1>5, Joined
<1>7. <<>> \in Seq(StatusRecords)
  OBVIOUS
<1> QED BY <1>1, <1>2, <1>5, <1>6, <1>7

LEMMA OutcomesTyped ==
  ASSUME TypeOK, NEW w \in Workers, NEW op \in {"hydrate", "start", "stop", "restart"},
         NEW o \in Outcomes(w, op)
  PROVE  o.to \in Processes /\ o.emits \in Seq(StatusRecords) /\ o.status \in Answers
<1>1. inst[w] \in Processes
  BY DEF TypeOK, Processes
<1>2. \A p \in Processes, e \in Seq(StatusRecords), a \in Answers :
         /\ Outcome(p, e, a).to \in Processes /\ Outcome(p, e, a).emits \in Seq(StatusRecords)
         /\ Outcome(p, e, a).status \in Answers
  BY DEF Outcome
<1>3. \A a \in Answers : /\ Unmoved(w, a).to \in Processes /\ Unmoved(w, a).emits \in Seq(StatusRecords)
                         /\ Unmoved(w, a).status \in Answers
  BY <1>1, <1>2, StatusSequences DEF Unmoved
<1>4. {"ok", "failed", "absent", "invalid", "busy", "notfound", "refused"} \subseteq Answers
      /\ {"none", "starting", "orphan"} \subseteq Processes /\ {"starting", "stopping"} \subseteq States
  BY DEF Answers, Processes, States
<1>5. CASE detached[w] # "none"
  BY <1>3, <1>4, <1>5 DEF Outcomes
<1>6. CASE detached[w] = "none" /\ op = "hydrate"
  <2>1. \E a \in {"ok", "failed", "invalid", "busy"} : o = Unmoved(w, a)
    BY <1>6 DEF Outcomes, HydrateOutcomes, Reserved
  <2> QED BY <2>1, <1>3, <1>4
<1>7. CASE detached[w] = "none" /\ op = "start"
  <2>1. \/ \E a \in {"failed", "absent", "invalid", "busy"} : o = Unmoved(w, a)
        \/ o = Outcome("starting", <<Status("starting")>>, "ok")
    BY <1>7 DEF Outcomes, StartOutcomes, Reserved
  <2> QED BY <2>1, <1>2, <1>3, <1>4, StatusSequences
<1>8. CASE detached[w] = "none" /\ op = "stop"
  <2>1. \/ o = Unmoved(w, "notfound")
        \/ o = Outcome("none", StatusesOfStop, "ok")
        \/ o = Outcome("orphan", <<Status("stopping")>>, "failed")
    BY <1>8 DEF Outcomes, StopOutcomes
  <2> QED BY <2>1, <1>2, <1>3, <1>4, StatusSequences
<1>9. CASE detached[w] = "none" /\ op = "restart"
  <2>1. \/ o = Unmoved(w, "refused")
        \/ o = Outcome("starting", StatusesOfStop \o <<Status("starting")>>, "ok")
        \/ o = Outcome("none", StatusesOfStop, "failed")
        \/ o = Outcome("orphan", <<Status("stopping")>>, "failed")
    BY <1>9 DEF Outcomes, RestartOutcomes
  <2> QED BY <2>1, <1>2, <1>3, <1>4, StatusSequences
<1> QED BY <1>5, <1>6, <1>7, <1>8, <1>9

\* The lane's head c is done with, and answered by m or by nothing.
LEMMA Answered ==
  ASSUME LifecycleInv, TypeOK', UploadsHead', UNCHANGED <<desired, assigned, flow>>,
         NEW w \in Workers, lane[w] # <<>>, lane' = [lane EXCEPT ![w] = Tail(@)],
         NEW c, c = Head(lane[w]),
         NEW m \in ResultRecords, m.op = c.op, m.flow = c.flow,
         NEW t \in Seq(ResultRecords \cup StatusRecords),
         uplink' = [uplink EXCEPT ![w] = @ \o t],
         Elems(t) \subseteq StatusRecords \cup {m},
         \A M : M \cap StatusRecords = {} => Once(t, M)
  PROVE  LifecycleInv'
<1>1. /\ lane[w] \in Seq(CommandRecords) /\ uplink[w] \in Seq(ResultRecords \cup StatusRecords)
      /\ lane'[w] = Tail(lane[w]) /\ uplink'[w] = uplink[w] \o t
      /\ \A x \in Workers \ {w} : lane'[x] = lane[x] /\ uplink'[x] = uplink[x]
  BY DEF LifecycleInv, TypeOK
<1>2. /\ c \in CommandRecords /\ c \in Queued(w) /\ Part(lane'[w], lane[w])
      /\ \A M : c \in M => Within(lane[w], M) /\ (Once(lane[w], M) => ~Within(lane'[w], M))
  BY <1>1, Shortened DEF Queued
<1>3. /\ Elems(uplink'[w]) = Elems(uplink[w]) \cup Elems(t)
      /\ \A M : /\ Within(uplink'[w], M) <=> Within(uplink[w], M) \/ Within(t, M)
                /\ Once(uplink[w], M) /\ Once(t, M) /\ ~(Within(uplink[w], M) /\ Within(t, M))
                   => Once(uplink'[w], M)
  <2> DEFINE s == uplink[w]
  <2>1. s \in Seq(ResultRecords \cup StatusRecords) /\ uplink'[w] = s \o t
    BY <1>1
  <2> HIDE DEF s
  <2>2. /\ Elems(s \o t) = Elems(s) \cup Elems(t)
        /\ \A M : /\ Within(s \o t, M) <=> Within(s, M) \/ Within(t, M)
                  /\ Once(s, M) /\ Once(t, M) /\ ~(Within(s, M) /\ Within(t, M))
                     => Once(s \o t, M)
    BY ONLY <2>1, Joined
  <2> QED BY <2>1, <2>2 DEF s
<1>4. \A M : M \cap StatusRecords = {} /\ Within(t, M) => m \in M
  BY DEF Within, Elems
<1>5. ASSUME NEW M, Single(M), M \cap StatusRecords = {}, m \in M => c \in M
      PROVE  Single(M)'
  <2>1. CASE m \in M
    <3>1. \A x \in Workers : ~Within(lane'[x], M)
      BY <1>1, <1>2, <1>5, <2>1 DEF Single
    <3>2. \A x \in Workers : ~Within(uplink[x], M)
      BY <1>2, <1>5, <2>1 DEF Single
    <3>3. Once(uplink'[w], M)
      BY <1>3, <1>5, <3>2 DEF Single
    <3> QED BY <1>1, <3>1, <3>2, <3>3, SingleInUplink
  <2>2. CASE m \notin M
    <3>1. ~Within(t, M)
      BY <1>4, <1>5, <2>2
    <3>2. \A x \in Workers : /\ Within(uplink'[x], M) => Within(uplink[x], M)
                             /\ Once(uplink[x], M) => Once(uplink'[x], M)
      BY <1>1, <1>3, <1>5, <3>1
    <3>3. \A x \in Workers : /\ Within(lane'[x], M) => Within(lane[x], M)
                             /\ Once(lane[x], M) => Once(lane'[x], M)
      BY <1>1, <1>2, <1>5 DEF Part
    <3> QED BY <1>5, <3>2, <3>3, SingleShrunk
  <2> QED BY <2>1, <2>2
<1>6. OneEach'
  <2>1. \A g \in Flows : m \in Of(g) => c \in Of(g)
    BY <1>2 DEF Of
  <2>2. m \in Snapshots => c \in Snapshots
    BY <1>2 DEF Snapshots
  <2> QED BY <1>5, <2>1, <2>2, NoStatuses DEF LifecycleInv, OneEach
<1>7. \A x \in Workers : /\ Queued(x)' \subseteq Queued(x)
                         /\ \A n \in Messages(x)' : n.kind = "result" => n \in Messages(x) \/ (n = m /\ x = w)
  <2>1. \A x \in Workers : /\ Queued(x) = Elems(lane[x]) /\ Queued(x)' = Elems(lane'[x])
                           /\ Messages(x) = Elems(uplink[x]) /\ Messages(x)' = Elems(uplink'[x])
    BY DEF Queued, Messages, Elems
  <2>2. Queued(w)' \subseteq Queued(w)
    <3>1. Elems(lane'[w]) \subseteq CommandRecords
      BY InLane DEF TypeOK
    <3> QED BY <1>2, <2>1, <3>1 DEF Part, CommandRecords, StatusRecords
  <2>3. \A n \in Messages(w)' : n.kind = "result" => n \in Messages(w) \/ n = m
    BY <1>3, <2>1, Kinds
  <2> QED BY <1>1, <2>1, <2>2, <2>3
<1>8. AllExpected'
  <2>1. \A x \in Workers : \A n : Expected(n, x) => Expected(n, x)'
    BY DEF Expected
  <2>2. Expected(c, w)
    BY <1>2 DEF LifecycleInv, AllExpected
  <2>3. Expected(m, w)
    BY <2>2 DEF Expected
  <2> QED BY <1>7, <2>1, <2>3 DEF LifecycleInv, AllExpected
<1>9. StopsHold' /\ OneStop' /\ SnapshotsHeld'
  BY <1>7 DEF LifecycleInv, StopsHold, OneStop, SnapshotsHeld, Converging
<1>10. SnapshotsOwned'
  BY <1>2, <1>7 DEF LifecycleInv, SnapshotsOwned, Converging
<1> QED BY <1>6, <1>8, <1>9, <1>10 DEF LifecycleInv

LEMMA ExecuteKept ==
  ASSUME LifecycleInv, NEW w \in Workers, Execute(w)
  PROVE  LifecycleInv'
<1>1. TypeOK /\ lane[w] # <<>> /\ lane[w] \in Seq(CommandRecords)
  BY DEF LifecycleInv, TypeOK, Execute
<1>2. PICK c \in CommandRecords : c = Head(lane[w])
  BY <1>1, Shortened
<1>3. c.op \in {"hydrate", "start", "stop", "restart"} /\ c.op \in Verbs /\ c.flow \in Awaiters
  BY <1>2 DEF Execute, CommandRecords, Verbs
<1>4. PICK o \in Outcomes(w, c.op) : Becomes(w, o.to) /\ Tell(w, o.emits \o Answer(c, o.status))
  BY <1>2 DEF Execute
<1>5. o.to \in Processes /\ o.emits \in Seq(StatusRecords) /\ o.status \in Answers
  BY <1>1, <1>3, OutcomesTyped
<1> DEFINE m == Result(c.op, c.flow, o.status)
           a == Answer(c, o.status)
           t == o.emits \o a
<1>6. m \in ResultRecords /\ m.op = c.op /\ m.flow = c.flow
  BY <1>3, <1>5 DEF Result, ResultRecords, Answers
<1>7. /\ a \in Seq(ResultRecords \cup StatusRecords) /\ Elems(a) \subseteq {m}
      /\ \A M : Once(a, M)
  <2>1. a = <<>> \/ a = <<m>>
    BY DEF Answer
  <2> HIDE DEF m, a
  <2>2. CASE a = <<>>
    BY <2>2 DEF Elems, Once
  <2>3. CASE a = <<m>>
    <3>1. a \in Seq(ResultRecords \cup StatusRecords) /\ Len(a) = 1 /\ a[1] = m
      BY <1>6, <2>3
    <3>2. \A i \in 1 .. Len(a) : i = 1
      BY <3>1
    <3> QED BY <3>1, <3>2 DEF Elems, Once
  <2> QED BY <2>1, <2>2, <2>3
<1>8. /\ o.emits \in Seq(ResultRecords \cup StatusRecords) /\ Elems(o.emits) \subseteq StatusRecords
      /\ \A M : M \cap StatusRecords = {} => ~Within(o.emits, M) /\ Once(o.emits, M)
  <2> DEFINE e == o.emits
  <2>1. e \in Seq(StatusRecords)
    BY <1>5
  <2> HIDE DEF e
  <2>2. e \in Seq(ResultRecords \cup StatusRecords) /\ \A i \in 1 .. Len(e) : e[i] \in StatusRecords
    BY <2>1
  <2> QED BY <2>2 DEF Elems, Within, Once, e
<1> HIDE DEF a, m
<1>9. /\ t \in Seq(ResultRecords \cup StatusRecords) /\ Elems(t) \subseteq StatusRecords \cup {m}
      /\ \A M : M \cap StatusRecords = {} => Once(t, M)
  <2>1. /\ t \in Seq(ResultRecords \cup StatusRecords) /\ Elems(t) = Elems(o.emits) \cup Elems(a)
        /\ \A M : Once(o.emits, M) /\ Once(a, M) /\ ~(Within(o.emits, M) /\ Within(a, M)) => Once(t, M)
    BY <1>7, <1>8, Joined
  <2> HIDE DEF t
  <2> QED BY <1>7, <1>8, <2>1
<1>10. uplink' = [uplink EXCEPT ![w] = @ \o t] /\ lane' = [lane EXCEPT ![w] = Tail(@)]
  BY <1>4 DEF Tell, Execute, a
<1> HIDE DEF t
<1>11. UNCHANGED <<row, desired, observed, assigned, flow, links, upload, detached, forsaken, bounds>>
       /\ inst' = [inst EXCEPT ![w] = o.to]
  BY <1>4 DEF Execute, Becomes, row
<1>12. TypeOK'
  <2>1. Tail(lane[w]) \in Seq(CommandRecords)
    BY <1>1, Shortened
  <2>2. lane' \in [Workers -> Seq(CommandRecords)]
    BY <1>1, <1>10, <2>1 DEF TypeOK
  <2>3. uplink' \in [Workers -> Seq(ResultRecords \cup StatusRecords)]
    <3>1. uplink[w] \in Seq(ResultRecords \cup StatusRecords)
      BY <1>1 DEF TypeOK
    <3>2. uplink[w] \o t \in Seq(ResultRecords \cup StatusRecords)
      BY <1>9, <3>1, Joined
    <3> QED BY <1>1, <1>10, <3>2 DEF TypeOK
  <2>4. inst' \in [Workers -> {"none", "starting", "running", "orphan"}]
    BY <1>1, <1>5, <1>11 DEF TypeOK, Processes
  <2> QED BY <1>1, <1>11, <2>2, <2>3, <2>4 DEF TypeOK, row, links, bounds
<1>13. UploadsHead'
  <2>1. ~upload[w] /\ \A x \in Workers \ {w} : lane'[x] = lane[x]
    BY <1>1, <1>2, <1>3, <1>10 DEF LifecycleInv, UploadsHead, TypeOK
  <2> QED BY <1>11, <2>1 DEF LifecycleInv, UploadsHead
<1> QED BY <1>1, <1>2, <1>6, <1>9, <1>10, <1>11, <1>12, <1>13, Answered

LEMMA EndUploadKept ==
  ASSUME LifecycleInv, NEW w \in Workers, EndUpload(w)
  PROVE  LifecycleInv'
<1>1. TypeOK /\ lane[w] # <<>> /\ lane[w] \in Seq(CommandRecords)
  BY DEF LifecycleInv, TypeOK, EndUpload
<1>2. PICK c \in CommandRecords : c = Head(lane[w])
  BY <1>1, Shortened
<1>3. c.op = "snapshot" /\ c.flow \in Awaiters
  BY <1>2 DEF EndUpload, CommandRecords
<1> DEFINE m == Result("snapshot", c.flow, "done")
           t == <<m>>
<1>4. m \in ResultRecords /\ m.op = c.op /\ m.flow = c.flow
  BY <1>3 DEF Result, ResultRecords, Verbs
<1>5. uplink' = [uplink EXCEPT ![w] = @ \o t] /\ lane' = [lane EXCEPT ![w] = Tail(@)]
  BY <1>2 DEF EndUpload, Tell
<1> HIDE DEF m
<1>6. /\ t \in Seq(ResultRecords \cup StatusRecords) /\ Elems(t) \subseteq StatusRecords \cup {m}
      /\ \A M : M \cap StatusRecords = {} => Once(t, M)
  BY <1>4 DEF Elems, Once
<1> HIDE DEF t
<1>7. UNCHANGED <<row, desired, observed, assigned, flow, links, detached, inst, forsaken, bounds>>
      /\ upload' = [upload EXCEPT ![w] = FALSE]
  BY DEF EndUpload, row
<1>8. TypeOK'
  <2>1. Tail(lane[w]) \in Seq(CommandRecords)
    BY <1>1, Shortened
  <2>2. lane' \in [Workers -> Seq(CommandRecords)]
    BY <1>1, <1>5, <2>1 DEF TypeOK
  <2>3. uplink' \in [Workers -> Seq(ResultRecords \cup StatusRecords)]
    <3>1. uplink[w] \in Seq(ResultRecords \cup StatusRecords)
      BY <1>1 DEF TypeOK
    <3>2. uplink[w] \o t \in Seq(ResultRecords \cup StatusRecords)
      BY <1>6, <3>1, Joined
    <3> QED BY <1>1, <1>5, <3>2 DEF TypeOK
  <2>4. upload' \in [Workers -> BOOLEAN]
    BY <1>1, <1>7 DEF TypeOK
  <2> QED BY <1>1, <1>7, <2>2, <2>3, <2>4 DEF TypeOK, row, links, bounds
<1>9. UploadsHead'
  <2>1. ~upload'[w] /\ \A x \in Workers \ {w} : lane'[x] = lane[x] /\ upload'[x] = upload[x]
    BY <1>1, <1>5, <1>7 DEF TypeOK
  <2> QED BY <2>1 DEF LifecycleInv, UploadsHead
<1> QED BY <1>1, <1>2, <1>4, <1>5, <1>6, <1>7, <1>8, <1>9, Answered

LEMMA DropStaleKept ==
  ASSUME LifecycleInv, NEW w \in Workers, DropStale(w)
  PROVE  LifecycleInv'
<1>1. PICK i \in 1 .. Len(lane[w]) :
         (i > 1 \/ ~upload[w]) /\ lane' = [lane EXCEPT ![w] = Without(@, i)]
  BY DEF DropStale
<1>2. UNCHANGED <<row, flow, links, upload, uplink, detached, inst, forsaken, bounds>>
      /\ UNCHANGED <<desired, assigned>>
  BY DEF DropStale, row
<1>3. /\ Without(lane[w], i) \in Seq(CommandRecords) /\ Part(Without(lane[w], i), lane[w])
      /\ i > 1 => Without(lane[w], i) # <<>> /\ Head(Without(lane[w], i)) = Head(lane[w])
  <2> DEFINE s == lane[w]
  <2>1. s \in Seq(CommandRecords) /\ i \in 1 .. Len(s)
    BY DEF LifecycleInv, TypeOK
  <2> HIDE DEF s
  <2>2. /\ Without(s, i) \in Seq(CommandRecords) /\ Part(Without(s, i), s)
        /\ i > 1 => Without(s, i) # <<>> /\ Head(Without(s, i)) = Head(s)
    BY <2>1, Taken
  <2> QED BY <2>2 DEF s
<1>4. lane'[w] = Without(lane[w], i) /\ \A x \in Workers \ {w} : lane'[x] = lane[x]
  BY <1>1 DEF LifecycleInv, TypeOK
<1>5. lane' \in [Workers -> Seq(CommandRecords)]
  BY <1>1, <1>3 DEF LifecycleInv, TypeOK
<1>6. TypeOK'
  BY <1>2, <1>5 DEF LifecycleInv, TypeOK, row, links, bounds
<1>7. UploadsHead'
  BY <1>1, <1>2, <1>3, <1>4 DEF LifecycleInv, UploadsHead
<1>8. \A x \in Workers : Part(lane'[x], lane[x]) /\ Part(uplink'[x], uplink[x])
  BY <1>2, <1>3, <1>4, Itself
<1> QED BY <1>2, <1>6, <1>7, <1>8, Shrunk

\* A step of a worker that says no more than status changes.
LEMMA SaidKept ==
  ASSUME LifecycleInv, NEW w \in Workers, NEW t \in Seq(StatusRecords),
         uplink' = [uplink EXCEPT ![w] = @ \o t] \/ uplink' = [uplink EXCEPT ![w] = t],
         UNCHANGED <<row, flow, teardown, lane, upload, forsaken>>,
         online' \subseteq Workers, unreset' \in BOOLEAN,
         detached' \in [Workers -> {"none", "hydrate", "start", "stop"}],
         inst' \in [Workers -> Processes],
         Request \/ Fault \/ UNCHANGED bounds
  PROVE  LifecycleInv'
<1>1. TypeOK /\ UNCHANGED <<desired, assigned>>
  BY DEF LifecycleInv, row
<1>2. /\ uplink[w] \o t \in Seq(ResultRecords \cup StatusRecords) /\ Part(uplink[w] \o t, uplink[w])
      /\ t \in Seq(ResultRecords \cup StatusRecords) /\ Part(t, uplink[w])
  <2> DEFINE s == uplink[w]
  <2>1. s \in Seq(ResultRecords \cup StatusRecords)
    BY <1>1 DEF TypeOK
  <2> HIDE DEF s
  <2>2. /\ s \o t \in Seq(ResultRecords \cup StatusRecords) /\ Part(s \o t, s)
        /\ t \in Seq(ResultRecords \cup StatusRecords) /\ Part(t, s)
    BY <2>1, Told
  <2> QED BY <2>2 DEF s
<1>3. /\ uplink'[w] = uplink[w] \o t \/ uplink'[w] = t
      /\ \A x \in Workers \ {w} : uplink'[x] = uplink[x]
      /\ uplink' \in [Workers -> Seq(ResultRecords \cup StatusRecords)]
  BY <1>1, <1>2 DEF TypeOK
<1>4. requests' \in 0 .. MaxRequests /\ faults' \in 0 .. MaxFaults
  BY <1>1, Counted
<1>5. TypeOK'
  BY <1>1, <1>3, <1>4 DEF TypeOK, row, Processes
<1>6. UploadsHead'
  BY DEF LifecycleInv, UploadsHead
<1>7. \A x \in Workers : Part(lane'[x], lane[x]) /\ Part(uplink'[x], uplink[x])
  BY <1>2, <1>3, Itself
<1> QED BY <1>1, <1>5, <1>6, <1>7, Shrunk

LEMMA DetachedEndsKept ==
  ASSUME LifecycleInv, NEW w \in Workers, DetachedEnds(w)
  PROVE  LifecycleInv'
<1>1. TypeOK
  BY DEF LifecycleInv
<1>2. PICK p \in Processes, t \in Seq(StatusRecords) : Becomes(w, p) /\ Tell(w, t)
  <2>1. \A s \in States : <<Status(s)>> \in Seq(StatusRecords)
    BY StatusSequences
  <2>2. {"none", "starting", "orphan"} \subseteq Processes /\ {"starting", "stopping"} \subseteq States
    BY DEF Processes, States
  <2>3. <<>> \in Seq(StatusRecords) /\ <<Status("stopping"), Status("stopped")>> \in Seq(StatusRecords)
    BY StatusSequences DEF StatusesOfStop
  <2>4. CASE detached[w] = "start"
    <3>1. \E o \in {[to |-> "starting", emits |-> <<Status("starting")>>],
                    [to |-> "none", emits |-> <<>>]} : Becomes(w, o.to) /\ Tell(w, o.emits)
      BY <2>4 DEF DetachedEnds
    <3>2. \/ Becomes(w, "starting") /\ Tell(w, <<Status("starting")>>)
          \/ Becomes(w, "none") /\ Tell(w, <<>>)
      BY <3>1
    <3> QED BY <2>1, <2>2, <2>3, <3>2
  <2>5. CASE detached[w] = "stop"
    <3>1. \E o \in {[to |-> "none", emits |-> <<Status("stopping"), Status("stopped")>>],
                    [to |-> "orphan", emits |-> <<Status("stopping")>>]} :
             Becomes(w, o.to) /\ Tell(w, o.emits)
      BY <2>5 DEF DetachedEnds
    <3>2. \/ Becomes(w, "none") /\ Tell(w, <<Status("stopping"), Status("stopped")>>)
          \/ Becomes(w, "orphan") /\ Tell(w, <<Status("stopping")>>)
      BY <3>1
    <3> QED BY <2>1, <2>2, <2>3, <3>2
  <2>6. CASE detached[w] = "hydrate"
    <3>1. \E o \in {[to |-> "none", emits |-> <<>>]} : Becomes(w, o.to) /\ Tell(w, o.emits)
      BY <2>6 DEF DetachedEnds
    <3>2. Becomes(w, "none") /\ Tell(w, <<>>)
      BY <3>1
    <3> QED BY <2>2, <2>3, <3>2
  <2>7. detached[w] \in {"hydrate", "start", "stop"}
    BY <1>1 DEF DetachedEnds, TypeOK
  <2> QED BY <2>4, <2>5, <2>6, <2>7
<1>3. detached' \in [Workers -> {"none", "hydrate", "start", "stop"}] /\ inst' \in [Workers -> Processes]
  BY <1>1, <1>2 DEF DetachedEnds, Becomes, TypeOK, Processes
<1>4. /\ online' \subseteq Workers /\ unreset' \in BOOLEAN
      /\ UNCHANGED <<row, flow, teardown, lane, upload, forsaken, bounds>>
  BY <1>1, <1>2 DEF DetachedEnds, Becomes, TypeOK, links
<1>5. uplink' = [uplink EXCEPT ![w] = @ \o t]
  BY <1>2 DEF Tell
<1> QED BY <1>3, <1>4, <1>5, SaidKept

\* The process of w becomes p, and w reports s.
LEMMA ReportedKept ==
  ASSUME LifecycleInv, NEW w \in Workers, NEW p \in Processes, NEW s \in States,
         Becomes(w, p), Tell(w, <<Status(s)>>),
         UNCHANGED <<row, flow, links, lane, upload, detached>>,
         Request \/ Fault \/ UNCHANGED bounds
  PROVE  LifecycleInv'
<1>1. TypeOK
  BY DEF LifecycleInv
<1>2. PICK t \in Seq(StatusRecords) : t = <<Status(s)>>
  BY StatusSequences
<1>3. uplink' = [uplink EXCEPT ![w] = @ \o t]
  BY <1>2 DEF Tell
<1>4. /\ online' \subseteq Workers /\ unreset' \in BOOLEAN
      /\ UNCHANGED <<row, flow, teardown, lane, upload, forsaken>>
      /\ detached' \in [Workers -> {"none", "hydrate", "start", "stop"}]
      /\ inst' \in [Workers -> Processes]
  BY <1>1 DEF Becomes, TypeOK, links, Processes
<1> QED BY <1>3, <1>4, SaidKept

LEMMA ReadyKept ==
  ASSUME LifecycleInv, NEW w \in Workers, Ready(w)
  PROVE  LifecycleInv'
<1>1. "running" \in Processes /\ "running" \in States
  BY DEF Processes, States
<1> QED BY <1>1, ReportedKept DEF Ready

LEMMA CrashKept ==
  ASSUME LifecycleInv, NEW w \in Workers, Crash(w)
  PROVE  LifecycleInv'
<1>1. "none" \in Processes /\ "crashed" \in States
  BY DEF Processes, States
<1> QED BY <1>1, ReportedKept DEF Crash

LEMMA OrphanDiesKept ==
  ASSUME LifecycleInv, NEW w \in Workers, OrphanDies(w)
  PROVE  LifecycleInv'
<1>1. "none" \in Processes /\ "stopped" \in States
  BY DEF Processes, States
<1> QED BY <1>1, ReportedKept DEF OrphanDies

LEMMA ReconnectKept ==
  ASSUME LifecycleInv, NEW w \in Workers, Reconnect(w)
  PROVE  LifecycleInv'
<1>1. TypeOK
  BY DEF LifecycleInv
<1>2. PICK t \in Seq(StatusRecords) : Tell(w, t)
  <2>1. "unknown" \in States /\ (Up(w) => inst[w] \in States)
    BY <1>1 DEF TypeOK, States, Up
  <2>2. \A s \in States : <<Status(s)>> \in Seq(StatusRecords)
    BY StatusSequences
  <2>3. <<>> \in Seq(StatusRecords)
    BY StatusSequences
  <2>4. \/ Tell(w, <<Status("unknown")>>)
        \/ Up(w) /\ Tell(w, <<Status(inst[w])>>)
        \/ Tell(w, <<>>)
    BY DEF Reconnect
  <2> QED BY <2>1, <2>2, <2>3, <2>4
<1>3. uplink' = [uplink EXCEPT ![w] = @ \o t]
  BY <1>2 DEF Tell
<1>4. /\ online' \subseteq Workers /\ unreset' \in BOOLEAN
      /\ UNCHANGED <<row, flow, teardown, lane, upload, forsaken, bounds>>
      /\ detached' \in [Workers -> {"none", "hydrate", "start", "stop"}]
      /\ inst' \in [Workers -> Processes]
  BY <1>1 DEF Reconnect, TypeOK, Processes
<1> QED BY <1>3, <1>4, SaidKept

LEMMA RebootKept ==
  ASSUME LifecycleInv, NEW w \in Workers, Reboot(w)
  PROVE  LifecycleInv'
<1>1. TypeOK
  BY DEF LifecycleInv
<1>2. PICK t \in Seq(StatusRecords) : uplink' = [uplink EXCEPT ![w] = t]
  <2>1. <<>> \in Seq(StatusRecords) /\ <<Status("stopped")>> \in Seq(StatusRecords)
    BY StatusSequences DEF States
  <2>2. uplink' = [uplink EXCEPT ![w] = <<Status("stopped")>>] \/ uplink' = [uplink EXCEPT ![w] = <<>>]
    BY DEF Reboot
  <2> QED BY <2>1, <2>2
<1>3. /\ online' \subseteq Workers /\ unreset' \in BOOLEAN
      /\ UNCHANGED <<row, flow, teardown, lane, upload, forsaken>>
      /\ detached' \in [Workers -> {"none", "hydrate", "start", "stop"}]
      /\ inst' \in [Workers -> Processes] /\ Fault
  BY <1>1 DEF Reboot, Becomes, TypeOK, links, Processes
<1> QED BY <1>2, <1>3, SaidKept

-----------------------------------------------------------------------------
(* Faults.                                                                   *)

\* f stops waiting, and converges no stop any more.
LEMMA AbandonKept ==
  ASSUME LifecycleInv, NEW f \in Flows, Abandon(f), Fault,
         NEW q \in FlowRecords, q.pc \notin StopPcs, flow' = [flow EXCEPT ![f] = q],
         UNCHANGED <<row, links, upload, detached, inst, forsaken>>
  PROVE  LifecycleInv'
<1>1. TypeOK /\ UNCHANGED <<desired, assigned>>
  BY DEF LifecycleInv, row
<1>2. /\ flow' \in [Flows -> FlowRecords] /\ ~Converging(f)'
      /\ \A g \in Flows \ {f} : flow'[g] = flow[g] /\ (Converging(g)' <=> Converging(g))
  BY <1>1 DEF TypeOK, Converging
<1>3. ASSUME NEW x \in Workers
      PROVE  /\ lane'[x] = Disowned(lane[x], f) /\ uplink'[x] = Disowned(uplink[x], f)
             /\ lane[x] \in Seq(CommandRecords) /\ uplink[x] \in Seq(ResultRecords \cup StatusRecords)
  BY <1>1 DEF Abandon, TypeOK
<1>4. ASSUME NEW x \in Workers
      PROVE  /\ lane'[x] \in Seq(CommandRecords)
             /\ ~Within(lane'[x], Of(f))
             /\ \A M \in {Snapshots} \cup {Of(g) : g \in Flows \ {f}} :
                   /\ Within(lane'[x], M) => Within(lane[x], M)
                   /\ Once(lane[x], M) => Once(lane'[x], M)
             /\ \A m \in Queued(x)' :
                   \/ m \in Queued(x) /\ m.flow # f
                   \/ m.flow = NoFlow /\ \E n \in Queued(x) : n.op = m.op /\ n.flow = f
             /\ lane[x] # <<>> => lane'[x] # <<>> /\ Head(lane'[x]).op = Head(lane[x]).op
  <2> DEFINE s == lane[x]
             d == Disowned(s, f)
  <2>1. s \in Seq(CommandRecords)
    BY <1>3
  <2>2. CommandRecords \in {CommandRecords, ResultRecords \cup StatusRecords}
    OBVIOUS
  <2> HIDE DEF s
  <2>3. /\ d \in Seq(CommandRecords)
        /\ ~Within(d, Of(f))
        /\ \A M \in {Snapshots} \cup {Of(g) : g \in Flows \ {f}} :
              (Within(d, M) => Within(s, M)) /\ (Once(s, M) => Once(d, M))
        /\ \A m \in Elems(d) :
              \/ m \in Elems(s) /\ (m.kind # "status" => m.flow # f)
              \/ /\ m.kind # "status" /\ m.flow = NoFlow
                 /\ \E n \in Elems(s) : n.kind = m.kind /\ n.op = m.op /\ n.flow = f
        /\ s # <<>> => d # <<>> /\ (Head(s).kind # "status" => Head(d).op = Head(s).op)
    BY <2>1, <2>2, Renamed
  <2>4. Elems(d) \subseteq CommandRecords /\ (s # <<>> => Head(s) \in CommandRecords)
    BY <2>1, <2>3, InLane, Shortened
  <2>5. \A m \in CommandRecords : m.kind # "status"
    BY Kinds
  <2> HIDE DEF d
  <2>6. Queued(x)' = Elems(d) /\ Queued(x) = Elems(s) /\ lane'[x] = d
    BY <1>3 DEF Queued, Elems, d, s
  <2>7. s = lane[x]
    BY DEF s
  <2>8. \A m \in Elems(d) :
           \/ m \in Elems(s) /\ m.flow # f
           \/ m.flow = NoFlow /\ \E n \in Elems(s) : n.op = m.op /\ n.flow = f
    BY <2>3, <2>4, <2>5
  <2> QED BY <2>3, <2>4, <2>5, <2>6, <2>7, <2>8
<1>5. ASSUME NEW x \in Workers
      PROVE  /\ uplink'[x] \in Seq(ResultRecords \cup StatusRecords)
             /\ ~Within(uplink'[x], Of(f))
             /\ \A M \in {Snapshots} \cup {Of(g) : g \in Flows \ {f}} :
                   /\ Within(uplink'[x], M) => Within(uplink[x], M)
                   /\ Once(uplink[x], M) => Once(uplink'[x], M)
             /\ \A m \in Messages(x)' : m.kind = "result" =>
                   \/ m \in Messages(x) /\ m.flow # f
                   \/ m.flow = NoFlow /\ \E n \in Messages(x) : n.kind = "result" /\ n.op = m.op /\ n.flow = f
  <2> DEFINE s == uplink[x]
             d == Disowned(s, f)
  <2>1. s \in Seq(ResultRecords \cup StatusRecords)
    BY <1>3
  <2>2. ResultRecords \cup StatusRecords \in {CommandRecords, ResultRecords \cup StatusRecords}
    OBVIOUS
  <2> HIDE DEF s
  <2>3. /\ d \in Seq(ResultRecords \cup StatusRecords)
        /\ ~Within(d, Of(f))
        /\ \A M \in {Snapshots} \cup {Of(g) : g \in Flows \ {f}} :
              (Within(d, M) => Within(s, M)) /\ (Once(s, M) => Once(d, M))
        /\ \A m \in Elems(d) :
              \/ m \in Elems(s) /\ (m.kind # "status" => m.flow # f)
              \/ /\ m.kind # "status" /\ m.flow = NoFlow
                 /\ \E n \in Elems(s) : n.kind = m.kind /\ n.op = m.op /\ n.flow = f
    BY <2>1, <2>2, Renamed
  <2> HIDE DEF d
  <2>4. Messages(x)' = Elems(d) /\ Messages(x) = Elems(s) /\ uplink'[x] = d
    BY <1>3 DEF Messages, Elems, d, s
  <2>5. s = uplink[x]
    BY DEF s
  <2> QED BY <2>3, <2>4, <2>5
<1>6. OneEach'
  <2>1. ASSUME NEW M \in {Snapshots} \cup {Of(g) : g \in Flows \ {f}}, Single(M)
        PROVE  Single(M)'
    BY <1>4, <1>5, <2>1, SingleShrunk
  <2>2. Single(Of(f))'
    <3>1. \A x \in Workers : ~Within(lane'[x], Of(f)) /\ ~Within(uplink'[x], Of(f))
      BY <1>4, <1>5
    <3>2. /\ \A x \in Workers : Within(lane'[x], Of(f)) => Within(lane[x], Of(f))
          /\ \A x \in Workers : Within(uplink'[x], Of(f)) => Within(uplink[x], Of(f))
      BY <3>1
    <3>3. \A x \in Workers : Once(lane'[x], Of(f)) /\ Once(uplink'[x], Of(f))
      BY <3>1 DEF Within, Once
    <3>4. Single(Of(f))
      BY DEF LifecycleInv, OneEach
    <3> QED BY <3>2, <3>3, <3>4, SingleShrunk
  <2>3. \A g \in Flows : Single(Of(g))'
    <3> TAKE g \in Flows
    <3>1. CASE g = f
      BY <2>2, <3>1
    <3>2. CASE g # f
      BY <2>1, <3>2 DEF LifecycleInv, OneEach
    <3> QED BY <3>1, <3>2
  <2> QED BY <2>1, <2>3 DEF LifecycleInv, OneEach
<1>7. AllExpected'
  <2>1. ASSUME NEW x \in Workers, NEW m, Expected(m, x), m.flow # f PROVE Expected(m, x)'
    BY <1>2, <2>1 DEF Expected
  <2>2. ASSUME NEW x \in Workers, NEW m, m.flow = NoFlow PROVE Expected(m, x)'
    BY <2>2, IdsAssumption DEF Expected
  <2> QED BY <1>4, <1>5, <2>1, <2>2 DEF LifecycleInv, AllExpected
<1>8. StopsHold' /\ OneStop'
  BY <1>1, <1>2 DEF LifecycleInv, StopsHold, OneStop
<1>9. SnapshotsHeld'
  BY <1>1, <1>4 DEF LifecycleInv, SnapshotsHeld
<1>10. SnapshotsOwned'
  <2> SUFFICES ASSUME NEW g \in Flows, Converging(g)', NEW x \in Workers
               PROVE  /\ \A c \in Queued(x)' : c.op = "snapshot" => c.flow = g
                      /\ \A m \in Messages(x)' : m.kind = "result" /\ m.op = "snapshot" => m.flow = g
    BY DEF SnapshotsOwned
  <2>1. g # f /\ Converging(g)
    BY <1>2
  <2>2. /\ \A c \in Queued(x) : c.op = "snapshot" => c.flow = g
        /\ \A m \in Messages(x) : m.kind = "result" /\ m.op = "snapshot" => m.flow = g
    BY <2>1 DEF LifecycleInv, SnapshotsOwned
  <2> QED BY <1>4, <1>5, <2>1, <2>2
<1>11. UploadsHead'
  BY <1>4 DEF LifecycleInv, UploadsHead
<1>12. TypeOK'
  <2>1. requests' \in 0 .. MaxRequests /\ faults' \in 0 .. MaxFaults
    BY <1>1, Counted
  <2>2. /\ lane' \in [Workers -> Seq(CommandRecords)]
        /\ uplink' \in [Workers -> Seq(ResultRecords \cup StatusRecords)]
    BY <1>4, <1>5 DEF Abandon
  <2> QED BY <1>1, <1>2, <2>1, <2>2 DEF TypeOK, row, links
<1> QED BY <1>6, <1>7, <1>8, <1>9, <1>10, <1>11, <1>12 DEF LifecycleInv

LEMMA TimeoutKept ==
  ASSUME LifecycleInv, NEW f \in Flows, Timeout(f)
  PROVE  LifecycleInv'
<1> DEFINE q == Lost(flow[f], TRUE)
<1>1. flow[f] \in BusyRecords
  BY FlowsTyped DEF LifecycleInv, Timeout, AwaitPcs
<1>2. q \in FlowRecords /\ (q = Idle \/ q.pc = "revert")
  BY <1>1, LostFlows, Zenon
<1>3. flow' = [flow EXCEPT ![f] = q]
  BY DEF Timeout
<1> HIDE DEF q
<1>4. q.pc \notin StopPcs
  BY <1>2 DEF Idle, StopPcs
<1> QED BY <1>2, <1>3, <1>4, AbandonKept DEF Timeout

LEMMA FailKept ==
  ASSUME LifecycleInv, NEW f \in Flows, Fail(f)
  PROVE  LifecycleInv'
<1>1. Idle \in FlowRecords /\ Idle.pc \notin StopPcs
  BY DEF FlowRecords, Idle, StopPcs
<1> QED BY <1>1, AbandonKept DEF Fail, Finish

\* The messages of a flow are on its worker's wires.
LEMMA Elsewhere ==
  ASSUME LifecycleInv, NEW f \in Flows, NEW x \in Workers, flow[f].worker # x
  PROVE  ~Within(lane[x], Of(f)) /\ ~Within(uplink[x], Of(f))
<1>1. lane[x] \in Seq(CommandRecords) /\ uplink[x] \in Seq(ResultRecords \cup StatusRecords)
  BY DEF LifecycleInv, TypeOK
<1>2. Queued(x) = Elems(lane[x]) /\ Messages(x) = Elems(uplink[x])
  BY DEF Queued, Messages
<1> QED BY <1>1, <1>2, InLane, InUplink DEF LifecycleInv, AllExpected, Expected

LEMMA CutShrinks ==
  ASSUME LifecycleInv, NEW ws \in SUBSET Workers, Cut(ws)
  PROVE  /\ lane' \in [Workers -> Seq(CommandRecords)] /\ upload' \in [Workers -> BOOLEAN]
         /\ uplink' \in [Workers -> Seq(ResultRecords \cup StatusRecords)]
         /\ detached' \in [Workers -> {"none", "hydrate", "start", "stop"}]
         /\ UploadsHead'
         /\ \A x \in Workers : Part(lane'[x], lane[x]) /\ Part(uplink'[x], uplink[x])
         /\ \A x \in ws, g \in Flows : ~Within(lane'[x], Of(g)) /\ ~Within(uplink'[x], Of(g))
         /\ \A x \in Workers \ ws : lane'[x] = lane[x] /\ uplink'[x] = uplink[x]
<1>1. TypeOK
  BY DEF LifecycleInv
<1>2. \A x \in Workers :
         /\ lane'[x] = IF x \in ws THEN <<>> ELSE lane[x]
         /\ upload'[x] = (upload[x] /\ x \notin ws)
         /\ uplink'[x] = IF x \in ws THEN Statuses(uplink[x]) ELSE uplink[x]
  BY DEF Cut
<1>3. ASSUME NEW x \in Workers
      PROVE  /\ Statuses(uplink[x]) \in Seq(StatusRecords)
             /\ Statuses(uplink[x]) \in Seq(ResultRecords \cup StatusRecords)
             /\ Part(Statuses(uplink[x]), uplink[x])
  <2> DEFINE s == uplink[x]
             t == Statuses(s)
  <2>1. s \in Seq(ResultRecords \cup StatusRecords)
    BY <1>1 DEF TypeOK
  <2> HIDE DEF s
  <2>2. t \in Seq(StatusRecords)
    BY <2>1, StatusesOnly
  <2> HIDE DEF t
  <2>3. t \in Seq(ResultRecords \cup StatusRecords) /\ Part(t, s)
    BY <2>1, <2>2, Told
  <2> QED BY <2>2, <2>3 DEF s, t
<1>4. \A s, M : ~Within(<<>>, M) /\ Part(<<>>, s)
  BY DEF Within, Once, Part, Elems
<1>5. lane' \in [Workers -> Seq(CommandRecords)]
  <2>1. <<>> \in Seq(CommandRecords)
    OBVIOUS
  <2> QED BY <1>1, <2>1 DEF Cut, TypeOK
<1>6. upload' \in [Workers -> BOOLEAN]
  BY DEF Cut
<1>7. uplink' \in [Workers -> Seq(ResultRecords \cup StatusRecords)]
  BY <1>1, <1>3 DEF Cut, TypeOK
<1>8. detached' \in [Workers -> {"none", "hydrate", "start", "stop"}]
  <2>1. PICK keep \in SUBSET {x \in ws : Detachable(x) # {}} :
           detached' = [x \in Workers |-> IF x \in keep THEN Head(lane[x]).op ELSE detached[x]]
    BY DEF Cut
  <2>2. \A x \in keep : Head(lane[x]).op \in {"hydrate", "start", "stop"}
    BY <2>1 DEF Detachable
  <2> QED BY <1>1, <2>1, <2>2 DEF TypeOK
<1>9. UploadsHead'
  BY <1>2 DEF LifecycleInv, UploadsHead
<1>10. \A x \in Workers : Part(lane'[x], lane[x]) /\ Part(uplink'[x], uplink[x])
  BY <1>2, <1>3, <1>4, Itself
<1>11. ASSUME NEW x \in ws, NEW g \in Flows PROVE ~Within(lane'[x], Of(g)) /\ ~Within(uplink'[x], Of(g))
  <2>1. \A t \in Seq(StatusRecords) : ~Within(t, Of(g))
    BY NoStatuses DEF Within
  <2> QED BY <1>2, <1>3, <1>4, <2>1
<1> QED BY <1>2, <1>5, <1>6, <1>7, <1>8, <1>9, <1>10, <1>11

LEMMA DisconnectKept ==
  ASSUME LifecycleInv, NEW w \in Workers, Disconnect(w)
  PROVE  LifecycleInv'
<1>1. TypeOK /\ UNCHANGED <<desired, assigned>> /\ Cut({w}) /\ {w} \in SUBSET Workers
  BY DEF LifecycleInv, Disconnect, row
<1>2. /\ lane' \in [Workers -> Seq(CommandRecords)] /\ upload' \in [Workers -> BOOLEAN]
      /\ uplink' \in [Workers -> Seq(ResultRecords \cup StatusRecords)]
      /\ detached' \in [Workers -> {"none", "hydrate", "start", "stop"}]
      /\ UploadsHead'
      /\ \A x \in Workers : Part(lane'[x], lane[x]) /\ Part(uplink'[x], uplink[x])
      /\ \A g \in Flows : ~Within(lane'[w], Of(g)) /\ ~Within(uplink'[w], Of(g))
      /\ \A x \in Workers \ {w} : lane'[x] = lane[x] /\ uplink'[x] = uplink[x]
  BY <1>1, CutShrinks
<1>3. ASSUME NEW g \in Flows
      PROVE  /\ flow'[g] \in FlowRecords
             /\ \/ flow'[g] = flow[g]
                \/ /\ flow[g].worker = w
                   /\ Converging(g)' => Converging(g) /\ flow'[g].worker = flow[g].worker
  <2>1. CASE flow[g].pc \in AwaitPcs /\ flow[g].worker = w
    <3> DEFINE q == Lost(flow[g], FALSE)
    <3>1. flow[g] \in BusyRecords
      BY <1>1, <2>1, FlowsTyped DEF AwaitPcs
    <3>2. /\ q \in FlowRecords
          /\ \/ q = Idle
             \/ /\ q.worker = flow[g].worker
                /\ q.pc = "revert" \/ (q.pc = "release" /\ flow[g].pc \in {"snapshot", "uploading"})
      BY <3>1, LostFlows, Zenon
    <3>3. flow'[g] = q
      BY <2>1 DEF Disconnect
    <3> HIDE DEF q
    <3>4. q.pc \in StopPcs => flow[g].pc \in StopPcs /\ q.worker = flow[g].worker
      BY <3>2 DEF Idle, StopPcs
    <3> QED BY <2>1, <3>2, <3>3, <3>4 DEF Converging
  <2>2. CASE ~(flow[g].pc \in AwaitPcs /\ flow[g].worker = w)
    BY <1>1, <2>2 DEF Disconnect, TypeOK
  <2> QED BY <2>1, <2>2
<1>4. TypeOK'
  <2>1. flow' \in [Flows -> FlowRecords]
    BY <1>3 DEF Disconnect
  <2>2. requests' \in 0 .. MaxRequests /\ faults' \in 0 .. MaxFaults
    BY <1>1, Counted DEF Disconnect
  <2>3. /\ online' \subseteq Workers /\ teardown' \subseteq Workers /\ unreset' \in BOOLEAN
        /\ UNCHANGED <<desired, observed, assigned, inst, forsaken>>
    BY <1>1 DEF Disconnect, TypeOK, row
  <2> QED BY <1>1, <1>2, <2>1, <2>2, <2>3 DEF TypeOK
<1>5. ASSUME NEW g \in Flows, NEW x \in Workers, flow[g].worker = w
      PROVE  ~Within(lane'[x], Of(g)) /\ ~Within(uplink'[x], Of(g))
  <2>1. CASE x = w
    BY <1>2, <2>1
  <2>2. CASE x # w
    BY <1>2, <1>5, <2>2, Elsewhere
  <2> QED BY <2>1, <2>2
<1> QED BY <1>1, <1>2, <1>3, <1>4, <1>5, Shrunk

LEMMA ApiRestartKept ==
  ASSUME LifecycleInv, ApiRestart
  PROVE  LifecycleInv'
<1>1. TypeOK /\ UNCHANGED <<desired, observed, assigned, inst, forsaken>> /\ Cut(Workers)
  BY DEF LifecycleInv, ApiRestart, row
<1>2. /\ lane' \in [Workers -> Seq(CommandRecords)] /\ upload' \in [Workers -> BOOLEAN]
      /\ uplink' \in [Workers -> Seq(ResultRecords \cup StatusRecords)]
      /\ detached' \in [Workers -> {"none", "hydrate", "start", "stop"}]
      /\ UploadsHead'
      /\ \A x \in Workers : Part(lane'[x], lane[x]) /\ Part(uplink'[x], uplink[x])
      /\ \A x \in Workers, g \in Flows : ~Within(lane'[x], Of(g)) /\ ~Within(uplink'[x], Of(g))
  BY <1>1, CutShrinks
<1>3. \A g \in Flows : flow'[g] = Idle /\ ~Converging(g)'
  BY DEF ApiRestart, Converging, Idle, StopPcs
<1>4. TypeOK'
  <2>1. flow' \in [Flows -> FlowRecords]
    BY DEF ApiRestart, FlowRecords
  <2>2. requests' \in 0 .. MaxRequests /\ faults' \in 0 .. MaxFaults
    BY <1>1, Counted DEF ApiRestart
  <2>3. online' \subseteq Workers /\ teardown' \subseteq Workers /\ unreset' \in BOOLEAN
    BY <1>1 DEF ApiRestart, TypeOK
  <2> QED BY <1>1, <1>2, <2>1, <2>2, <2>3 DEF TypeOK
<1> QED BY <1>1, <1>2, <1>3, <1>4, Shrunk

-----------------------------------------------------------------------------
(* Every step keeps the invariant.                                           *)

LEMMA InitHolds ==
  ASSUME Init
  PROVE  LifecycleInv
<1>1. \A w \in Workers : lane[w] = <<>> /\ uplink[w] = <<>> /\ ~upload[w]
  BY DEF Init
<1>2. \A f \in Flows : flow[f] = Idle
  BY DEF Init
<1>3. TypeOK
  <2>1. flow \in [Flows -> FlowRecords] /\ observed \in States
    BY DEF Init, FlowRecords, States
  <2>2. /\ lane \in [Workers -> Seq(CommandRecords)]
        /\ uplink \in [Workers -> Seq(ResultRecords \cup StatusRecords)]
    BY DEF Init
  <2> QED BY <2>1, <2>2, LifecycleBounds DEF Init, TypeOK
<1>4. \A M : ~Within(<<>>, M) /\ Once(<<>>, M)
  BY DEF Within, Once
<1>5. OneEach
  BY <1>1, <1>4 DEF OneEach, Single
<1>6. \A w \in Workers : Queued(w) = {} /\ Messages(w) = {}
  BY <1>1 DEF Queued, Messages, Elems
<1>7. \A f \in Flows : ~Converging(f)
  BY <1>2 DEF Converging, Idle, StopPcs
<1> QED BY <1>1, <1>3, <1>5, <1>6, <1>7
        DEF LifecycleInv, AllExpected, StopsHold, OneStop, SnapshotsHeld, SnapshotsOwned, UploadsHead

LEMMA StutterKept ==
  ASSUME LifecycleInv, UNCHANGED vars
  PROVE  LifecycleInv'
<1>1. TypeOK'
  BY DEF LifecycleInv, TypeOK, vars, row, links, wire, bounds
<1>2. UploadsHead'
  BY DEF LifecycleInv, UploadsHead, vars, wire
<1>3. \A x \in Workers : Part(lane'[x], lane[x]) /\ Part(uplink'[x], uplink[x])
  BY Itself DEF vars, wire
<1>4. UNCHANGED <<desired, assigned, flow>>
  BY DEF vars, row
<1> QED BY <1>1, <1>2, <1>3, <1>4, Shrunk

LEMMA FlowsKeep ==
  ASSUME LifecycleInv, NEW f \in Flows,
         start_server(f) \/ Stop(f) \/ Reconcile(f) \/ FlowStep(f) \/ Timeout(f) \/ Fail(f)
  PROVE  LifecycleInv'
<1>1. CASE start_server(f)
  BY <1>1, StartKept DEF start_server
<1>2. CASE Stop(f)
  BY <1>2, StopKept
<1>3. CASE Reconcile(f)
  BY <1>3, PlaceAndStartKept, RedispatchStartKept, RedispatchStopKept, ClearStaleKept DEF Reconcile
<1>4. CASE FlowStep(f)
  <2>1. CASE Launch(f) \/ Revert(f) \/ Converge(f)
    BY <2>1, LaunchKept, RevertKept, ConvergeKept
  <2>2. CASE SendStop(f) \/ RecordStopped(f) \/ RecordGone(f)
    BY <2>2, SendStopKept, RecordStoppedKept, RecordGoneKept
  <2>3. CASE SendSnapshot(f) \/ Release(f) \/ ReleaseUnknown(f)
    BY <2>3, SendSnapshotKept, ReleaseKept, ReleaseUnknownKept
  <2> QED BY <1>4, <2>1, <2>2, <2>3 DEF FlowStep
<1>5. CASE Timeout(f)
  BY <1>5, TimeoutKept
<1>6. CASE Fail(f)
  BY <1>6, FailKept
<1> QED BY <1>1, <1>2, <1>3, <1>4, <1>5, <1>6

LEMMA WorkersKeep ==
  ASSUME LifecycleInv, NEW w \in Workers,
         \/ Inbound(w) \/ WorkerStep(w) \/ DropStale(w) \/ Crash(w)
         \/ Disconnect(w) \/ MarkUnknown(w) \/ Reconnect(w) \/ Reboot(w)
  PROVE  LifecycleInv'
<1>1. CASE Inbound(w)
  BY <1>1, ReceiveStatusKept, ReceiveResultKept, ReceiveLateKept DEF Inbound
<1>2. CASE WorkerStep(w)
  <2>1. CASE Execute(w) \/ BeginUpload(w) \/ EndUpload(w)
    BY <2>1, ExecuteKept, BeginUploadKept, EndUploadKept
  <2>2. CASE DetachedEnds(w) \/ Ready(w) \/ OrphanDies(w)
    BY <2>2, DetachedEndsKept, ReadyKept, OrphanDiesKept
  <2> QED BY <1>2, <2>1, <2>2 DEF WorkerStep, LaneStep
<1>3. CASE DropStale(w) \/ Crash(w)
  BY <1>3, DropStaleKept, CrashKept
<1>4. CASE Disconnect(w) \/ MarkUnknown(w)
  BY <1>4, DisconnectKept, MarkUnknownKept
<1>5. CASE Reconnect(w) \/ Reboot(w)
  BY <1>5, ReconnectKept, RebootKept
<1> QED BY <1>1, <1>2, <1>3, <1>4, <1>5

LEMMA NextKept ==
  ASSUME LifecycleInv, [Next]_vars
  PROVE  LifecycleInv'
<1>1. CASE Restart \/ Drain \/ ApiRestart \/ ResetUnverifiable
  BY <1>1, RestartKept, DrainKept, ApiRestartKept, ResetUnverifiableKept
<1>2. CASE UNCHANGED vars
  BY <1>2, StutterKept
<1> QED BY <1>1, <1>2, FlowsKeep, WorkersKeep DEF Next

\* The lifecycle never leaves its invariant, with every race of AllRaces admitted.
THEOREM LifecycleInvariant == Spec => []LifecycleInv
BY InitHolds, NextKept, PTL DEF Spec

\* While a final snapshot of the server uploads, the row holds the worker it uploads
\* from: no release, repeated stop, late result or fault takes it away, and so no
\* start hydrates the generation before the one being published.
THEOREM UploadsKeepTheRow == Spec => []HeldWhileUploading
<1>1. LifecycleInv => HeldWhileUploading
  <2> SUFFICES ASSUME LifecycleInv, NEW w \in Workers, upload[w] PROVE assigned = w
    BY DEF HeldWhileUploading
  <2>1. lane[w] \in Seq(CommandRecords) /\ lane[w] # <<>> /\ Head(lane[w]).op = "snapshot"
    BY DEF LifecycleInv, TypeOK, UploadsHead
  <2>2. Head(lane[w]) \in Queued(w)
    BY <2>1, Shortened DEF Queued
  <2> QED BY <2>1, <2>2 DEF LifecycleInv, SnapshotsHeld
<1> QED BY <1>1, LifecycleInvariant, PTL

\* The worker that was told to stop is not forgotten by the flow that told it: a flow
\* that converges a stop finds the intent and its own worker on the row until it releases
\* it, and no other flow converges one beside it.
THEOREM StopsStayOwned == Spec => [](StopsHold /\ OneStop)
<1>1. LifecycleInv => StopsHold /\ OneStop
  BY DEF LifecycleInv
<1> QED BY <1>1, LifecycleInvariant, PTL

-----------------------------------------------------------------------------
(* No process is leaked, as long as no stop is hasty and no revert late: a    *)
(* result may still overtake a status.                                       *)

\* A flow that places a start, and one that may also have to take it back.
Starter(f) == flow[f].pc \in {"launch", "hydrating", "launching"}
Starting(f) == Starter(f) \/ flow[f].pc = "revert"

\* Nothing runs on w and nothing on its way will start it; or nobody counts on it.
Cold(w) == ~Alive(w) /\ detached[w] # "start" /\ \A c \in Queued(w) : c.op # "start"
Calm(w) == w \in forsaken \/ Cold(w)

\* One flow places a start, on the worker of the row.
StartOps == \A f \in Flows : Starting(f) => flow[f].op \in {"start", "place", "redispatch"}
OneStart == \A f, g \in Flows : Starting(f) /\ Starting(g) => f = g
StartersOwn == \A f \in Flows : Starter(f) => assigned = flow[f].worker

\* A stop that overlaps a start waits for its own answer, and the start has nothing
\* left to send.
ConvergeAlone ==
    \A f, g \in Flows : Converging(f) /\ Starter(g) =>
        /\ flow[f].pc \in {"stop", "stopping"}
        /\ flow[g].pc = "launching" /\ ~flow[g].skip
UnknownForsakes == \A f \in Flows : flow[f].pc = "releaseUnknown" => ~flow[f].release

\* Nothing runs where a start is about to be tried or taken back, where a stop was
\* confirmed, and where a final snapshot is under way.
CalmStarts ==
    \A f \in Flows, w \in Workers : flow[f].worker = w =>
        /\ flow[f].pc \in {"launch", "hydrating"} /\ flow[f].op # "redispatch" => Calm(w)
        /\ flow[f].pc = "revert" /\ desired = "running" => assigned = w /\ Calm(w)
CalmAnswers ==
    \A f \in Flows, w \in Workers :
        /\ flow[f].worker = w
        /\ \/ flow[f].pc \in {"confirmed", "gone", "snapshot", "uploading"}
           \/ flow[f].pc = "release" /\ flow[f].release
        => Calm(w)
SnapshotAt(w) ==
    \/ \E c \in Queued(w) : c.op = "snapshot"
    \/ \E m \in Messages(w) : m.kind = "result" /\ m.op = "snapshot"
CalmSnapshots ==
    \A w \in Workers : SnapshotAt(w) =>
        Calm(w) /\ desired = "stopped" /\ assigned = w /\ \A g \in Flows : ~Starter(g)

\* What runs, or is about to, is on the row's worker.
OwnersHot == \A w \in Workers : ~Calm(w) => assigned = w

Poise ==
    /\ StartOps /\ OneStart /\ StartersOwn /\ ConvergeAlone /\ UnknownForsakes
    /\ CalmStarts /\ CalmAnswers /\ CalmSnapshots /\ OwnersHot

\* A launching flow's start is queued or answered.
StartPending(f) ==
    LET w == flow[f].worker
    IN \/ \E c \in Queued(w) : c.op = "start" /\ c.flow = f
       \/ \E m \in Messages(w) : m.kind = "result" /\ m.op = "start" /\ m.flow = f
LaunchesPending ==
    \A f \in Flows : flow[f].pc = "launching" =>
        /\ flow[f].attempted /\ flow[f].worker \in online
        /\ flow[f].skip => flow[f].op # "place"
        /\ StartPending(f)

\* A start that its flow would take back is the only one queued, and once refused
\* has left nothing behind.
OnlyStarts ==
    \A w \in Workers \ forsaken : \A c, d \in Queued(w) :
        /\ c.op = "start" /\ c.flow \in Flows /\ flow[c.flow].op = "start"
        /\ d.op = "start"
        => d.flow = c.flow
Refusals(m) == m.kind = "result" /\ m.op = "start" /\ m.status \notin {"ok", "invalid", "busy"}
RefusedCold ==
    \A w \in Workers \ forsaken : \A m \in Messages(w) :
        Refusals(m) /\ m.flow \in Flows /\ flow[m.flow].op = "start" => Cold(w)

\* No element of A in s is followed by one of B.
InOrder(s, A, B) ==
    \A i, j \in 1 .. Len(s) : i < j /\ s[i] \in A => s[j] \notin B

\* An awaited stop follows the starts it means to end, and so does its answer, which
\* leaves nothing running.
AwaitedStops == {c \in CommandRecords : c.op = "stop" /\ c.flow \in Flows}
QueuedStarts == {c \in CommandRecords : c.op = "start"}
StopAnswers ==
    {m \in ResultRecords : /\ m.op = "stop" /\ m.flow \in Flows
                           /\ m.status \in {"ok", "notfound"}}
StartAnswers == {m \in ResultRecords : m.op = "start"}
StopsInOrder ==
    \A w \in Workers : /\ InOrder(lane[w], AwaitedStops, QueuedStarts)
                       /\ InOrder(uplink[w], StopAnswers, StartAnswers)
StopsAnswered == \A w \in Workers : Within(uplink[w], StopAnswers) => Cold(w)

Wired == LaunchesPending /\ OnlyStarts /\ RefusedCold /\ StopsInOrder /\ StopsAnswered

\* No message of its kind is ahead of the i-th.
Foremost(s, i) == i \in 1 .. Len(s) /\ \A j \in 1 .. (i - 1) : s[j].kind # s[i].kind

\* The row does not read gone, and will not, for a process that runs.
IsGone(state) == state \in {"stopped", "crashed"}
Mute(s) == \A i \in 1 .. Len(s) : s[i].kind # "status"
SaysGone(s) ==
    \E i \in 1 .. Len(s) :
        /\ s[i].kind = "status" /\ IsGone(s[i].state)
        /\ \A j \in 1 .. Len(s) : s[j].kind = "status" => j <= i
Honest ==
    \A w \in Workers \ forsaken : Alive(w) =>
        ~SaysGone(uplink[w]) /\ (Mute(uplink[w]) => ~IsGone(observed))
DetachedStops == \A w \in Workers : detached[w] = "stop" => Alive(w)

OwnedInv == LifecycleInv /\ Poise /\ Wired /\ Honest /\ DetachedStops

-----------------------------------------------------------------------------
(* Its proof.  What a step does to the order of messages and to the last     *)
(* status a worker reported, first.                                          *)

LEMMA OrderAppended ==
  ASSUME NEW S, NEW s \in Seq(S), NEW e \in S, NEW A, NEW B, InOrder(s, A, B),
         e \in B => ~Within(s, A)
  PROVE  InOrder(Append(s, e), A, B)
<1> DEFINE a == Append(s, e)
<1>1. Len(a) = Len(s) + 1 /\ a[Len(a)] = e /\ Len(s) \in Nat
      /\ \A i \in 1 .. Len(s) : a[i] = s[i]
  OBVIOUS
<1> HIDE DEF a
<1>2. ASSUME NEW i \in 1 .. Len(a), NEW j \in 1 .. Len(a), i < j, a[i] \in A
      PROVE  a[j] \notin B
  <2>1. i \in 1 .. Len(s) /\ s[i] \in A
    BY <1>1, <1>2
  <2>2. CASE j \in 1 .. Len(s)
    BY <1>1, <1>2, <2>1, <2>2 DEF InOrder
  <2>3. CASE j = Len(a)
    BY <1>1, <2>1, <2>3 DEF Within
  <2> QED BY <1>1, <2>2, <2>3
<1>3. InOrder(a, A, B)
  BY <1>2 DEF InOrder
<1> QED BY <1>3 DEF a

LEMMA OrderJoined ==
  ASSUME NEW S, NEW s \in Seq(S), NEW t \in Seq(S), NEW A, NEW B,
         InOrder(s, A, B), InOrder(t, A, B), ~(Within(s, A) /\ Within(t, B))
  PROVE  InOrder(s \o t, A, B)
<1> DEFINE a == s \o t
<1>1. /\ Len(a) = Len(s) + Len(t) /\ Len(s) \in Nat /\ Len(t) \in Nat
      /\ \A i \in 1 .. Len(s) : a[i] = s[i]
      /\ \A i \in 1 .. Len(t) : a[Len(s) + i] = t[i]
  BY Concatenated
<1> HIDE DEF a
<1>2. \A i \in 1 .. Len(a) : i \in 1 .. Len(s) \/ (i - Len(s) \in 1 .. Len(t) /\ a[i] = t[i - Len(s)])
  BY <1>1
<1>3. ASSUME NEW i \in 1 .. Len(a), NEW j \in 1 .. Len(a), i < j, a[i] \in A
      PROVE  a[j] \notin B
  <2>1. CASE j \in 1 .. Len(s)
    BY <1>1, <1>3, <2>1 DEF InOrder
  <2>2. CASE i \in 1 .. Len(s) /\ j \notin 1 .. Len(s)
    BY <1>1, <1>2, <1>3, <2>2 DEF Within
  <2>3. CASE i \notin 1 .. Len(s) /\ j \notin 1 .. Len(s)
    <3>1. /\ i - Len(s) \in 1 .. Len(t) /\ a[i] = t[i - Len(s)]
          /\ j - Len(s) \in 1 .. Len(t) /\ a[j] = t[j - Len(s)]
          /\ i - Len(s) < j - Len(s)
      BY <1>1, <1>2, <1>3, <2>3
    <3> QED BY <1>3, <3>1 DEF InOrder
  <2>4. CASE i \notin 1 .. Len(s) /\ j \in 1 .. Len(s)
    BY <1>1, <1>3, <2>4
  <2> QED BY <2>1, <2>2, <2>3, <2>4
<1>4. InOrder(a, A, B)
  BY <1>3 DEF InOrder
<1> QED BY <1>4 DEF a

LEMMA OrderTail ==
  ASSUME NEW S, NEW s \in Seq(S), s # <<>>, NEW A, NEW B, InOrder(s, A, B)
  PROVE  InOrder(Tail(s), A, B) /\ (Head(s) \in A => ~Within(Tail(s), B))
<1>1. /\ Len(Tail(s)) = Len(s) - 1 /\ Len(s) \in Nat /\ Len(s) > 0
      /\ \A i \in 1 .. Len(Tail(s)) : Tail(s)[i] = s[i + 1]
      /\ Head(s) = s[1]
  OBVIOUS
<1> DEFINE t == Tail(s)
<1> HIDE DEF t
<1>2. \A i \in 1 .. Len(t) : i + 1 \in 1 .. Len(s) /\ t[i] = s[i + 1]
  BY <1>1 DEF t
<1>3. InOrder(t, A, B)
  <2> SUFFICES ASSUME NEW i \in 1 .. Len(t), NEW j \in 1 .. Len(t), i < j, t[i] \in A
               PROVE  t[j] \notin B
    BY DEF InOrder
  <2>1. i + 1 \in 1 .. Len(s) /\ j + 1 \in 1 .. Len(s) /\ i + 1 < j + 1
    BY <1>2
  <2> QED BY <1>2, <2>1 DEF InOrder
<1>4. Head(s) \in A => ~Within(t, B)
  <2> SUFFICES ASSUME s[1] \in A, NEW i \in 1 .. Len(t) PROVE t[i] \notin B
    BY <1>1 DEF Within
  <2>1. 1 \in 1 .. Len(s) /\ i + 1 \in 1 .. Len(s) /\ 1 < i + 1
    BY <1>1, <1>2
  <2> QED BY <1>2, <2>1 DEF InOrder
<1> QED BY <1>3, <1>4 DEF t

\* What is left of s without its i-th element.
LEMMA WithoutNth ==
  ASSUME NEW S, NEW s \in Seq(S), NEW i \in 1 .. Len(s)
  PROVE  /\ Len(s) \in Nat /\ Without(s, i) \in Seq(S) /\ Len(Without(s, i)) = Len(s) - 1
         /\ \A j \in 1 .. Len(Without(s, i)) :
               Without(s, i)[j] = s[IF j < i THEN j ELSE j + 1]
<1> DEFINE a == Without(s, i)
           b == SubSeq(s, 1, i - 1)
           c == SubSeq(s, i + 1, Len(s))
<1>1. Len(s) \in Nat /\ i \in Int /\ 1 <= i /\ i <= Len(s)
  OBVIOUS
<1>2. b \in Seq(S) /\ Len(b) = i - 1 /\ \A j \in 1 .. i - 1 : b[j] = s[j]
  BY <1>1
<1>3. c \in Seq(S) /\ Len(c) = Len(s) - i /\ \A j \in 1 .. Len(s) - i : c[j] = s[i + j]
  <2>1. \A j \in 1 .. Len(s) - i : c[j] = s[(i + 1) + j - 1] /\ (i + 1) + j - 1 = i + j
    BY <1>1
  <2> QED BY <1>1, <2>1
<1> HIDE DEF b, c
<1>4. /\ b \o c \in Seq(S) /\ Len(b \o c) = Len(b) + Len(c)
      /\ \A j \in 1 .. Len(b) : (b \o c)[j] = b[j]
      /\ \A j \in 1 .. Len(c) : (b \o c)[Len(b) + j] = c[j]
  <2>1. b \in Seq(S) /\ c \in Seq(S)
    BY <1>2, <1>3
  <2>2. \A x, y \in Seq(S) :
           /\ x \o y \in Seq(S) /\ Len(x \o y) = Len(x) + Len(y)
           /\ \A j \in 1 .. Len(x) : (x \o y)[j] = x[j]
           /\ \A j \in 1 .. Len(y) : (x \o y)[Len(x) + j] = y[j]
    BY Concatenated
  <2> QED BY ONLY <2>1, <2>2
<1>5. a = b \o c
  BY DEF Without, b, c
<1>6. ASSUME NEW j \in 1 .. Len(a) PROVE a[j] = s[IF j < i THEN j ELSE j + 1]
  <2>1. CASE j < i
    BY <1>1, <1>2, <1>4, <1>5, <2>1
  <2>2. CASE ~(j < i)
    <3> DEFINE k == j - (i - 1)
    <3>1. k \in 1 .. Len(c) /\ Len(b) + k = j /\ i + k = j + 1
      BY <1>1, <1>2, <1>3, <1>4, <1>5, <2>2
    <3> HIDE DEF k
    <3>2. a[j] = c[k] /\ c[k] = s[i + k]
      BY <1>3, <1>4, <1>5, <3>1
    <3> QED BY <2>2, <3>1, <3>2
  <2> QED BY <2>1, <2>2
<1>7. Len(a) = Len(s) - 1
  <2>1. Len(a) = (i - 1) + (Len(s) - i)
    BY <1>2, <1>3, <1>4, <1>5
  <2> QED BY <1>1, <2>1
<1>8. a \in Seq(S)
  BY <1>4, <1>5
<1> QED BY <1>1, <1>6, <1>7, <1>8

LEMMA OrderWithout ==
  ASSUME NEW S, NEW s \in Seq(S), NEW i \in 1 .. Len(s), NEW A, NEW B, InOrder(s, A, B)
  PROVE  InOrder(Without(s, i), A, B)
<1> DEFINE t == Without(s, i)
           At(k) == IF k < i THEN k ELSE k + 1
<1>1. /\ Len(t) = Len(s) - 1 /\ Len(s) \in Nat
      /\ \A k \in 1 .. Len(t) : t[k] = s[At(k)]
  BY WithoutNth
<1> HIDE DEF t
<1>2. \A k \in 1 .. Len(t) : At(k) \in 1 .. Len(s)
  BY <1>1
<1>3. \A k, l \in 1 .. Len(t) : k < l => At(k) < At(l)
  BY <1>1
<1> HIDE DEF At
<1>4. InOrder(t, A, B)
  BY <1>1, <1>2, <1>3 DEF InOrder
<1> QED BY <1>4 DEF t

LEMMA OrderDisowned ==
  ASSUME NEW S \in {CommandRecords, ResultRecords \cup StatusRecords}, NEW s \in Seq(S),
         NEW f \in Flows
  PROVE  /\ InOrder(s, AwaitedStops, QueuedStarts) =>
               InOrder(Disowned(s, f), AwaitedStops, QueuedStarts)
         /\ InOrder(s, StopAnswers, StartAnswers) =>
               InOrder(Disowned(s, f), StopAnswers, StartAnswers)
<1> DEFINE t == Disowned(s, f)
<1>1. Len(s) \in Nat /\ \A i \in 1 .. Len(s) : s[i] \in S
  OBVIOUS
<1>2. /\ Len(t) = Len(s)
      /\ \A i \in 1 .. Len(s) : t[i] = IF s[i].kind # "status" /\ s[i].flow = f
                                       THEN [s[i] EXCEPT !.flow = NoFlow] ELSE s[i]
  BY <1>1 DEF Disowned
<1> HIDE DEF t
<1>3. ASSUME NEW i \in 1 .. Len(s)
      PROVE  /\ t[i] \in AwaitedStops => s[i] \in AwaitedStops
             /\ t[i] \in QueuedStarts => s[i] \in QueuedStarts
             /\ t[i] \in StopAnswers => s[i] \in StopAnswers
             /\ t[i] \in StartAnswers => s[i] \in StartAnswers
  <2> DEFINE m == s[i]
  <2>1. m \in CommandRecords \/ m \in ResultRecords \/ m \in StatusRecords
    BY <1>1
  <2>2. t[i] = IF m.kind # "status" /\ m.flow = f THEN [m EXCEPT !.flow = NoFlow] ELSE m
    BY <1>2
  <2>0. s[i] = m
    OBVIOUS
  <2> HIDE DEF m
  <2>3. CASE m \in CommandRecords
    <3>1. /\ t[i] \in CommandRecords /\ t[i] \notin ResultRecords /\ t[i].op = m.op
          /\ t[i].flow = IF m.flow = f THEN NoFlow ELSE m.flow
      BY <2>2, <2>3 DEF CommandRecords, ResultRecords, Awaiters
    <3> QED BY <2>0, <2>3, <3>1, IdsAssumption DEF AwaitedStops, QueuedStarts, StopAnswers, StartAnswers
  <2>4. CASE m \in ResultRecords
    <3>1. /\ t[i] \in ResultRecords /\ t[i] \notin CommandRecords /\ t[i].op = m.op
          /\ t[i].status = m.status /\ t[i].flow = IF m.flow = f THEN NoFlow ELSE m.flow
      BY <2>2, <2>4 DEF CommandRecords, ResultRecords, Awaiters
    <3> QED BY <2>0, <2>4, <3>1, IdsAssumption DEF AwaitedStops, QueuedStarts, StopAnswers, StartAnswers
  <2>5. CASE m \in StatusRecords
    <3>1. t[i] = m
      BY <2>2, <2>5 DEF StatusRecords
    <3> QED BY <2>0, <3>1
  <2> QED BY <2>1, <2>3, <2>4, <2>5
<1>4. /\ InOrder(s, AwaitedStops, QueuedStarts) => InOrder(t, AwaitedStops, QueuedStarts)
      /\ InOrder(s, StopAnswers, StartAnswers) => InOrder(t, StopAnswers, StartAnswers)
  BY <1>2, <1>3 DEF InOrder
<1> QED BY <1>4 DEF t

LEMMA NothingInOrder ==
  ASSUME NEW s, NEW A, NEW B, ~Within(s, A) \/ ~Within(s, B)
  PROVE  InOrder(s, A, B)
  BY DEF InOrder, Within

\* The last status of s \o t is t's last, or s's if t has none.
LEMMA LastJoined ==
  ASSUME NEW S, NEW s \in Seq(S), NEW t \in Seq(S)
  PROVE  /\ Mute(t) => (SaysGone(s \o t) => SaysGone(s)) /\ (Mute(s \o t) => Mute(s))
         /\ ~Mute(t) => ~Mute(s \o t) /\ (SaysGone(s \o t) => SaysGone(t))
<1> DEFINE a == s \o t
<1>1. /\ Len(a) = Len(s) + Len(t) /\ Len(s) \in Nat /\ Len(t) \in Nat
      /\ \A i \in 1 .. Len(s) : a[i] = s[i]
      /\ \A i \in 1 .. Len(t) : a[Len(s) + i] = t[i]
  BY Concatenated
<1> HIDE DEF a
<1>2. \A i \in 1 .. Len(a) : i \in 1 .. Len(s) \/ (i - Len(s) \in 1 .. Len(t) /\ a[i] = t[i - Len(s)])
  BY <1>1
<1>3. /\ \A i \in 1 .. Len(s) : i \in 1 .. Len(a)
      /\ \A i \in 1 .. Len(t) : Len(s) + i \in 1 .. Len(a)
  BY <1>1
<1>4. (Mute(a) => Mute(s)) /\ (~Mute(t) => ~Mute(a))
  BY <1>1, <1>3 DEF Mute
<1>5. ASSUME Mute(t), SaysGone(a) PROVE SaysGone(s)
  <2>1. PICK i \in 1 .. Len(a) :
           /\ a[i].kind = "status" /\ IsGone(a[i].state)
           /\ \A j \in 1 .. Len(a) : a[j].kind = "status" => j <= i
    BY <1>5 DEF SaysGone
  <2>2. i \in 1 .. Len(s) /\ s[i] = a[i]
    BY <1>1, <1>2, <1>5, <2>1 DEF Mute
  <2>3. \A j \in 1 .. Len(s) : s[j].kind = "status" => j <= i
    BY <1>1, <1>3, <2>1
  <2> QED BY <2>1, <2>2, <2>3 DEF SaysGone
<1>6. ASSUME ~Mute(t), SaysGone(a) PROVE SaysGone(t)
  <2>1. PICK i \in 1 .. Len(a) :
           /\ a[i].kind = "status" /\ IsGone(a[i].state)
           /\ \A j \in 1 .. Len(a) : a[j].kind = "status" => j <= i
    BY <1>6 DEF SaysGone
  <2>2. PICK k \in 1 .. Len(t) : t[k].kind = "status"
    BY <1>6 DEF Mute
  <2>3. Len(s) + k <= i
    BY <1>1, <1>3, <2>1, <2>2
  <2>4. i - Len(s) \in 1 .. Len(t) /\ a[i] = t[i - Len(s)]
    BY <1>1, <1>2, <2>3
  <2>5. ASSUME NEW j \in 1 .. Len(t), t[j].kind = "status" PROVE j <= i - Len(s)
    <3>1. Len(s) + j <= i
      BY <1>1, <1>3, <2>1, <2>5
    <3> QED BY <1>1, <3>1
  <2>6. t[i - Len(s)].kind = "status" /\ IsGone(t[i - Len(s)].state)
    BY <2>1, <2>4
  <2> QED BY <2>4, <2>5, <2>6 DEF SaysGone
<1> QED BY <1>4, <1>5, <1>6 DEF a

\* What is left to be heard, once the first message is.
LEMMA LastHeard ==
  ASSUME NEW S, NEW s \in Seq(S), NEW i, Foremost(s, i)
  PROVE  /\ SaysGone(Without(s, i)) => SaysGone(s)
         /\ Mute(Without(s, i)) =>
               \/ Mute(s)
               \/ s[i].kind = "status" /\ (IsGone(s[i].state) => SaysGone(s))
<1> DEFINE t == Without(s, i)
           At(k) == IF k < i THEN k ELSE k + 1
<1>1. /\ i \in 1 .. Len(s) /\ Len(s) \in Nat /\ Len(t) = Len(s) - 1
      /\ \A j \in 1 .. (i - 1) : s[j].kind # s[i].kind
      /\ \A k \in 1 .. Len(t) : t[k] = s[At(k)]
  BY WithoutNth DEF Foremost
<1> HIDE DEF t
<1>2. ASSUME NEW j \in 1 .. Len(s), j # i
      PROVE  \E k \in 1 .. Len(t) : At(k) = j
  <2>1. CASE j < i
    <3>1. j \in 1 .. Len(t) /\ At(j) = j
      BY <1>1, <2>1
    <3> QED BY <3>1
  <2>2. CASE j > i
    <3>1. j - 1 \in 1 .. Len(t) /\ At(j - 1) = j
      BY <1>1, <2>2
    <3> QED BY <3>1
  <2> QED BY <1>1, <1>2, <2>1, <2>2
<1>3. \A k \in 1 .. Len(t) : At(k) \in 1 .. Len(s) /\ At(k) # i
  BY <1>1
<1>4. \A k, l \in 1 .. Len(t) : k <= l => At(k) <= At(l)
  BY <1>1
<1>5. \A k \in 1 .. Len(t) : At(k) < i => At(k) \in 1 .. (i - 1)
  BY <1>1, <1>3
<1> HIDE DEF At
<1>6. ASSUME SaysGone(t) PROVE SaysGone(s)
  <2>1. PICK k \in 1 .. Len(t) :
           /\ t[k].kind = "status" /\ IsGone(t[k].state)
           /\ \A l \in 1 .. Len(t) : t[l].kind = "status" => l <= k
    BY <1>6 DEF SaysGone
  <2>2. At(k) \in 1 .. Len(s) /\ s[At(k)].kind = "status" /\ IsGone(s[At(k)].state)
    BY <1>1, <1>3, <2>1
  <2>3. ASSUME NEW j \in 1 .. Len(s), s[j].kind = "status" PROVE j <= At(k)
    <3>1. CASE j = i
      <4>1. ~(At(k) < i)
        BY <1>1, <1>5, <2>2, <2>3, <3>1
      <4> QED BY <1>1, <2>2, <3>1, <4>1
    <3>2. CASE j # i
      <4>1. PICK l \in 1 .. Len(t) : At(l) = j
        BY <1>2, <3>2
      <4>2. t[l].kind = "status"
        BY <1>1, <2>3, <4>1
      <4> QED BY <1>4, <2>1, <4>1, <4>2
    <3> QED BY <3>1, <3>2
  <2> QED BY <2>2, <2>3 DEF SaysGone
<1>7. ASSUME Mute(t), ~Mute(s)
      PROVE  s[i].kind = "status" /\ (IsGone(s[i].state) => SaysGone(s))
  <2>1. ASSUME NEW j \in 1 .. Len(s), s[j].kind = "status" PROVE j = i
    <3> SUFFICES ASSUME j # i PROVE FALSE
      OBVIOUS
    <3>1. PICK k \in 1 .. Len(t) : At(k) = j
      BY <1>2
    <3> QED BY <1>1, <1>7, <2>1, <3>1 DEF Mute
  <2>2. s[i].kind = "status"
    BY <1>7, <2>1 DEF Mute
  <2>3. \A j \in 1 .. Len(s) : s[j].kind = "status" => j <= i
    BY <1>1, <2>1
  <2> QED BY <1>1, <2>2, <2>3 DEF SaysGone
<1> QED BY <1>6, <1>7 DEF t

\* Messages that change nothing but whom they name.
LEMMA LastDisowned ==
  ASSUME NEW S \in {CommandRecords, ResultRecords \cup StatusRecords}, NEW s \in Seq(S),
         NEW f \in Flows
  PROVE  /\ SaysGone(Disowned(s, f)) => SaysGone(s)
         /\ Mute(Disowned(s, f)) => Mute(s)
<1> DEFINE t == Disowned(s, f)
<1>1. Len(s) \in Nat /\ \A i \in 1 .. Len(s) : s[i] \in S
  OBVIOUS
<1>2. /\ Len(t) = Len(s)
      /\ \A i \in 1 .. Len(s) : t[i] = IF s[i].kind # "status" /\ s[i].flow = f
                                       THEN [s[i] EXCEPT !.flow = NoFlow] ELSE s[i]
  BY <1>1 DEF Disowned
<1> HIDE DEF t
<1>3. ASSUME NEW i \in 1 .. Len(s)
      PROVE  (t[i].kind = "status" <=> s[i].kind = "status") /\ (s[i].kind = "status" => t[i] = s[i])
  <2> DEFINE m == s[i]
  <2>0. s[i] = m
    OBVIOUS
  <2>1. m \in CommandRecords \/ m \in ResultRecords \/ m \in StatusRecords
    BY <1>1
  <2>2. t[i] = IF m.kind # "status" /\ m.flow = f THEN [m EXCEPT !.flow = NoFlow] ELSE m
    BY <1>2
  <2> HIDE DEF m
  <2>3. CASE m \in CommandRecords
    BY <2>0, <2>2, <2>3 DEF CommandRecords
  <2>4. CASE m \in ResultRecords
    BY <2>0, <2>2, <2>4 DEF ResultRecords
  <2>5. CASE m \in StatusRecords
    BY <2>0, <2>2, <2>5 DEF StatusRecords
  <2> QED BY <2>1, <2>3, <2>4, <2>5
<1>4. SaysGone(t) => SaysGone(s)
  BY <1>2, <1>3 DEF SaysGone
<1>5. Mute(t) => Mute(s)
  BY <1>2, <1>3 DEF Mute
<1> QED BY <1>4, <1>5 DEF t

\* The statuses that outlive a session end with the same one.
LEMMA LastKept ==
  ASSUME NEW s \in Seq(ResultRecords \cup StatusRecords)
  PROVE  (SaysGone(Statuses(s)) => SaysGone(s)) /\ (Mute(Statuses(s)) => Mute(s))
<1> DEFINE kept == {i \in 1 .. Len(s) : s[i].kind = "status"}
           Upto(i) == {j \in kept : j <= i}
           Nth(k) == CHOOSE i \in kept : Cardinality(Upto(i)) = k
           n == Cardinality(kept)
           t == Statuses(s)
<1>1. Len(s) \in Nat /\ kept \in SUBSET (1 .. Len(s))
  OBVIOUS
<1>2. n \in Nat /\ IsFiniteSet(kept)
  <2>1. IsFiniteSet(1 .. Len(s))
    BY <1>1, FS_Interval
  <2> QED BY <1>1, <2>1, FS_Subset, FS_CardinalityType
<1>3. t = [k \in 1 .. n |-> s[Nth(k)]]
  BY DEF Statuses
<1>4. \A k \in 1 .. n : Nth(k) \in kept /\ Cardinality(Upto(Nth(k))) = k
  <2> TAKE k \in 1 .. n
  <2>1. \E i \in kept : Cardinality(Upto(i)) = k
    BY <1>1, Ranked
  <2> QED BY <2>1
<1> HIDE DEF Nth, t
<1>5. /\ Len(t) = n
      /\ \A k \in 1 .. n : /\ t[k] = s[Nth(k)] /\ Nth(k) \in 1 .. Len(s)
                           /\ t[k].kind = "status"
  <2>1. \A k \in 1 .. n : Nth(k) \in 1 .. Len(s) /\ s[Nth(k)].kind = "status"
    BY <1>4
  <2> HIDE DEF n
  <2>2. Len(t) = n /\ \A k \in 1 .. n : t[k] = s[Nth(k)]
    BY <1>2, <1>3
  <2> QED BY <2>1, <2>2
<1>6. ASSUME SaysGone(t) PROVE SaysGone(s)
  <2>1. PICK k \in 1 .. Len(t) :
           /\ t[k].kind = "status" /\ IsGone(t[k].state)
           /\ \A j \in 1 .. Len(t) : t[j].kind = "status" => j <= k
    BY <1>6 DEF SaysGone
  <2>2. k = n /\ n \in 1 .. n
    <3>1. k \in 1 .. n /\ n \in 1 .. n
      BY <1>2, <1>5
    <3>2. n <= k
      BY <1>5, <2>1, <3>1
    <3> QED BY <1>2, <3>1, <3>2
  <2>3. Upto(Nth(n)) = kept
    <3>1. Upto(Nth(n)) \subseteq kept /\ Cardinality(Upto(Nth(n))) = Cardinality(kept)
      BY <1>4, <2>2
    <3> HIDE DEF Upto, kept
    <3> QED BY <1>2, <3>1, FS_Subset
  <2>4. \A j \in 1 .. Len(s) : s[j].kind = "status" => j <= Nth(n)
    BY <2>3
  <2>5. Nth(n) \in 1 .. Len(s) /\ s[Nth(n)].kind = "status" /\ IsGone(s[Nth(n)].state)
    BY <1>5, <2>1, <2>2
  <2> QED BY <2>4, <2>5 DEF SaysGone
<1>7. ASSUME Mute(t) PROVE Mute(s)
  <2>1. n = 0
    <3>1. n # 0 => 1 \in 1 .. n
      BY <1>2
    <3> QED BY <1>5, <1>7, <3>1 DEF Mute
  <2>2. kept = {}
    <3> HIDE DEF kept
    <3> QED BY <1>2, <2>1, FS_EmptySet
  <2> QED BY <2>2 DEF Mute
<1> QED BY <1>6, <1>7 DEF t

-----------------------------------------------------------------------------
(* Steps that keep the flows in poise.                                       *)

\* A record that differs at most in the stamp of its next write.
Alike(r, s) ==
    /\ r.op = s.op /\ r.pc = s.pc /\ r.worker = s.worker
    /\ r.skip = s.skip /\ r.attempted = s.attempted /\ r.release = s.release
Resumed(f) == flow'[f].op = flow[f].op /\ flow'[f].worker = flow[f].worker
Launches(f) == flow[f].pc \in {"launch", "hydrating"} /\ flow'[f].pc = "launching"

\* What a step may do to a flow besides beginning a start.
Eased(f) ==
    \/ Alike(flow'[f], flow[f])
    \/ flow'[f].pc \in {"idle", "converge"}
    \/ flow'[f].pc = "revert" /\ Starter(f) /\ Resumed(f) /\ Calm(flow[f].worker)
    \/ /\ flow'[f].pc = "hydrating" /\ Starter(f) /\ Resumed(f)
       /\ flow[f].op # "redispatch" => Calm(flow[f].worker)
       /\ \A g \in Flows : ~Converging(g)
    \/ Launches(f) /\ Resumed(f)
    \/ flow[f].pc = "stop" /\ flow'[f].pc = "stopping"
    \/ /\ flow'[f].pc = "stop"
       /\ \A g \in Flows : Starter(g) =>
             /\ flow[g].pc = "launching" /\ ~flow[g].skip
             /\ Alike(flow'[g], flow[g])
    \/ /\ flow'[f].pc \in StopPcs \ {"stop", "stopping"}
       /\ \A g \in Flows : ~Starter(g)
       /\ IF flow'[f].pc = "releaseUnknown" THEN ~flow'[f].release
          ELSE flow'[f].pc # "release" \/ flow'[f].release => Calm(flow'[f].worker)

LEMMA Poised ==
  ASSUME LifecycleInv, Poise, UNCHANGED <<assigned, forsaken>>, desired' \in {desired, "stopped"},
         \A g \in Flows : Eased(g),
         \A w \in Workers : Cold(w) =>
            Cold(w)' \/ \E g \in Flows : Launches(g) /\ flow[g].worker = w,
         \A w \in Workers : SnapshotAt(w)' =>
            SnapshotAt(w) \/ \E g \in Flows : flow[g].pc = "snapshot" /\ flow[g].worker = w
  PROVE  Poise'
<1>1. ASSUME NEW g \in Flows
      PROVE  /\ Starting(g)' => Starting(g) /\ Resumed(g)
             /\ Starter(g)' => Starter(g)
             /\ flow[g].pc # "idle" => flow[g].worker \in Workers
  <2>1. flow[g].pc # "idle" => flow[g].worker \in Workers
    BY FlowsTyped DEF LifecycleInv, BusyRecords
  <2> QED BY <2>1 DEF Eased, Alike, Starting, Starter, Resumed, Launches, StopPcs
<1>2. \A w \in Workers : Calm(w) =>
         Calm(w)' \/ \E g \in Flows : Launches(g) /\ flow[g].worker = w
  BY DEF Calm
<1>3. \A g \in Flows : Launches(g) => Starter(g) /\ flow[g].pc # "launching" /\ \A h \in Flows : ~Converging(h)
  BY DEF Launches, Starter, Poise, ConvergeAlone
<1>4. StartOps' /\ OneStart'
  BY <1>1 DEF Poise, StartOps, OneStart, Resumed
<1>5. StartersOwn'
  BY <1>1 DEF Poise, StartersOwn, Resumed, Starting
<1>6. ConvergeAlone'
  <2> SUFFICES ASSUME NEW f \in Flows, NEW g \in Flows, Converging(f)', Starter(g)'
               PROVE  /\ flow'[f].pc \in {"stop", "stopping"}
                      /\ flow'[g].pc = "launching" /\ ~flow'[g].skip
    BY DEF ConvergeAlone
  <2>1. Starter(g)
    BY <1>1
  <2>2. \/ Alike(flow'[f], flow[f]) /\ Converging(f)
        \/ flow[f].pc = "stop" /\ flow'[f].pc = "stopping" /\ Converging(f)
        \/ /\ flow'[f].pc = "stop"
           /\ flow[g].pc = "launching" /\ ~flow[g].skip /\ Alike(flow'[g], flow[g])
    BY <2>1 DEF Eased, Converging, StopPcs, Launches, Alike
  <2>3. CASE Converging(f)
    <3>1. flow[f].pc \in {"stop", "stopping"} /\ flow[g].pc = "launching" /\ ~flow[g].skip
      BY <2>1, <2>3 DEF Poise, ConvergeAlone
    <3>2. Alike(flow'[g], flow[g])
      BY <2>1, <2>3, <3>1 DEF Eased, Launches, Starter, StopPcs
    <3>3. flow'[f].pc \in {"stop", "stopping"}
      BY <2>2, <3>1 DEF Alike
    <3> QED BY <3>1, <3>2, <3>3 DEF Alike
  <2>4. CASE ~Converging(f)
    BY <2>2, <2>4 DEF Alike
  <2> QED BY <2>3, <2>4
<1>7. UnknownForsakes'
  BY DEF Eased, Poise, UnknownForsakes, Alike, Launches
<1>8. CalmStarts'
  <2> SUFFICES ASSUME NEW f \in Flows, NEW w \in Workers, flow'[f].worker = w
               PROVE  /\ flow'[f].pc \in {"launch", "hydrating"} /\ flow'[f].op # "redispatch" =>
                            Calm(w)'
                      /\ flow'[f].pc = "revert" /\ desired' = "running" =>
                            assigned' = w /\ Calm(w)'
    BY DEF CalmStarts
  <2>1. Starting(f)' /\ ~Launches(f) => \A g \in Flows : ~Launches(g)
    BY <1>1, <1>3 DEF Poise, OneStart, Starting
  <2>2. CASE flow'[f].pc \in {"launch", "hydrating"} /\ flow'[f].op # "redispatch"
    <3>1. Calm(w)
      BY <2>2 DEF Eased, Alike, Resumed, Launches, Poise, CalmStarts, StopPcs
    <3>2. \A g \in Flows : ~Launches(g)
      BY <2>1, <2>2 DEF Starting, Starter, Launches
    <3> QED BY <1>2, <2>2, <3>1, <3>2
  <2>3. CASE flow'[f].pc = "revert" /\ desired' = "running"
    <3>1. Calm(w) /\ assigned = w
      BY <2>3 DEF Eased, Alike, Resumed, Launches, Poise, CalmStarts, StartersOwn, StopPcs
    <3>2. \A g \in Flows : ~Launches(g)
      BY <2>1, <2>3 DEF Starting, Launches
    <3> QED BY <1>2, <2>3, <3>1, <3>2
  <2> QED BY <2>2, <2>3
<1>9. CalmAnswers'
  <2> SUFFICES ASSUME NEW f \in Flows, NEW w \in Workers, flow'[f].worker = w,
                      \/ flow'[f].pc \in {"confirmed", "gone", "snapshot", "uploading"}
                      \/ flow'[f].pc = "release" /\ flow'[f].release
               PROVE  Calm(w)'
    BY DEF CalmAnswers
  <2>1. Calm(w) /\ \A g \in Flows : ~Starter(g)
    <3>1. CASE Alike(flow'[f], flow[f])
      BY <3>1 DEF Alike, Poise, CalmAnswers, ConvergeAlone, Converging, StopPcs
    <3>2. CASE ~Alike(flow'[f], flow[f])
      BY <3>2 DEF Eased, Launches
    <3> QED BY <3>1, <3>2
  <2> QED BY <1>2, <1>3, <2>1
<1>10. CalmSnapshots'
  <2> SUFFICES ASSUME NEW w \in Workers, SnapshotAt(w)'
               PROVE  Calm(w)' /\ desired' = "stopped" /\ assigned' = w /\ \A g \in Flows : ~Starter(g)'
    BY DEF CalmSnapshots
  <2>1. Calm(w) /\ desired = "stopped" /\ assigned = w /\ \A g \in Flows : ~Starter(g)
    <3>1. CASE SnapshotAt(w)
      BY <3>1 DEF Poise, CalmSnapshots
    <3>2. CASE \E g \in Flows : flow[g].pc = "snapshot" /\ flow[g].worker = w
      BY <3>2 DEF Poise, CalmAnswers, ConvergeAlone, LifecycleInv, StopsHold, Converging, StopPcs
    <3> QED BY <3>1, <3>2
  <2> QED BY <1>1, <1>2, <1>3, <2>1
<1>11. OwnersHot'
  BY <1>2, <1>3 DEF Poise, OwnersHot, StartersOwn
<1> QED BY <1>4, <1>5, <1>6, <1>7, <1>8, <1>9, <1>10, <1>11 DEF Poise

\* A start begins on w.
LEMMA StartPoised ==
  ASSUME LifecycleInv, Poise, NEW f \in Flows, flow[f].pc = "idle", NEW w \in Workers,
         flow'[f].pc = "launch", flow'[f].worker = w,
         flow'[f].op \in {"start", "place", "redispatch"},
         \A g \in Flows \ {f} : flow'[g] = flow[g] /\ flow[g].pc # "revert",
         desired' = "running", assigned' = w,
         UNCHANGED <<lane, uplink, detached, inst, forsaken>>,
         \/ assigned = NoWorker
         \/ /\ desired = "running" /\ assigned = w /\ flow'[f].op = "redispatch"
            /\ \A g \in Flows : ~Starter(g)
  PROVE  Poise'
<1>1. \A x \in Workers : /\ Cold(x)' <=> Cold(x)
                         /\ Calm(x)' <=> Calm(x)
                         /\ SnapshotAt(x)' <=> SnapshotAt(x)
  BY DEF Calm, Cold, Alive, SnapshotAt, Queued, Messages
<1>2. \A g \in Flows : flow[g].pc # "idle" => flow[g].worker \in Workers
  BY FlowsTyped DEF LifecycleInv, BusyRecords
<1>3. w # NoWorker /\ \A g \in Flows : Starter(g) => flow[g].worker # NoWorker
  BY <1>2, IdsAssumption DEF Starter
<1>4. \A g \in Flows : ~Starter(g) /\ ~Starting(g)
  BY <1>3 DEF Poise, StartersOwn, Starting
<1>5. \A g \in Flows : ~Converging(g)
  <2>1. \A g \in Flows : Converging(g) => flow[g].pc # "idle"
    BY DEF Converging, StopPcs
  <2> QED BY <1>2, <2>1, IdsAssumption DEF LifecycleInv, StopsHold
<1>6. \A x \in Workers : ~SnapshotAt(x)
  BY IdsAssumption DEF Poise, CalmSnapshots
<1>7. flow'[f].op # "redispatch" => Calm(w)
  BY IdsAssumption DEF Poise, OwnersHot
<1>8. \A x \in Workers : ~Calm(x) => x = w
  BY IdsAssumption DEF Poise, OwnersHot
<1>9. \A g \in Flows : g = f \/ (~Starting(g)' /\ ~Starter(g)' /\ ~Converging(g)')
  BY <1>4, <1>5 DEF Starting, Starter, Converging
<1>10. ~Converging(f)' /\ Starting(f)' /\ Starter(f)'
  BY DEF Starting, Starter, Converging, StopPcs
<1>11. StartOps' /\ OneStart' /\ StartersOwn' /\ ConvergeAlone'
  BY <1>9, <1>10 DEF StartOps, OneStart, StartersOwn, ConvergeAlone
<1>12. UnknownForsakes' /\ CalmAnswers'
  BY <1>9, <1>10 DEF UnknownForsakes, CalmAnswers, Converging, StopPcs
<1>13. CalmStarts'
  BY <1>1, <1>7, <1>9 DEF CalmStarts, Starting, Starter
<1>14. CalmSnapshots' /\ OwnersHot'
  BY <1>1, <1>6, <1>8 DEF CalmSnapshots, OwnersHot
<1> QED BY <1>11, <1>12, <1>13, <1>14 DEF Poise

\* The row lets go of its worker.
LEMMA ReleasePoised ==
  ASSUME LifecycleInv, Poise, assigned' = NoWorker, forsaken \subseteq forsaken',
         desired' \in {desired, "stopped"},
         \A g \in Flows : /\ Alike(flow'[g], flow[g]) \/ flow'[g].pc = "idle"
                          /\ ~Starter(g)'
                          /\ flow'[g].pc = "revert" => desired' = "stopped",
         \A x \in Workers : ~SnapshotAt(x)' /\ (Cold(x) => Cold(x)'),
         \A x \in Workers : assigned = x => Calm(x)'
  PROVE  Poise'
<1>1. \A x \in Workers : Calm(x) => Calm(x)'
  BY DEF Calm
<1>3. \A g \in Flows : /\ Starting(g)' => Starting(g) /\ flow'[g].op = flow[g].op
                       /\ Converging(g)' => Converging(g)
  BY DEF Starting, Starter, Alike, Converging, StopPcs
<1>4. StartOps' /\ OneStart' /\ StartersOwn' /\ ConvergeAlone' /\ CalmSnapshots'
  BY <1>3 DEF Poise, StartOps, OneStart, StartersOwn, ConvergeAlone, CalmSnapshots
<1>5. UnknownForsakes'
  BY DEF Poise, UnknownForsakes, Alike
<1>6. CalmStarts'
  BY DEF CalmStarts, Starter
<1>7. CalmAnswers'
  <2> SUFFICES ASSUME NEW f \in Flows, NEW w \in Workers, flow'[f].worker = w,
                      \/ flow'[f].pc \in {"confirmed", "gone", "snapshot", "uploading"}
                      \/ flow'[f].pc = "release" /\ flow'[f].release
               PROVE  Calm(w)'
    BY DEF CalmAnswers
  <2>1. Alike(flow'[f], flow[f])
    OBVIOUS
  <2> QED BY <1>1, <2>1 DEF Poise, CalmAnswers, Alike
<1>8. OwnersHot'
  BY <1>1 DEF Poise, OwnersHot
<1> QED BY <1>4, <1>5, <1>6, <1>7, <1>8 DEF Poise

-----------------------------------------------------------------------------
(* Steps that keep what the wires promise.                                   *)

\* A flow has no message under way after the step.
Unheard(g) ==
    \A x \in Workers : /\ \A c \in Queued(x)' : c.flow # g
                       /\ \A m \in Messages(x)' : m.kind = "result" => m.flow # g

\* No start is sent and no command answered.
LEMMA WiredStill ==
  ASSUME Wired, TypeOK', forsaken \subseteq forsaken', \A x \in Workers : Cold(x) => Cold(x)',
         \A x \in Workers : \A c \in Queued(x)' :
            \/ c \in Queued(x)
            \/ /\ c.flow \notin Flows
               /\ c.op = "start" => \E d \in Queued(x) : d.op = "start" /\ d.flow \in Flows /\ Unheard(d.flow),
         \A x \in Workers : \A m \in Messages(x)' :
            m.kind = "result" => m \in Messages(x) \/ m.flow \notin Flows,
         StopsInOrder',
         \A g \in Flows : \/ Unheard(g) /\ flow'[g].pc # "launching"
                          \/ /\ Alike(flow'[g], flow[g])
                             /\ flow[g].pc = "launching" =>
                                   flow[g].worker \in online' /\ StartPending(g)'
  PROVE  Wired'
<1>1. LaunchesPending'
  BY DEF Wired, LaunchesPending, Alike
<1>2. \A g \in Flows : Unheard(g) \/ flow'[g].op = flow[g].op
  BY DEF Alike
<1>3. OnlyStarts'
  <2> SUFFICES ASSUME NEW x \in Workers \ forsaken', NEW c \in Queued(x)', NEW d \in Queued(x)',
                      c.op = "start", c.flow \in Flows, flow'[c.flow].op = "start", d.op = "start"
               PROVE  d.flow = c.flow
    BY DEF OnlyStarts
  <2>1. c \in Queued(x) /\ flow[c.flow].op = "start" /\ ~Unheard(c.flow) /\ x \in Workers \ forsaken
    BY <1>2 DEF Unheard
  <2>2. CASE d \in Queued(x)
    BY <2>1, <2>2 DEF Wired, OnlyStarts
  <2>3. CASE d \notin Queued(x)
    <3>1. PICK e \in Queued(x) : e.op = "start" /\ Unheard(e.flow)
      BY <2>3
    <3>2. e.flow = c.flow
      BY <2>1, <3>1 DEF Wired, OnlyStarts
    <3> QED BY <2>1, <3>1, <3>2
  <2> QED BY <2>2, <2>3
<1>4. RefusedCold'
  <2> SUFFICES ASSUME NEW x \in Workers \ forsaken', NEW m \in Messages(x)', Refusals(m),
                      m.flow \in Flows, flow'[m.flow].op = "start"
               PROVE  Cold(x)'
    BY DEF RefusedCold
  <2>1. m \in Messages(x) /\ flow[m.flow].op = "start" /\ x \in Workers \ forsaken
    BY <1>2 DEF Refusals, Unheard
  <2> QED BY <2>1 DEF Wired, RefusedCold
<1>5. StopsAnswered'
  <2> SUFFICES ASSUME NEW x \in Workers, Within(uplink'[x], StopAnswers)
               PROVE  Cold(x)'
    BY DEF StopsAnswered
  <2>1. PICK m \in Messages(x)' : m \in StopAnswers
    BY DEF Within, Messages, Elems
  <2>2. m \in Messages(x)
    BY <2>1 DEF StopAnswers, ResultRecords
  <2>3. Within(uplink[x], StopAnswers)
    BY <2>1, <2>2 DEF Within, Messages, Elems
  <2> QED BY <2>3 DEF Wired, StopsAnswered
<1> QED BY <1>1, <1>3, <1>4, <1>5 DEF Wired

\* What a flow's messages say of it.
LEMMA Understood ==
  ASSUME LifecycleInv, NEW x \in Workers
  PROVE  /\ \A c \in Queued(x) : c \in CommandRecords /\ Expected(c, x)
         /\ \A m \in Messages(x) : /\ m \in ResultRecords \cup StatusRecords
                                   /\ m.kind = "result" => m \in ResultRecords /\ Expected(m, x)
<1>1. lane[x] \in Seq(CommandRecords) /\ uplink[x] \in Seq(ResultRecords \cup StatusRecords)
  BY DEF LifecycleInv, TypeOK
<1>2. Queued(x) = Elems(lane[x]) /\ Messages(x) = Elems(uplink[x])
  BY DEF Queued, Messages
<1>3. Queued(x) \subseteq CommandRecords /\ Messages(x) \subseteq ResultRecords \cup StatusRecords
  BY <1>1, <1>2, InLane, InUplink
<1> QED BY <1>3, Kinds DEF LifecycleInv, AllExpected

\* f sends op to its worker.
LEMMA WiredSent ==
  ASSUME LifecycleInv, LifecycleInv', Poise, Wired, NEW f \in Flows, NEW w \in Workers,
         flow[f].worker = w, w \in online, UNCHANGED <<online, inst, detached, forsaken>>,
         NEW op \in {"hydrate", "start", "stop", "snapshot"},
         lane' = [lane EXCEPT ![w] = Append(@, Command(op, f))],
         \A x \in Workers : /\ \A c \in Queued(x) : c.flow # f
                            /\ \A m \in Messages(x)' : m.kind = "result" => m \in Messages(x) /\ m.flow # f
                            /\ \A m \in Messages(x) : m.kind = "result" /\ m.flow # f => m \in Messages(x)'
                            /\ InOrder(uplink'[x], StopAnswers, StartAnswers),
         \A g \in Flows \ {f} : Alike(flow'[g], flow[g]),
         Resumed(f),
         IF op = "start"
         THEN /\ Launches(f) /\ flow'[f].attempted
              /\ flow'[f].skip => flow'[f].op # "place"
         ELSE flow'[f].pc # "launching"
  PROVE  Wired'
<1> DEFINE c == Command(op, f)
<1>1. c \in CommandRecords /\ c.op = op /\ c.flow = f
  BY CommandsMade DEF Verbs, Awaiters
<1> HIDE DEF c
<1>2. /\ \A x \in Workers : lane[x] \in Seq(CommandRecords)
      /\ \A x \in Workers \ {w} : lane'[x] = lane[x]
      /\ lane'[w] = Append(lane[w], c)
  BY DEF LifecycleInv, TypeOK, c
<1>3. Elems(lane'[w]) = Elems(lane[w]) \cup {c}
  BY <1>1, <1>2, Appended
<1>4. \A x \in Workers : Queued(x)' = IF x = w THEN Queued(x) \cup {c} ELSE Queued(x)
  BY <1>2, <1>3 DEF Queued, Elems
<1>5. \A x \in Workers : Cold(x) => Cold(x)' \/ (op = "start" /\ x = w)
  BY <1>1, <1>4 DEF Cold, Alive
<1>6. op = "start" => /\ \A g \in Flows : ~Converging(g)
                      /\ \A g \in Flows \ {f} : flow[g].pc # "launching"
                      /\ flow[f].op = "start" => Calm(w)
  BY DEF Poise, ConvergeAlone, OneStart, CalmStarts, Starter, Starting, Launches
<1>7. LaunchesPending'
  <2> SUFFICES ASSUME NEW g \in Flows, flow'[g].pc = "launching"
               PROVE  /\ flow'[g].attempted /\ flow'[g].worker \in online'
                      /\ flow'[g].skip => flow'[g].op # "place"
                      /\ StartPending(g)'
    BY DEF LaunchesPending
  <2>1. CASE g = f
    <3>1. c.op = "start" /\ c.flow = g /\ c \in Queued(w)' /\ flow'[g].worker = w
      BY <1>1, <1>4, <2>1 DEF Resumed
    <3> QED BY <2>1, <3>1 DEF StartPending, Resumed
  <2>2. CASE g # f
    <3>1. Alike(flow'[g], flow[g]) /\ flow[g].pc = "launching"
      BY <2>2 DEF Alike
    <3>2. StartPending(g) /\ flow[g].worker \in online /\ flow[g].attempted /\ (flow[g].skip => flow[g].op # "place")
      BY <3>1 DEF Wired, LaunchesPending
    <3>3. flow[g].worker \in Workers
      BY <3>2 DEF LifecycleInv, TypeOK
    <3>4. StartPending(g)'
      BY <1>4, <2>2, <3>1, <3>2, <3>3 DEF StartPending, Alike
    <3> QED BY <3>1, <3>2, <3>4 DEF Alike
  <2> QED BY <2>1, <2>2
<1>8. OnlyStarts'
  <2> SUFFICES ASSUME NEW x \in Workers \ forsaken, NEW a \in Queued(x)', NEW b \in Queued(x)',
                      a.op = "start", a.flow \in Flows, flow'[a.flow].op = "start", b.op = "start"
               PROVE  b.flow = a.flow
    BY DEF OnlyStarts
  <2>1. CASE op # "start"
    <3>1. a \in Queued(x) /\ b \in Queued(x) /\ a.flow # f
      BY <1>1, <1>4, <2>1
    <3> QED BY <3>1 DEF Wired, OnlyStarts, Alike
  <2>2. CASE op = "start" /\ a # c
    <3>1. a \in Queued(x) /\ a.flow # f /\ flow[a.flow].pc = "launching"
      BY <1>4, <2>2, Understood DEF Expected, Awaits
    <3> QED BY <1>6, <2>2, <3>1
  <2>3. CASE op = "start" /\ a = c /\ b # c
    <3>1. x = w /\ b \in Queued(w)
      BY <1>1, <1>4, <2>3
    <3>2. Cold(w)
      BY <1>1, <1>6, <2>3, <3>1 DEF Calm, Resumed
    <3> QED BY <3>1, <3>2 DEF Cold
  <2> QED BY <2>1, <2>2, <2>3
<1>9. RefusedCold'
  <2> SUFFICES ASSUME NEW x \in Workers \ forsaken, NEW m \in Messages(x)', Refusals(m),
                      m.flow \in Flows, flow'[m.flow].op = "start"
               PROVE  Cold(x)'
    BY DEF RefusedCold
  <2>1. m \in Messages(x) /\ m.flow # f
    BY DEF Refusals
  <2>2. flow[m.flow].pc = "launching"
    BY <2>1, Understood DEF Refusals, Expected, Awaits
  <2>3. Cold(x)
    BY <2>1 DEF Wired, RefusedCold, Alike
  <2> QED BY <1>5, <1>6, <2>1, <2>2, <2>3
<1>10. StopsInOrder'
  <2> SUFFICES ASSUME NEW x \in Workers PROVE InOrder(lane'[x], AwaitedStops, QueuedStarts)
    BY DEF StopsInOrder
  <2>1. InOrder(lane[x], AwaitedStops, QueuedStarts)
    BY DEF Wired, StopsInOrder
  <2>2. CASE x # w
    BY <1>2, <2>1, <2>2
  <2>3. CASE x = w
    <3>1. c \in QueuedStarts => ~Within(lane[w], AwaitedStops)
      <4> SUFFICES ASSUME op = "start", NEW d \in Queued(w), d \in AwaitedStops PROVE FALSE
        BY <1>1 DEF QueuedStarts, Within, Queued, Elems
      <4>1. Converging(d.flow) /\ d.flow \in Flows
        BY Understood DEF AwaitedStops, Expected, Awaits, Converging, StopPcs
      <4> QED BY <1>6, <4>1
    <3> QED BY <1>1, <1>2, <2>1, <2>3, <3>1, OrderAppended
  <2> QED BY <2>2, <2>3
<1>11. StopsAnswered'
  <2> SUFFICES ASSUME NEW x \in Workers, Within(uplink'[x], StopAnswers)
               PROVE  Cold(x)'
    BY DEF StopsAnswered
  <2>1. PICK m \in Messages(x)' : m \in StopAnswers
    BY DEF Within, Messages, Elems
  <2>2. m \in Messages(x) /\ m.kind = "result"
    BY <2>1 DEF StopAnswers, ResultRecords
  <2>3. Within(uplink[x], StopAnswers)
    BY <2>1, <2>2 DEF Within, Messages, Elems
  <2>4. Converging(m.flow) /\ m.flow \in Flows
    BY <2>1, <2>2, Understood DEF StopAnswers, Expected, Awaits, Converging, StopPcs
  <2> QED BY <1>5, <1>6, <2>3, <2>4 DEF Wired, StopsAnswered
<1> QED BY <1>7, <1>8, <1>9, <1>10, <1>11 DEF Wired

\* The sequences a lane and an uplink shrink from, by element.
LEMMA LeftBehind ==
  ASSUME NEW S, NEW s \in Seq(S)
  PROVE  /\ s # <<>> => Elems(s) \subseteq {Head(s)} \cup Elems(Tail(s)) /\ Elems(Tail(s)) \subseteq Elems(s)
         /\ \A i \in 1 .. Len(s) : /\ Elems(s) \subseteq {s[i]} \cup Elems(Without(s, i))
                                   /\ Elems(Without(s, i)) \subseteq Elems(s)
<1>1. Len(s) \in Nat
  OBVIOUS
<1>2. ASSUME s # <<>>
      PROVE  Elems(s) \subseteq {Head(s)} \cup Elems(Tail(s)) /\ Elems(Tail(s)) \subseteq Elems(s)
  <2> DEFINE t == Tail(s)
  <2>1. Len(t) = Len(s) - 1 /\ Len(s) > 0 /\ Head(s) = s[1] /\ \A j \in 1 .. Len(t) : t[j] = s[j + 1]
    BY <1>2
  <2> HIDE DEF t
  <2>2. \A j \in 1 .. Len(s) : j = 1 \/ (j - 1 \in 1 .. Len(t) /\ s[j] = t[j - 1])
    BY <1>1, <2>1
  <2>3. \A j \in 1 .. Len(t) : j + 1 \in 1 .. Len(s)
    BY <1>1, <2>1
  <2>4. Elems(s) \subseteq {Head(s)} \cup Elems(t) /\ Elems(t) \subseteq Elems(s)
    BY <2>1, <2>2, <2>3 DEF Elems
  <2> QED BY <2>4 DEF t
<1>3. ASSUME NEW i \in 1 .. Len(s)
      PROVE  Elems(s) \subseteq {s[i]} \cup Elems(Without(s, i)) /\ Elems(Without(s, i)) \subseteq Elems(s)
  <2> DEFINE t == Without(s, i)
  <2>1. Len(t) = Len(s) - 1 /\ \A j \in 1 .. Len(t) : t[j] = s[IF j < i THEN j ELSE j + 1]
    BY WithoutNth
  <2> HIDE DEF t
  <2>2. ASSUME NEW j \in 1 .. Len(s) PROVE s[j] \in {s[i]} \cup Elems(t)
    <3>1. CASE j = i
      BY <3>1
    <3>2. CASE j < i
      <4>1. j \in 1 .. Len(t) /\ t[j] = s[j]
        BY <1>1, <2>1, <3>2
      <4> QED BY <4>1 DEF Elems
    <3>3. CASE j > i
      <4> DEFINE k == j - 1
      <4>1. k \in 1 .. Len(t) /\ ~(k < i) /\ k + 1 = j
        BY <1>1, <2>1, <3>3
      <4>2. t[k] = s[j]
        BY <2>1, <4>1
      <4> HIDE DEF k
      <4> QED BY <4>1, <4>2 DEF Elems
    <3> QED BY <1>1, <3>1, <3>2, <3>3
  <2>3. \A j \in 1 .. Len(t) : (IF j < i THEN j ELSE j + 1) \in 1 .. Len(s)
    BY <1>1, <2>1
  <2>4. Elems(s) \subseteq {s[i]} \cup Elems(t) /\ Elems(t) \subseteq Elems(s)
    BY <2>1, <2>2, <2>3 DEF Elems
  <2> QED BY <2>4 DEF t
<1> QED BY <1>2, <1>3

\* w answers the head of its lane.
LEMMA WiredAnswered ==
  ASSUME LifecycleInv, LifecycleInv', Wired, UNCHANGED <<flow, online, detached, forsaken>>,
         NEW w \in Workers, lane[w] # <<>>, NEW c, c = Head(lane[w]),
         NEW t \in Seq(ResultRecords \cup StatusRecords),
         lane' = [lane EXCEPT ![w] = Tail(@)], uplink' = [uplink EXCEPT ![w] = @ \o t],
         \A x \in Workers \ {w} : inst'[x] = inst[x],
         Cold(w) => ~Alive(w)',
         \A m \in Elems(t) : m.kind = "result" => m.op = c.op /\ m.flow = c.flow,
         c.op = "start" /\ c.flow \in Flows => \E m \in Elems(t) : m.kind = "result",
         \A m \in Elems(t) : m \in StopAnswers \/ Refusals(m) => ~Alive(w)' /\ detached[w] # "start"
  PROVE  Wired'
<1>1. /\ \A x \in Workers : /\ lane[x] \in Seq(CommandRecords)
                            /\ uplink[x] \in Seq(ResultRecords \cup StatusRecords)
                            /\ x # w => lane'[x] = lane[x] /\ uplink'[x] = uplink[x]
      /\ lane'[w] = Tail(lane[w]) /\ uplink'[w] = uplink[w] \o t
  BY DEF LifecycleInv, TypeOK
<1>2. /\ Elems(lane[w]) \subseteq {c} \cup Elems(Tail(lane[w])) /\ Elems(Tail(lane[w])) \subseteq Elems(lane[w])
      /\ c \in CommandRecords /\ c \in Elems(lane[w])
  BY <1>1, LeftBehind, Shortened
<1>3. Elems(uplink'[w]) = Elems(uplink[w]) \cup Elems(t)
  <2>1. uplink[w] \in Seq(ResultRecords \cup StatusRecords)
    BY <1>1
  <2>2. Elems(uplink[w] \o t) = Elems(uplink[w]) \cup Elems(t)
    BY <2>1, Joined
  <2> QED BY <1>1, <2>2
<1>4. /\ \A x \in Workers : Queued(x) = Elems(lane[x]) /\ Queued(x)' = Elems(lane'[x])
      /\ \A x \in Workers : Messages(x) = Elems(uplink[x]) /\ Messages(x)' = Elems(uplink'[x])
  BY DEF Queued, Messages
<1>5. /\ \A x \in Workers : Queued(x)' \subseteq Queued(x)
      /\ Queued(w) \subseteq {c} \cup Queued(w)' /\ c \in Queued(w)
      /\ \A x \in Workers \ {w} : Queued(x)' = Queued(x) /\ Messages(x)' = Messages(x)
      /\ Messages(w)' = Messages(w) \cup Elems(t)
  <2>1. \A x \in Workers \ {w} : Queued(x)' = Queued(x) /\ Messages(x)' = Messages(x)
    BY <1>1, <1>4
  <2>2. Queued(w) = Elems(lane[w]) /\ Queued(w)' = Elems(Tail(lane[w]))
    BY <1>1, <1>4
  <2>3. Messages(w)' = Messages(w) \cup Elems(t)
    BY <1>3, <1>4
  <2> QED BY <1>2, <2>1, <2>2, <2>3
<1>6. Elems(t) \subseteq ResultRecords \cup StatusRecords
  BY InUplink
<1>7. ASSUME NEW x \in Workers, Cold(x) PROVE Cold(x)'
  BY <1>5, <1>7 DEF Cold, Alive
<1>8. c.op = "start" => ~Cold(w)
  BY <1>5 DEF Cold
<1>9. LaunchesPending'
  <2> SUFFICES ASSUME NEW g \in Flows, flow[g].pc = "launching" PROVE StartPending(g)'
    BY DEF Wired, LaunchesPending
  <2> DEFINE x == flow[g].worker
  <2>1. x \in Workers /\ StartPending(g)
    BY DEF Wired, LaunchesPending, LifecycleInv, TypeOK
  <2>2. CASE \E m \in Messages(x) : m.kind = "result" /\ m.op = "start" /\ m.flow = g
    BY <1>5, <2>1, <2>2 DEF StartPending
  <2>3. CASE \E d \in Queued(x) : d.op = "start" /\ d.flow = g
    <3>1. PICK d \in Queued(x) : d.op = "start" /\ d.flow = g
      BY <2>3
    <3>2. CASE x = w /\ d = c
      <4>1. PICK m \in Elems(t) : m.kind = "result"
        BY <3>1, <3>2
      <4>2. m.op = "start" /\ m.flow = g /\ m \in Messages(x)'
        BY <1>5, <3>1, <3>2, <4>1
      <4> QED BY <4>1, <4>2 DEF StartPending
    <3>3. CASE ~(x = w /\ d = c)
      <4>1. d \in Queued(x)'
        BY <1>5, <2>1, <3>1, <3>3
      <4> QED BY <3>1, <4>1 DEF StartPending
    <3> QED BY <3>2, <3>3
  <2> QED BY <2>1, <2>2, <2>3 DEF StartPending
<1>10. OnlyStarts'
  <2> SUFFICES ASSUME NEW x \in Workers \ forsaken, NEW a \in Queued(x)', NEW b \in Queued(x)',
                      a.op = "start", a.flow \in Flows, flow[a.flow].op = "start", b.op = "start"
               PROVE  b.flow = a.flow
    BY DEF OnlyStarts
  <2> QED BY <1>5 DEF Wired, OnlyStarts
<1>11. RefusedCold'
  <2> SUFFICES ASSUME NEW x \in Workers \ forsaken, NEW m \in Messages(x)', Refusals(m),
                      m.flow \in Flows, flow[m.flow].op = "start"
               PROVE  Cold(x)'
    BY DEF RefusedCold
  <2>1. CASE m \in Messages(x)
    BY <1>7, <2>1 DEF Wired, RefusedCold
  <2>2. CASE m \notin Messages(x)
    <3>1. x = w /\ m \in Elems(t) /\ ~Alive(w)' /\ detached[w] # "start"
      BY <1>5, <2>2
    <3>2. c.op = "start" /\ c.flow = m.flow
      BY <3>1 DEF Refusals
    <3>3. ~Within(lane'[w], Of(c.flow))
      <4>1. m \in ResultRecords /\ m \in Of(c.flow)
        BY <1>6, <3>1, <3>2, Kinds DEF Refusals, Of, StatusRecords
      <4>2. Within(uplink'[w], Of(c.flow))
        <5>1. m \in Elems(uplink'[w])
          BY <1>3, <3>1
        <5> QED BY <4>1, <5>1 DEF Within, Elems
      <4> QED BY <3>2, <4>2 DEF LifecycleInv, OneEach, Single
    <3>4. ASSUME NEW d \in Queued(w)', d.op = "start" PROVE FALSE
      <4>1. d \in Queued(w) /\ d.flow = c.flow
        BY <1>5, <3>1, <3>2, <3>4 DEF Wired, OnlyStarts
      <4>2. d \in CommandRecords
        BY <4>1, Understood
      <4>3. Within(lane'[w], Of(c.flow))
        BY <4>1, <4>2 DEF Within, Queued, Elems, Of
      <4> QED BY <3>3, <4>3
    <3> QED BY <3>1, <3>4 DEF Cold
  <2> QED BY <2>1, <2>2
<1>12. StopsInOrder'
  <2> SUFFICES ASSUME NEW x \in Workers
               PROVE  /\ InOrder(lane'[x], AwaitedStops, QueuedStarts)
                      /\ InOrder(uplink'[x], StopAnswers, StartAnswers)
    BY DEF StopsInOrder
  <2>1. /\ InOrder(lane[x], AwaitedStops, QueuedStarts)
        /\ InOrder(uplink[x], StopAnswers, StartAnswers)
    BY DEF Wired, StopsInOrder
  <2>2. CASE x # w
    BY <1>1, <2>1, <2>2
  <2>3. CASE x = w
    <3>1. InOrder(lane'[w], AwaitedStops, QueuedStarts)
      BY <1>1, <2>1, <2>3, OrderTail
    <3>2. Within(t, StartAnswers) => c.op = "start"
      BY Kinds DEF Within, StartAnswers, Elems
    <3>3. Within(t, StopAnswers) => c.op = "stop"
      BY Kinds DEF Within, StopAnswers, Elems
    <3>4. InOrder(t, StopAnswers, StartAnswers)
      BY <3>2, <3>3, NothingInOrder
    <3>5. Within(uplink[w], StopAnswers) => ~Within(t, StartAnswers)
      BY <1>8, <3>2 DEF Wired, StopsAnswered
    <3>6. InOrder(uplink[w] \o t, StopAnswers, StartAnswers)
      BY <1>1, <2>1, <2>3, <3>4, <3>5, OrderJoined
    <3> QED BY <1>1, <2>3, <3>1, <3>6
  <2> QED BY <2>2, <2>3
<1>13. StopsAnswered'
  <2> SUFFICES ASSUME NEW x \in Workers, Within(uplink'[x], StopAnswers)
               PROVE  Cold(x)'
    BY DEF StopsAnswered
  <2>1. PICK m \in Messages(x)' : m \in StopAnswers
    BY DEF Within, Messages, Elems
  <2>2. CASE m \in Messages(x)
    <3>1. Within(uplink[x], StopAnswers)
      BY <2>1, <2>2 DEF Within, Messages, Elems
    <3> QED BY <1>7, <3>1 DEF Wired, StopsAnswered
  <2>3. CASE m \notin Messages(x)
    <3>1. x = w /\ m \in Elems(t) /\ ~Alive(w)' /\ detached[w] # "start"
      BY <1>5, <2>1, <2>3
    <3>2. c.op = "stop" /\ c.flow \in Flows
      BY <2>1, <3>1, Kinds DEF StopAnswers
    <3>3. c \in AwaitedStops
      BY <1>2, <3>2 DEF AwaitedStops
    <3>4. ~Within(lane'[w], QueuedStarts)
      BY <1>1, <3>3, OrderTail DEF Wired, StopsInOrder
    <3>5. \A d \in Queued(w)' : d.op # "start"
      <4> SUFFICES ASSUME NEW d \in Queued(w)', d.op = "start" PROVE FALSE
        OBVIOUS
      <4>1. d \in QueuedStarts
        BY <1>5, Understood DEF QueuedStarts
      <4> QED BY <3>4, <4>1 DEF Within, Queued, Elems
    <3> QED BY <3>1, <3>5 DEF Cold
  <2> QED BY <2>2, <2>3
<1> QED BY <1>9, <1>10, <1>11, <1>12, <1>13 DEF Wired

\* The row reads gone no more than it did, unless nothing runs that is not given up.
LEMMA HonestStill ==
  ASSUME Honest, forsaken \subseteq forsaken',
         \A x \in Workers : Alive(x)' => Alive(x),
         \A x \in Workers : /\ SaysGone(uplink'[x]) => SaysGone(uplink[x])
                            /\ Mute(uplink'[x]) => Mute(uplink[x]),
         IsGone(observed') => IsGone(observed) \/ \A x \in Workers \ forsaken : ~Alive(x)
  PROVE  Honest'
  BY DEF Honest

\* w emits t.
LEMMA HonestTold ==
  ASSUME Honest, UNCHANGED <<observed, forsaken>>, NEW w \in Workers,
         \A x \in Workers \ {w} : Alive(x)' => Alive(x),
         uplink[w] \in Seq(ResultRecords \cup StatusRecords),
         NEW t \in Seq(ResultRecords \cup StatusRecords),
         uplink' = [uplink EXCEPT ![w] = @ \o t], w \in DOMAIN uplink,
         Alive(w)' => IF Mute(t) THEN Alive(w) ELSE ~SaysGone(t)
  PROVE  Honest'
<1>1. /\ \A x \in Workers \ {w} : uplink'[x] = uplink[x]
      /\ uplink'[w] = uplink[w] \o t
  OBVIOUS
<1>2. /\ Mute(t) => (SaysGone(uplink'[w]) => SaysGone(uplink[w])) /\ (Mute(uplink'[w]) => Mute(uplink[w]))
      /\ ~Mute(t) => ~Mute(uplink'[w]) /\ (SaysGone(uplink'[w]) => SaysGone(t))
  BY <1>1, LastJoined
<1> SUFFICES ASSUME NEW x \in Workers \ forsaken, Alive(x)'
             PROVE  ~SaysGone(uplink'[x]) /\ (Mute(uplink'[x]) => ~IsGone(observed))
  BY DEF Honest
<1>3. CASE x # w
  BY <1>1, <1>3 DEF Honest
<1>4. CASE x = w
  BY <1>2, <1>4 DEF Honest
<1> QED BY <1>3, <1>4

\* What runs and is not given up runs on the row's worker.
LEMMA OwnersAlive ==
  ASSUME Poise, NEW x \in Workers, Alive(x), x \notin forsaken
  PROVE  assigned = x /\ ~Calm(x)
  BY DEF Poise, OwnersHot, Calm, Cold

-----------------------------------------------------------------------------
(* Steps that send and receive nothing.                                      *)

\* A step that changes f alone, or outdates the others' stamps besides.
LEMMA Moved ==
  ASSUME TypeOK, NEW f \in Flows, NEW r \in FlowRecords,
         flow' \in {[flow EXCEPT ![f] = r], Outdated([flow EXCEPT ![f] = r])}
  PROVE  Alike(flow'[f], r) /\ \A g \in Flows \ {f} : Alike(flow'[g], flow[g])
<1> DEFINE fl == [flow EXCEPT ![f] = r]
<1>1. flow \in [Flows -> FlowRecords] /\ fl \in [Flows -> FlowRecords]
  BY DEF TypeOK
<1>2. \A q \in FlowRecords : Alike([q EXCEPT !.fresh = FALSE], q) /\ Alike(q, q)
  BY DEF FlowRecords, BusyRecords, Idle, Alike
<1>3. fl[f] = r /\ \A g \in Flows \ {f} : fl[g] = flow[g]
  BY <1>1
<1> HIDE DEF fl
<1>4. \A g \in Flows : fl[g] \in FlowRecords /\ Outdated(fl)[g] = [fl[g] EXCEPT !.fresh = FALSE]
  BY <1>1 DEF Outdated
<1>5. flow' = fl \/ flow' = Outdated(fl)
  BY DEF fl
<1>6. \A g \in Flows : Alike(flow'[g], fl[g])
  BY <1>2, <1>4, <1>5
<1> QED BY <1>3, <1>6

LEMMA AllAlike ==
  ASSUME TypeOK, flow' \in {flow, Outdated(flow)}
  PROVE  \A g \in Flows : Alike(flow'[g], flow[g])
<1>1. flow \in [Flows -> FlowRecords]
  BY DEF TypeOK
<1>2. \A q \in FlowRecords : Alike([q EXCEPT !.fresh = FALSE], q) /\ Alike(q, q)
  BY DEF FlowRecords, BusyRecords, Idle, Alike
<1>3. \A g \in Flows : flow[g] \in FlowRecords /\ Outdated(flow)[g] = [flow[g] EXCEPT !.fresh = FALSE]
  BY <1>1 DEF Outdated
<1> QED BY <1>2, <1>3

\* How a flow's record begins.
LEMMA Beginnings ==
  \A op, pc, w : LET r == Begin(op, pc, w)
                 IN /\ r.op = op /\ r.pc = pc /\ r.worker = w /\ r.release = FALSE
                    /\ [r EXCEPT !.release = TRUE].release = TRUE
                    /\ [r EXCEPT !.release = TRUE].op = op
                    /\ [r EXCEPT !.release = TRUE].pc = pc
                    /\ [r EXCEPT !.release = TRUE].worker = w
                    /\ [r EXCEPT !.fresh = TRUE].release = FALSE
                    /\ [r EXCEPT !.fresh = TRUE].op = op
                    /\ [r EXCEPT !.fresh = TRUE].pc = pc
                    /\ [r EXCEPT !.fresh = TRUE].worker = w
  BY DEF Begin, Idle

\* What the wires and the workers keep, when a step leaves them alone.
LEMMA StillOwned ==
  ASSUME OwnedInv, LifecycleInv', Poise', UNCHANGED <<lane, uplink, detached, inst, online>>,
         forsaken \subseteq forsaken',
         \A g \in Flows : \/ Alike(flow'[g], flow[g])
                          \/ flow[g].pc \notin AwaitPcs /\ flow'[g].pc # "launching",
         IsGone(observed') => IsGone(observed) \/ \A x \in Workers \ forsaken : ~Alive(x)
  PROVE  OwnedInv'
<1>1. LifecycleInv /\ Wired /\ Honest /\ DetachedStops /\ TypeOK'
  BY DEF OwnedInv, LifecycleInv
<1>2. \A x \in Workers : /\ Cold(x) => Cold(x)'
                         /\ Queued(x)' = Queued(x) /\ Messages(x)' = Messages(x)
                         /\ Alive(x)' <=> Alive(x)
  BY DEF Cold, Alive, Queued, Messages
<1>3. StopsInOrder'
  BY <1>1 DEF Wired, StopsInOrder
<1>4. ASSUME NEW g \in Flows, flow[g].pc \notin AwaitPcs
      PROVE  Unheard(g)
  <2>1. ASSUME NEW x \in Workers
        PROVE  /\ \A c \in Queued(x) : c.flow # g
               /\ \A m \in Messages(x) : m.kind = "result" => m.flow # g
    BY <1>1, <1>4, Understood DEF Expected, Awaits, AwaitPcs
  <2> QED BY <1>2, <2>1 DEF Unheard
<1>5. \A g \in Flows : flow[g].pc = "launching" =>
         flow[g].worker \in online /\ StartPending(g)
  BY <1>1 DEF Wired, LaunchesPending
<1>6. ASSUME NEW g \in Flows, Alike(flow'[g], flow[g]), flow[g].pc = "launching"
      PROVE  flow[g].worker \in online' /\ StartPending(g)'
  <2>1. flow[g].worker \in online /\ StartPending(g) /\ flow'[g].worker = flow[g].worker
    BY <1>5, <1>6 DEF Alike
  <2>2. flow[g].worker \in Workers
    BY <1>1, <2>1 DEF LifecycleInv, TypeOK
  <2> QED BY <1>2, <2>1, <2>2 DEF StartPending
<1>7. Wired'
  BY <1>1, <1>2, <1>3, <1>4, <1>6, WiredStill
<1>8. Honest' /\ DetachedStops'
  BY <1>1, <1>2, HonestStill DEF DetachedStops
<1> QED BY <1>7, <1>8 DEF OwnedInv

LEMMA EasedStill ==
  ASSUME LifecycleInv, Poise, UNCHANGED <<assigned, forsaken, lane, uplink, detached, inst>>,
         desired' \in {desired, "stopped"}, \A g \in Flows : Eased(g)
  PROVE  Poise'
<1>1. \A x \in Workers : (Cold(x) => Cold(x)') /\ (SnapshotAt(x)' => SnapshotAt(x))
  BY DEF Cold, Alive, SnapshotAt, Queued, Messages
<1> QED BY <1>1, Poised

\* No start is under way once every one has ended.
LEMMA NoneStarting ==
  ASSUME Poise, StartsSettled
  PROVE  \A g \in Flows : ~Starting(g) /\ ~Starter(g) /\ flow[g].pc # "revert"
  BY DEF Poise, StartOps, StartsSettled, Starting

LEMMA StartOwned ==
  ASSUME OwnedInv, Races \subseteq {"overtaken_status"},
         NEW f \in Flows, NEW w \in Workers, Start(f, w)
  PROVE  OwnedInv'
<1>1. LifecycleInv /\ Poise /\ LifecycleInv' /\ TypeOK
  BY StartKept DEF OwnedInv, LifecycleInv
<1>2. /\ flow' = [flow EXCEPT ![f] = Begin("start", "launch", w)] /\ flow[f].pc = "idle"
      /\ Begin("start", "launch", w) \in FlowRecords
  BY <1>1, FlowsTyped, Begun DEF Start, Ops, Pcs, FlowRecords
<1>3. /\ flow'[f].pc = "launch" /\ flow'[f].op = "start" /\ flow'[f].worker = w
      /\ \A g \in Flows \ {f} : flow'[g] = flow[g] /\ flow[g].pc # "revert"
  BY <1>1, <1>2, Beginnings DEF TypeOK, Start
<1>4. Poise'
  BY <1>1, <1>2, <1>3, StartPoised DEF Start, links, wire
<1>5. \A g \in Flows : Alike(flow'[g], flow[g]) \/ (flow[g].pc \notin AwaitPcs /\ flow'[g].pc # "launching")
  BY <1>2, <1>3 DEF Alike, AwaitPcs
<1> QED BY <1>1, <1>4, <1>5, StillOwned DEF Start, links, wire

LEMMA PlaceAndStartOwned ==
  ASSUME OwnedInv, Races \subseteq {"overtaken_status"},
         NEW f \in Flows, NEW w \in Workers, PlaceAndStart(f, w)
  PROVE  OwnedInv'
<1>1. LifecycleInv /\ Poise /\ LifecycleInv' /\ TypeOK
  BY PlaceAndStartKept DEF OwnedInv, LifecycleInv
<1>2. /\ flow' = [flow EXCEPT ![f] = Begin("place", "launch", w)] /\ flow[f].pc = "idle"
      /\ Begin("place", "launch", w) \in FlowRecords
  BY <1>1, FlowsTyped, Begun DEF PlaceAndStart, Ops, Pcs, FlowRecords
<1>3. /\ flow'[f].pc = "launch" /\ flow'[f].op = "place" /\ flow'[f].worker = w
      /\ \A g \in Flows \ {f} : flow'[g] = flow[g] /\ flow[g].pc # "revert"
  BY <1>1, <1>2, Beginnings, NoneStarting DEF TypeOK, PlaceAndStart
<1>4. Poise'
  BY <1>1, <1>2, <1>3, StartPoised DEF PlaceAndStart, links, wire
<1>5. \A g \in Flows : Alike(flow'[g], flow[g]) \/ (flow[g].pc \notin AwaitPcs /\ flow'[g].pc # "launching")
  BY <1>2, <1>3 DEF Alike, AwaitPcs
<1> QED BY <1>1, <1>4, <1>5, StillOwned DEF PlaceAndStart, links, wire

LEMMA RedispatchStartOwned ==
  ASSUME OwnedInv, Races \subseteq {"overtaken_status"}, NEW f \in Flows, RedispatchStart(f)
  PROVE  OwnedInv'
<1> DEFINE w == assigned
<1>1. LifecycleInv /\ Poise /\ LifecycleInv' /\ TypeOK /\ w \in Workers
  BY RedispatchStartKept DEF OwnedInv, LifecycleInv, TypeOK, RedispatchStart
<1>2. /\ flow' = [flow EXCEPT ![f] = Begin("redispatch", "launch", w)] /\ flow[f].pc = "idle"
      /\ Begin("redispatch", "launch", w) \in FlowRecords
  BY <1>1, FlowsTyped, Begun DEF RedispatchStart, Ops, Pcs, FlowRecords
<1>3. /\ flow'[f].pc = "launch" /\ flow'[f].op = "redispatch" /\ flow'[f].worker = w
      /\ \A g \in Flows \ {f} : flow'[g] = flow[g] /\ flow[g].pc # "revert"
      /\ \A g \in Flows : ~Starter(g)
  BY <1>1, <1>2, Beginnings, NoneStarting DEF TypeOK, RedispatchStart
<1>4. Poise'
  BY <1>1, <1>2, <1>3, StartPoised DEF RedispatchStart, row, links, wire
<1>5. \A g \in Flows : Alike(flow'[g], flow[g]) \/ (flow[g].pc \notin AwaitPcs /\ flow'[g].pc # "launching")
  BY <1>2, <1>3 DEF Alike, AwaitPcs
<1> QED BY <1>1, <1>4, <1>5, StillOwned DEF RedispatchStart, row, links, wire

\* A claim waits for the starts that may still send a command.
LEMMA StopBegins ==
  ASSUME OwnedInv, Races \subseteq {"overtaken_status"}, Claim, NEW f \in Flows,
         flow[f] = Idle, assigned \in Workers,
         flow' = [flow EXCEPT ![f] = Begin("stop", "stop", assigned)]
  PROVE  /\ \A g \in Flows : Eased(g)
         /\ \A g \in Flows : Alike(flow'[g], flow[g]) \/ (flow[g].pc \notin AwaitPcs /\ flow'[g].pc # "launching")
<1>1. LifecycleInv /\ TypeOK
  BY DEF OwnedInv, LifecycleInv
<1>2. Begin("stop", "stop", assigned) \in FlowRecords /\ flow[f].pc = "idle"
  BY <1>1, FlowsTyped, Begun DEF Ops, Pcs, StopPcs, FlowRecords
<1>3. Alike(flow'[f], Begin("stop", "stop", assigned)) /\ \A g \in Flows \ {f} : Alike(flow'[g], flow[g])
  BY <1>1, <1>2, Moved
<1>4. flow'[f].pc = "stop"
  BY <1>3, Beginnings DEF Alike
<1>5. \A g \in Flows : Starter(g) => flow[g].pc = "launching" /\ ~flow[g].skip /\ g # f
  BY <1>2 DEF Claim, Launching, Starter
<1>6. \A g \in Flows : Eased(g)
  BY <1>3, <1>4, <1>5 DEF Eased
<1> QED BY <1>2, <1>3, <1>4, <1>6 DEF AwaitPcs

LEMMA StopOwned ==
  ASSUME OwnedInv, Races \subseteq {"overtaken_status"}, NEW f \in Flows, Stop(f)
  PROVE  OwnedInv'
<1>1. LifecycleInv /\ Poise /\ LifecycleInv' /\ assigned \in Workers
  BY StopKept DEF OwnedInv, LifecycleInv, TypeOK, Stop, Stoppable
<1>2. /\ \A g \in Flows : Eased(g)
      /\ \A g \in Flows : Alike(flow'[g], flow[g]) \/ (flow[g].pc \notin AwaitPcs /\ flow'[g].pc # "launching")
  BY <1>1, StopBegins DEF Stop
<1>3. Poise'
  BY <1>1, <1>2, EasedStill DEF Stop, links, wire
<1> QED BY <1>1, <1>2, <1>3, StillOwned DEF Stop, links, wire

LEMMA RedispatchStopOwned ==
  ASSUME OwnedInv, Races \subseteq {"overtaken_status"}, NEW f \in Flows, RedispatchStop(f)
  PROVE  OwnedInv'
<1>1. LifecycleInv /\ Poise /\ LifecycleInv' /\ assigned \in Workers
  BY RedispatchStopKept DEF OwnedInv, LifecycleInv, TypeOK, RedispatchStop
<1>2. /\ \A g \in Flows : Eased(g)
      /\ \A g \in Flows : Alike(flow'[g], flow[g]) \/ (flow[g].pc \notin AwaitPcs /\ flow'[g].pc # "launching")
  BY <1>1, StopBegins DEF RedispatchStop
<1>3. Poise'
  BY <1>1, <1>2, EasedStill DEF RedispatchStop, row, links, wire
<1> QED BY <1>1, <1>2, <1>3, StillOwned DEF RedispatchStop, row, links, wire

LEMMA DrainOwned ==
  ASSUME OwnedInv, Drain
  PROVE  OwnedInv'
<1>1. LifecycleInv /\ Poise /\ LifecycleInv' /\ TypeOK
  BY DrainKept DEF OwnedInv, LifecycleInv
<1>2. \A g \in Flows : Alike(flow'[g], flow[g]) /\ Eased(g)
  BY <1>1, AllAlike DEF Drain, Eased
<1>3. Poise'
  BY <1>1, <1>2, EasedStill DEF Drain, links, wire
<1> QED BY <1>1, <1>2, <1>3, StillOwned DEF Drain, links, wire

\* The grace of a release: what ran on the row's worker is on the row.
LEMMA ReportedCalm ==
  ASSUME OwnedInv, NEW w \in Workers, w \in online, Reported(w), IsGone(observed)
  PROVE  Calm(w)
<1>1. detached[w] = "none" /\ (\A c \in Queued(w) : c.op # "start") /\ Mute(uplink[w])
  BY DEF Reported, Mute, Messages, Elems
<1>2. w \in forsaken \/ ~Alive(w)
  BY <1>1 DEF OwnedInv, Honest
<1> QED BY <1>1, <1>2 DEF Calm, Cold

LEMMA ClearStaleOwned ==
  ASSUME OwnedInv, Races \subseteq {"overtaken_status"}, NEW f \in Flows, ClearStale(f)
  PROVE  OwnedInv'
<1> DEFINE w == assigned
           r == CASE observed \in {"stopped", "crashed"} /\ w \in online
                        -> [Begin("clear", "snapshot", w) EXCEPT !.release = TRUE]
                  [] observed = "stopping"
                        -> [Begin("clear", "releaseUnknown", w) EXCEPT !.fresh = TRUE]
                  [] OTHER -> Begin("clear", "release", w)
<1>1. LifecycleInv /\ Poise /\ LifecycleInv' /\ TypeOK /\ w \in Workers /\ flow[f].pc = "idle"
  BY ClearStaleKept, FlowsTyped DEF OwnedInv, LifecycleInv, TypeOK, ClearStale
<1>2. Reported(w)
  BY DEF ClearStale
<1>3. \A g \in Flows : ~Starter(g)
  BY <1>1, <1>2, NoneStarting DEF Reported
<1>4. /\ r.worker = w /\ r.pc \in {"snapshot", "releaseUnknown", "release"}
      /\ r.pc = "snapshot" => observed \in {"stopped", "crashed"} /\ w \in online
      /\ r.pc \in {"releaseUnknown", "release"} => ~r.release
  <2>1. CASE observed \in {"stopped", "crashed"} /\ w \in online
    BY <2>1, Beginnings
  <2>2. CASE ~(observed \in {"stopped", "crashed"} /\ w \in online) /\ observed = "stopping"
    <3>1. r = [Begin("clear", "releaseUnknown", w) EXCEPT !.fresh = TRUE]
      BY <2>2
    <3> QED BY <3>1, Beginnings
  <2>3. CASE ~(observed \in {"stopped", "crashed"} /\ w \in online) /\ observed # "stopping"
    BY <2>3, Beginnings
  <2> QED BY <2>1, <2>2, <2>3
<1>5. flow' = [flow EXCEPT ![f] = r]
  BY DEF ClearStale
<1> HIDE DEF r
<1>6. r.pc = "snapshot" => Calm(w)
  BY <1>1, <1>2, <1>4, ReportedCalm DEF IsGone
<1>7. flow'[f] = r /\ \A g \in Flows \ {f} : flow'[g] = flow[g]
  BY <1>1, <1>5 DEF TypeOK
<1>8. \A g \in Flows : Eased(g)
  <2>1. \A g \in Flows \ {f} : Eased(g)
    BY <1>7 DEF Eased, Alike
  <2>2. Eased(f)
    BY <1>3, <1>4, <1>6, <1>7 DEF Eased, StopPcs
  <2> QED BY <2>1, <2>2
<1>9. Poise'
  BY <1>1, <1>8, EasedStill DEF ClearStale, row, wire
<1>10. \A g \in Flows : Alike(flow'[g], flow[g]) \/ (flow[g].pc \notin AwaitPcs /\ flow'[g].pc # "launching")
  BY <1>1, <1>4, <1>7 DEF Alike, AwaitPcs
<1> QED BY <1>1, <1>9, <1>10, StillOwned DEF ClearStale, row, links, wire

\* The record of a flow on its way to the final snapshot.
ToSnapshot(f, b) == [Goto(f, "snapshot") EXCEPT ![f].release = b]

LEMMA NextSnapshots ==
  ASSUME TypeOK, NEW f \in Flows, flow[f].pc # "idle", NEW b \in BOOLEAN
  PROVE  LET fl == ToSnapshot(f, b)
         IN /\ fl \in [Flows -> FlowRecords] /\ fl[f].pc = "snapshot"
            /\ fl[f].worker = flow[f].worker
            /\ \A g \in Flows \ {f} : fl[g] = flow[g]
<1> DEFINE fl == ToSnapshot(f, b)
           v == "snapshot" \in StampedPcs
           r == [[[flow[f] EXCEPT !.pc = "snapshot"] EXCEPT !.fresh = v] EXCEPT !.release = b]
<1>1. flow \in [Flows -> FlowRecords] /\ flow[f] \in BusyRecords
  BY FlowsTyped DEF TypeOK
<1>2. r.pc = "snapshot"
  BY <1>1 DEF BusyRecords
<1>3. ASSUME NEW u
      PROVE  [flow EXCEPT ![f].pc = "snapshot", ![f].fresh = u]
              = [flow EXCEPT ![f] = [[@ EXCEPT !.pc = "snapshot"] EXCEPT !.fresh = u]]
  BY <1>1
<1>4. Goto(f, "snapshot") = [flow EXCEPT ![f] = [[@ EXCEPT !.pc = "snapshot"] EXCEPT !.fresh = v]]
  BY <1>3, Zenon DEF Goto
<1> HIDE DEF v
<1>5. fl = [flow EXCEPT ![f] = r]
  BY <1>1, <1>4 DEF ToSnapshot
<1> HIDE DEF r
<1>6. fl[f].pc = "snapshot"
  BY <1>1, <1>2, <1>5
<1>7. /\ fl \in [Flows -> FlowRecords] /\ fl[f].worker = flow[f].worker
      /\ \A g \in Flows \ {f} : fl[g] = flow[g]
  BY Gone DEF ToSnapshot
<1> QED BY <1>6, <1>7

\* A write that may have outdated the others' stamps.
LEMMA AlikeWritten ==
  ASSUME NEW fl \in [Flows -> FlowRecords], flow' = fl \/ flow' = Outdated(fl)
  PROVE  \A g \in Flows : Alike(flow'[g], fl[g])
<1>1. \A q \in FlowRecords : Alike([q EXCEPT !.fresh = FALSE], q) /\ Alike(q, q)
  BY DEF FlowRecords, BusyRecords, Idle, Alike
<1>2. \A g \in Flows : fl[g] \in FlowRecords /\ Outdated(fl)[g] = [fl[g] EXCEPT !.fresh = FALSE]
  BY DEF Outdated
<1> QED BY <1>1, <1>2

\* A confirmed stop writes that nothing runs, and snapshots.
LEMMA RecordOwned ==
  ASSUME OwnedInv, LifecycleInv', NEW f \in Flows, flow[f].pc \in {"confirmed", "gone"}, NEW b \in BOOLEAN,
         flow' = ToSnapshot(f, b) \/ flow' = Outdated(ToSnapshot(f, b)),
         observed' = observed \/ Lands(f),
         UNCHANGED <<desired, assigned, links, wire, detached, inst, forsaken>>
  PROVE  OwnedInv'
<1>1. LifecycleInv /\ Poise /\ TypeOK /\ flow[f].worker \in Workers /\ Converging(f) /\ flow[f].pc # "idle"
  BY FlowsTyped DEF OwnedInv, LifecycleInv, BusyRecords, Converging, StopPcs
<1> DEFINE fl == ToSnapshot(f, b)
<1>2. /\ fl \in [Flows -> FlowRecords] /\ fl[f].pc = "snapshot" /\ fl[f].worker = flow[f].worker
      /\ \A g \in Flows \ {f} : fl[g] = flow[g]
  BY <1>1, NextSnapshots
<1>3. /\ flow'[f].pc = "snapshot" /\ flow'[f].worker = flow[f].worker
      /\ \A g \in Flows \ {f} : Alike(flow'[g], flow[g])
  <2>1. \A g \in Flows : Alike(flow'[g], fl[g])
    BY <1>2, AlikeWritten
  <2> QED BY <1>2, <2>1 DEF Alike
<1>4. Calm(flow[f].worker) /\ \A g \in Flows : ~Starter(g)
  BY <1>1 DEF Poise, CalmAnswers, ConvergeAlone
<1>5. \A g \in Flows : Eased(g)
  BY <1>3, <1>4 DEF Eased, StopPcs
<1>6. Poise'
  BY <1>1, <1>5, EasedStill DEF wire
<1>7. observed' = observed \/ \A x \in Workers \ forsaken : ~Alive(x)
  BY <1>1, <1>4, OwnersAlive DEF Lands
<1>8. \A g \in Flows : Alike(flow'[g], flow[g]) \/ (flow[g].pc \notin AwaitPcs /\ flow'[g].pc # "launching")
  BY <1>3 DEF AwaitPcs
<1> QED BY <1>1, <1>6, <1>7, <1>8, StillOwned DEF links, wire

LEMMA RecordStoppedOwned ==
  ASSUME OwnedInv, NEW f \in Flows, RecordStopped(f)
  PROVE  OwnedInv'
<1>1. LifecycleInv'
  BY RecordStoppedKept DEF OwnedInv
<1>2. flow' = ToSnapshot(f, TRUE) \/ flow' = Outdated(ToSnapshot(f, TRUE))
  BY DEF RecordStopped, ToSnapshot
<1> QED BY <1>1, <1>2, RecordOwned DEF RecordStopped

LEMMA RecordGoneOwned ==
  ASSUME OwnedInv, NEW f \in Flows, RecordGone(f)
  PROVE  OwnedInv'
<1> DEFINE b == (observed = "crashed" /\ assigned = flow[f].worker) \/ Lands(f)
<1>1. LifecycleInv' /\ TypeOK
  BY RecordGoneKept DEF OwnedInv, LifecycleInv
<1>2. b \in BOOLEAN
  BY <1>1 DEF Lands, TypeOK, FlowRecords, BusyRecords, Idle
<1>3. flow' = ToSnapshot(f, b) \/ flow' = Outdated(ToSnapshot(f, b))
  BY DEF RecordGone, ToSnapshot
<1> HIDE DEF b
<1> QED BY <1>1, <1>2, <1>3, RecordOwned DEF RecordGone

LEMMA ConvergeOwned ==
  ASSUME OwnedInv, NEW f \in Flows, Converge(f)
  PROVE  OwnedInv'
<1>1. LifecycleInv /\ Poise /\ LifecycleInv' /\ TypeOK /\ flow[f].pc = "converge"
  BY ConvergeKept DEF OwnedInv, LifecycleInv, Converge
<1>2. /\ Finish(f) \in [Flows -> FlowRecords] /\ Finish(f)[f].pc = "idle"
      /\ \A g \in Flows \ {f} : Finish(f)[g] = flow[g]
  BY <1>1, Gone
<1>3. flow'[f].pc = "idle" /\ \A g \in Flows \ {f} : Alike(flow'[g], flow[g])
  BY <1>2, AlikeWritten DEF Alike, Converge
<1>4. \A g \in Flows : Eased(g)
  BY <1>3 DEF Eased
<1>5. Poise'
  BY <1>1, <1>4, EasedStill DEF Converge, wire
<1>6. \A g \in Flows : Alike(flow'[g], flow[g]) \/ (flow[g].pc \notin AwaitPcs /\ flow'[g].pc # "launching")
  BY <1>1, <1>3 DEF AwaitPcs
<1>7. IsGone(observed') => IsGone(observed)
  BY DEF Converge, IsGone
<1> QED BY <1>1, <1>5, <1>6, <1>7, StillOwned DEF Converge, links, wire

LEMMA MarkUnknownOwned ==
  ASSUME OwnedInv, NEW w \in Workers, MarkUnknown(w)
  PROVE  OwnedInv'
<1>1. LifecycleInv /\ Poise /\ LifecycleInv' /\ TypeOK
  BY MarkUnknownKept DEF OwnedInv, LifecycleInv
<1>2. \A g \in Flows : Alike(flow'[g], flow[g]) /\ Eased(g)
  BY <1>1, AllAlike DEF MarkUnknown, Eased
<1>3. Poise'
  BY <1>1, <1>2, EasedStill DEF MarkUnknown, wire
<1>4. IsGone(observed') => IsGone(observed)
  BY DEF MarkUnknown, IsGone
<1> QED BY <1>1, <1>2, <1>3, <1>4, StillOwned DEF MarkUnknown, wire

LEMMA ResetUnverifiableOwned ==
  ASSUME OwnedInv, ResetUnverifiable
  PROVE  OwnedInv'
<1>1. LifecycleInv /\ Poise /\ LifecycleInv' /\ TypeOK
  BY ResetUnverifiableKept DEF OwnedInv, LifecycleInv
<1>2. \A g \in Flows : Alike(flow'[g], flow[g]) /\ Eased(g)
  BY <1>1, AllAlike DEF ResetUnverifiable, Eased
<1>3. Poise'
  BY <1>1, <1>2, EasedStill DEF ResetUnverifiable, wire
<1>4. IsGone(observed') => IsGone(observed)
  BY DEF ResetUnverifiable, IsGone
<1> QED BY <1>1, <1>2, <1>3, <1>4, StillOwned DEF ResetUnverifiable, wire

LEMMA BeginUploadOwned ==
  ASSUME OwnedInv, NEW w \in Workers, BeginUpload(w)
  PROVE  OwnedInv'
<1>1. LifecycleInv /\ Poise /\ LifecycleInv' /\ TypeOK
  BY BeginUploadKept DEF OwnedInv, LifecycleInv
<1>2. \A g \in Flows : Alike(flow'[g], flow[g]) /\ Eased(g)
  BY <1>1, AllAlike DEF BeginUpload, Eased
<1>3. Poise'
  BY <1>1, <1>2, EasedStill DEF BeginUpload, row
<1> QED BY <1>1, <1>2, <1>3, StillOwned DEF BeginUpload, row, links

LEMMA RevertOwned ==
  ASSUME OwnedInv, NEW f \in Flows, Revert(f)
  PROVE  OwnedInv'
<1>1. LifecycleInv /\ Poise /\ LifecycleInv' /\ TypeOK /\ flow[f].pc = "revert" /\ flow[f].worker \in Workers
  BY RevertKept, FlowsTyped DEF OwnedInv, LifecycleInv, Revert, BusyRecords
<1>2. flow'[f].pc = "idle" /\ \A g \in Flows \ {f} : flow'[g] = flow[g]
  BY <1>1, Gone DEF Revert
<1>3. \A g \in Flows : Alike(flow'[g], flow[g]) \/ (flow[g].pc \notin AwaitPcs /\ flow'[g].pc # "launching")
  BY <1>1, <1>2 DEF Alike, AwaitPcs
<1>4. CASE Revertible(f)
  <2>1. desired = "running" /\ assigned' = NoWorker /\ desired' \in {desired, "stopped"}
    BY <1>4 DEF Revertible, Revert
  <2>2. \A x \in Workers : ~SnapshotAt(x)
    BY <2>1 DEF Poise, CalmSnapshots, OwnedInv, LifecycleInv
  <2>3. \A g \in Flows \ {f} : ~Starting(g)
    BY <1>1 DEF Poise, OneStart, Starting
  <2>4. \A x \in Workers : /\ ~SnapshotAt(x)' /\ (Cold(x) => Cold(x)')
                           /\ Calm(x)' <=> Calm(x)
    BY <2>2 DEF Revert, wire, SnapshotAt, Calm, Cold, Alive, Queued, Messages
  <2>5. assigned = flow[f].worker /\ Calm(flow[f].worker)
    BY <1>1, <2>1 DEF Poise, CalmStarts
  <2>6. \A g \in Flows : /\ Alike(flow'[g], flow[g]) \/ flow'[g].pc = "idle"
                         /\ ~Starter(g)'
                         /\ flow'[g].pc # "revert"
    BY <1>2, <2>3 DEF Starter, Starting, Alike
  <2>7. forsaken \subseteq forsaken'
    BY DEF Revert
  <2>8. Poise'
    BY <1>1, <2>1, <2>4, <2>5, <2>6, <2>7, ReleasePoised
  <2> QED BY <1>1, <1>3, <2>8, StillOwned DEF Revert, links, wire
<1>5. CASE ~Revertible(f)
  <2>1. \A g \in Flows : Eased(g)
    BY <1>2 DEF Eased, Alike
  <2>2. Poise'
    BY <1>1, <1>5, <2>1, EasedStill DEF Revert, wire
  <2> QED BY <1>1, <1>3, <2>2, StillOwned DEF Revert, links, wire
<1> QED BY <1>4, <1>5

\* The end of a converged stop.
LEMMA ReleasedOwned ==
  ASSUME OwnedInv, LifecycleInv', NEW f \in Flows, flow[f].pc \in {"release", "releaseUnknown"},
         flow' = Finish(f) \/ flow' = Outdated(Finish(f)),
         UNCHANGED <<desired, links, wire, detached, inst>>,
         observed' = observed \/ observed' = "unknown",
         \/ assigned' = NoWorker /\ Forsake(f)
         \/ UNCHANGED <<assigned, forsaken>>
  PROVE  OwnedInv'
<1>0. LifecycleInv /\ flow[f].worker \in Workers
  BY FlowsTyped DEF OwnedInv, LifecycleInv, BusyRecords
<1> PICK w \in Workers : w = flow[f].worker
  BY <1>0
<1>1. LifecycleInv /\ Poise /\ TypeOK /\ Converging(f) /\ flow[f].pc # "uploading"
  BY DEF OwnedInv, LifecycleInv, Converging, StopPcs
<1>2. /\ Finish(f) \in [Flows -> FlowRecords] /\ Finish(f)[f].pc = "idle"
      /\ \A g \in Flows \ {f} : Finish(f)[g] = flow[g]
  BY <1>1, Gone
<1>3. flow'[f].pc = "idle" /\ \A g \in Flows \ {f} : Alike(flow'[g], flow[g])
  BY <1>2, AlikeWritten DEF Alike
<1>4. \A g \in Flows : Alike(flow'[g], flow[g]) \/ (flow[g].pc \notin AwaitPcs /\ flow'[g].pc # "launching")
  BY <1>1, <1>3 DEF AwaitPcs
<1>5. IsGone(observed') => IsGone(observed)
  BY DEF IsGone
<1>6. CASE assigned' = NoWorker /\ Forsake(f)
  <2>1. desired = "stopped" /\ assigned = w
    BY <1>1 DEF LifecycleInv, StopsHold
  <2>2. \A x \in Workers : ~SnapshotAt(x)
    BY <1>1, AloneOnRow DEF SnapshotAt, Unheld
  <2>3. forsaken \subseteq forsaken' /\ \A x \in Workers : ~SnapshotAt(x)' /\ (Cold(x) => Cold(x)')
    BY <1>6, <2>2 DEF Forsake, wire, SnapshotAt, Cold, Alive, Queued, Messages
  <2>4. Calm(w)'
    <3>1. CASE flow[f].release
      <4>1. Calm(w)
        BY <1>1, <3>1 DEF Poise, UnknownForsakes, CalmAnswers
      <4> QED BY <2>3, <4>1, <1>1 DEF Calm
    <3>2. CASE ~flow[f].release
      BY <1>6, <3>2 DEF Forsake, Calm
    <3> QED BY <3>1, <3>2
  <2>5. \A g \in Flows : ~Starter(g)
    BY <1>1 DEF Poise, ConvergeAlone
  <2>6. \A g \in Flows : /\ Alike(flow'[g], flow[g]) \/ flow'[g].pc = "idle"
                         /\ ~Starter(g)'
                         /\ flow'[g].pc = "revert" => desired' = "stopped"
    BY <1>3, <2>1, <2>5 DEF Starter, Alike
  <2>7. \A x \in Workers : assigned = x => Calm(x)'
    BY <2>1, <2>4
  <2>8. Poise'
    BY <1>1, <1>6, <2>3, <2>6, <2>7, ReleasePoised
  <2> QED BY <1>4, <1>5, <2>3, <2>8, StillOwned DEF links, wire
<1>7. CASE UNCHANGED <<assigned, forsaken>>
  <2>1. \A g \in Flows : Eased(g)
    BY <1>3 DEF Eased
  <2>2. Poise'
    BY <1>1, <1>7, <2>1, EasedStill DEF wire
  <2> QED BY <1>4, <1>5, <1>7, <2>2, StillOwned DEF links, wire
<1> QED BY <1>6, <1>7

LEMMA ReleaseOwned ==
  ASSUME OwnedInv, NEW f \in Flows, Release(f)
  PROVE  OwnedInv'
<1>1. LifecycleInv'
  BY ReleaseKept DEF OwnedInv
<1> QED BY <1>1, ReleasedOwned DEF Release

LEMMA ReleaseUnknownOwned ==
  ASSUME OwnedInv, NEW f \in Flows, ReleaseUnknown(f)
  PROVE  OwnedInv'
<1>1. LifecycleInv'
  BY ReleaseUnknownKept DEF OwnedInv
<1> QED BY <1>1, ReleasedOwned DEF ReleaseUnknown

-----------------------------------------------------------------------------
(* Steps that send a command.                                                *)

\* What the answer f has consumed, if any, leaves on the wire.
Attended(f) ==
    \A x \in Workers :
        /\ \A c \in Queued(x) : c.flow # f
        /\ \A m \in Messages(x)' : m.kind = "result" => m \in Messages(x) /\ m.flow # f
        /\ \A m \in Messages(x) : m.kind = "result" /\ m.flow # f => m \in Messages(x)'
        /\ InOrder(uplink'[x], StopAnswers, StartAnswers)

LEMMA SendingOwned ==
  ASSUME OwnedInv, LifecycleInv', Honest', NEW f \in Flows, NEW w \in Workers,
         flow[f].worker = w, w \in online,
         NEW op \in {"hydrate", "start", "stop", "snapshot"},
         lane' = [lane EXCEPT ![w] = Append(@, Command(op, f))],
         UNCHANGED <<desired, assigned, online, detached, inst, forsaken>>,
         Attended(f),
         \A g \in Flows \ {f} : flow'[g] = flow[g],
         Resumed(f), Eased(f),
         IF op = "start"
         THEN /\ Launches(f) /\ flow'[f].attempted
              /\ flow'[f].skip => flow'[f].op # "place"
         ELSE flow'[f].pc # "launching",
         op = "snapshot" => flow[f].pc = "snapshot"
  PROVE  OwnedInv'
<1>1. LifecycleInv /\ Poise /\ Wired /\ DetachedStops /\ TypeOK
  BY DEF OwnedInv, LifecycleInv
<1> DEFINE c == Command(op, f)
<1>2. c \in CommandRecords /\ c.op = op /\ c.flow = f
  BY CommandsMade DEF Verbs, Awaiters
<1> HIDE DEF c
<1>3. /\ \A x \in Workers \ {w} : lane'[x] = lane[x]
      /\ lane'[w] = Append(lane[w], c) /\ lane[w] \in Seq(CommandRecords)
  BY <1>1 DEF TypeOK, c
<1>4. Elems(lane'[w]) = Elems(lane[w]) \cup {c}
  BY <1>2, <1>3, Appended
<1>5. \A x \in Workers : Queued(x)' = IF x = w THEN Queued(x) \cup {c} ELSE Queued(x)
  BY <1>3, <1>4 DEF Queued, Elems
<1>6. \A g \in Flows \ {f} : Alike(flow'[g], flow[g]) /\ Eased(g)
  BY DEF Alike, Eased
<1>7. \A x \in Workers : Cold(x) => Cold(x)' \/ (Launches(f) /\ flow[f].worker = x)
  BY <1>2, <1>5 DEF Cold, Alive
<1>8. \A x \in Workers : SnapshotAt(x)' =>
         SnapshotAt(x) \/ (flow[f].pc = "snapshot" /\ flow[f].worker = x)
  BY <1>2, <1>5 DEF SnapshotAt, Attended
<1>9. Poise'
  BY <1>1, <1>6, <1>7, <1>8, Poised
<1>10. Wired'
  BY <1>1, <1>6, WiredSent DEF Attended
<1>11. DetachedStops'
  BY <1>1 DEF DetachedStops, Alive
<1> QED BY <1>9, <1>10, <1>11 DEF OwnedInv

\* f sends its first command of a launch or a stop, or finds its worker gone.
LEMMA DispatchOwned ==
  ASSUME OwnedInv, LifecycleInv', NEW f \in Flows, NEW op \in {"hydrate", "start", "stop", "snapshot"},
         NEW r \in BusyRecords, r.worker = flow[f].worker, r.op = flow[f].op,
         Dispatch(f, op, r), UNCHANGED <<row, links, upload, uplink, detached, inst, forsaken>>,
         \/ /\ flow[f].pc = "launch"
            /\ \/ op = "hydrate" /\ r.pc = "hydrating"
               \/ op = "start" /\ r.pc = "launching" /\ r.attempted /\ (r.skip => r.op # "place")
         \/ flow[f].pc = "stop" /\ op = "stop" /\ r.pc = "stopping"
         \/ flow[f].pc = "snapshot" /\ op = "snapshot" /\ r.pc = "uploading"
  PROVE  OwnedInv'
<1>1. LifecycleInv /\ Poise /\ Wired /\ Honest /\ TypeOK /\ flow[f].pc # "idle" /\ flow[f].pc \notin AwaitPcs
  BY DEF OwnedInv, LifecycleInv, AwaitPcs
<1>2. flow[f] \in BusyRecords /\ flow[f].worker \in Workers
  BY <1>1, FlowsTyped DEF BusyRecords
<1>3. PICK w \in Workers : w = flow[f].worker
  BY <1>2
<1>4. flow[f].pc = "launch" => /\ flow[f].op # "redispatch" => Calm(w)
                               /\ \A g \in Flows : ~Converging(g)
  BY <1>1, <1>3 DEF Poise, CalmStarts, ConvergeAlone, Starter
<1>5. flow[f].pc = "snapshot" => Calm(w) /\ \A g \in Flows : ~Starter(g)
  BY <1>1, <1>3 DEF Poise, CalmAnswers, ConvergeAlone, Converging, StopPcs
<1>6. CASE w \in online
  <2>1. /\ lane' = [lane EXCEPT ![w] = Append(@, Command(op, f))]
        /\ flow' = [flow EXCEPT ![f] = r]
    BY <1>3, <1>6 DEF Dispatch
  <2>2. flow'[f] = r /\ \A g \in Flows \ {f} : flow'[g] = flow[g]
    BY <1>1, <2>1 DEF TypeOK
  <2>3. Attended(f)
    <3>1. \A x \in Workers : InOrder(uplink'[x], StopAnswers, StartAnswers)
      BY <1>1 DEF Wired, StopsInOrder
    <3>2. \A x \in Workers : /\ \A c \in Queued(x) : c.flow # f
                             /\ \A m \in Messages(x) : m.kind = "result" => m.flow # f
                             /\ Messages(x)' = Messages(x)
      BY <1>1, Understood DEF Expected, Awaits, AwaitPcs, Messages
    <3> QED BY <3>1, <3>2 DEF Attended
  <2>4. Resumed(f)
    BY <2>2 DEF Resumed
  <2>5. Eased(f)
    BY <1>3, <1>4, <1>5, <2>2, <2>4 DEF Eased, Starter, Launches, StopPcs
  <2>6. IF op = "start"
        THEN /\ Launches(f) /\ flow'[f].attempted
             /\ flow'[f].skip => flow'[f].op # "place"
        ELSE flow'[f].pc # "launching"
    BY <2>2 DEF Launches
  <2>7. Honest'
    BY <1>1, HonestStill DEF Alive, row
  <2>8. UNCHANGED <<desired, assigned, online, detached, inst, forsaken>>
    BY DEF row, links
  <2> QED BY <1>3, <1>6, <2>1, <2>2, <2>3, <2>4, <2>5, <2>6, <2>7, <2>8, SendingOwned
<1>7. CASE w \notin online
  <2> DEFINE q == Lost(flow[f], FALSE)
  <2>1. flow' = [flow EXCEPT ![f] = q] /\ UNCHANGED lane
    BY <1>3, <1>7 DEF Dispatch
  <2>2. \/ q.pc = "idle"
        \/ /\ q.pc = "revert" /\ flow[f].pc = "launch" /\ flow[f].op # "redispatch"
           /\ q.op = flow[f].op /\ q.worker = flow[f].worker
        \/ /\ q.pc = "release" /\ flow[f].pc = "snapshot" /\ q.release
           /\ q.worker = flow[f].worker
    BY <1>1, <1>2 DEF Lost, Unsent, Settled, BusyRecords, Idle
  <2> HIDE DEF q
  <2>3. flow'[f] = q /\ \A g \in Flows \ {f} : flow'[g] = flow[g]
    BY <1>1, <2>1 DEF TypeOK
  <2>4. Eased(f)
    BY <1>3, <1>4, <1>5, <2>2, <2>3 DEF Eased, Starter, Resumed, StopPcs
  <2>5. \A g \in Flows : Eased(g)
    BY <2>3, <2>4 DEF Eased, Alike
  <2>6. Poise'
    BY <1>1, <2>1, <2>5, EasedStill DEF row
  <2>7. \A g \in Flows : Alike(flow'[g], flow[g]) \/ (flow[g].pc \notin AwaitPcs /\ flow'[g].pc # "launching")
    BY <1>1, <2>2, <2>3 DEF Alike
  <2> QED BY <1>1, <2>1, <2>6, <2>7, StillOwned DEF row, links
<1> QED BY <1>6, <1>7

\* The records of a launch's two commands, but for what they know already.
LEMMA LaunchersKeep ==
  \A r \in BusyRecords, skip \in BOOLEAN :
     /\ [r EXCEPT !.pc = "hydrating", !.skip = FALSE].op = r.op
     /\ [r EXCEPT !.pc = "launching", !.skip = skip, !.attempted = TRUE].op = r.op
     /\ [r EXCEPT !.pc = "launching", !.skip = skip, !.attempted = TRUE].skip = skip
     /\ [r EXCEPT !.pc = "launching", !.skip = skip, !.attempted = TRUE].attempted = TRUE
  BY DEF BusyRecords

LEMMA LaunchOwned ==
  ASSUME OwnedInv, NEW f \in Flows, Launch(f)
  PROVE  OwnedInv'
<1> DEFINE h == [flow[f] EXCEPT !.pc = "hydrating", !.skip = FALSE]
           s == [flow[f] EXCEPT !.pc = "launching", !.skip = TRUE, !.attempted = TRUE]
<1>1. LifecycleInv /\ LifecycleInv' /\ flow[f].pc = "launch" /\ flow[f] \in BusyRecords
  BY LaunchKept, FlowsTyped DEF OwnedInv, Launch, LifecycleInv
<1>2. /\ h \in BusyRecords /\ h.worker = flow[f].worker /\ h.pc = "hydrating" /\ h.op = flow[f].op
      /\ s \in BusyRecords /\ s.worker = flow[f].worker /\ s.pc = "launching" /\ s.op = flow[f].op
      /\ s.attempted
  BY <1>1, Launchers, LaunchersKeep
<1> HIDE DEF h, s
<1>3. CASE SendHydrate(f)
  BY <1>1, <1>2, <1>3, DispatchOwned DEF Launch, SendHydrate, h
<1>4. CASE flow[f].op # "place" /\ SendStart(f, TRUE)
  BY <1>1, <1>2, <1>4, DispatchOwned DEF Launch, SendStart, s
<1> QED BY <1>3, <1>4 DEF Launch

LEMMA SendStopOwned ==
  ASSUME OwnedInv, NEW f \in Flows, SendStop(f)
  PROVE  OwnedInv'
<1> DEFINE r == [flow[f] EXCEPT !.pc = "stopping"]
<1>1. LifecycleInv /\ LifecycleInv' /\ flow[f].pc = "stop" /\ flow[f] \in BusyRecords
  BY SendStopKept, FlowsTyped DEF OwnedInv, SendStop, LifecycleInv
<1>2. r \in BusyRecords /\ r.worker = flow[f].worker /\ r.op = flow[f].op /\ r.pc = "stopping"
  BY <1>1 DEF BusyRecords, Pcs, StopPcs
<1> HIDE DEF r
<1> QED BY <1>1, <1>2, DispatchOwned DEF SendStop, r

LEMMA SendSnapshotOwned ==
  ASSUME OwnedInv, NEW f \in Flows, SendSnapshot(f)
  PROVE  OwnedInv'
<1> DEFINE r == [flow[f] EXCEPT !.pc = "uploading"]
<1>1. LifecycleInv /\ LifecycleInv' /\ flow[f].pc = "snapshot" /\ flow[f] \in BusyRecords
  BY SendSnapshotKept, FlowsTyped DEF OwnedInv, SendSnapshot, LifecycleInv
<1>2. r \in BusyRecords /\ r.worker = flow[f].worker /\ r.op = flow[f].op /\ r.pc = "uploading"
  BY <1>1 DEF BusyRecords, Pcs, StopPcs
<1> HIDE DEF r
<1> QED BY <1>1, <1>2, DispatchOwned DEF SendSnapshot, r

\* The lanes and the uplinks change by what no flow and no start is concerned with.
LEMMA UnconcernedOwned ==
  ASSUME OwnedInv, LifecycleInv', UNCHANGED <<row, flow, online, detached, inst, forsaken>>,
         \A x \in Workers : \A c \in Queued(x)' : c \in Queued(x) \/ (c.flow \notin Flows /\ c.op = "restart"),
         \A x \in Workers : \A c \in Queued(x) : c.flow \in Flows => c \in Queued(x)',
         \A x \in Workers : InOrder(lane'[x], AwaitedStops, QueuedStarts),
         UNCHANGED uplink
  PROVE  OwnedInv'
<1>1. LifecycleInv /\ Poise /\ Wired /\ Honest /\ DetachedStops /\ TypeOK /\ TypeOK'
  BY DEF OwnedInv, LifecycleInv
<1>2. \A x \in Workers : /\ Messages(x)' = Messages(x)
                         /\ Alive(x)' <=> Alive(x)
                         /\ Cold(x) => Cold(x)'
                         /\ SnapshotAt(x)' => SnapshotAt(x)
  BY DEF Messages, Alive, Cold, SnapshotAt
<1>3. \A g \in Flows : Alike(flow'[g], flow[g]) /\ Eased(g)
  BY DEF Alike, Eased
<1>4. Poise'
  BY <1>1, <1>2, <1>3, Poised DEF row
<1>5. StopsInOrder'
  BY <1>1 DEF Wired, StopsInOrder
<1>6. ASSUME NEW g \in Flows, flow[g].pc = "launching"
      PROVE  flow[g].worker \in online' /\ StartPending(g)'
  <2>1. flow[g].worker \in online /\ StartPending(g) /\ flow'[g].worker = flow[g].worker
    BY <1>1, <1>6 DEF Wired, LaunchesPending
  <2>2. flow[g].worker \in Workers
    BY <1>1, <2>1 DEF TypeOK
  <2> QED BY <1>2, <2>1, <2>2 DEF StartPending
<1>7. Wired'
  <2>1. \A x \in Workers : \A c \in Queued(x)' :
            \/ c \in Queued(x)
            \/ /\ c.flow \notin Flows
               /\ c.op = "start" => \E d \in Queued(x) : d.op = "start" /\ d.flow \in Flows /\ Unheard(d.flow)
    OBVIOUS
  <2>2. \A x \in Workers : \A m \in Messages(x)' :
            m.kind = "result" => m \in Messages(x) \/ m.flow \notin Flows
    BY <1>2
  <2>3. \A x \in Workers : Cold(x) => Cold(x)'
    BY <1>2
  <2>4. \A g \in Flows : \/ Unheard(g) /\ flow'[g].pc # "launching"
                         \/ /\ Alike(flow'[g], flow[g])
                            /\ flow[g].pc = "launching" => flow[g].worker \in online' /\ StartPending(g)'
    BY <1>3, <1>6
  <2> QED BY <1>1, <1>5, <2>1, <2>2, <2>3, <2>4, WiredStill
<1>8. Honest' /\ DetachedStops'
  BY <1>1, <1>2, HonestStill DEF DetachedStops, row
<1> QED BY <1>4, <1>7, <1>8 DEF OwnedInv

LEMMA RestartOwned ==
  ASSUME OwnedInv, Restart
  PROVE  OwnedInv'
<1> DEFINE c == Command("restart", NoFlow)
<1>1. /\ c \in CommandRecords /\ c.op = "restart" /\ c.flow = NoFlow
  BY CommandsMade DEF Verbs, Awaiters
<1> HIDE DEF c
<1>2. LifecycleInv /\ LifecycleInv' /\ TypeOK /\ assigned \in Workers
  BY RestartKept DEF OwnedInv, LifecycleInv, TypeOK, Restart
<1>3. PICK w \in Workers : w = assigned
  BY <1>2
<1>4. lane' = [lane EXCEPT ![w] = Append(@, c)]
  BY <1>3 DEF Restart, c
<1>5. /\ \A x \in Workers : lane[x] \in Seq(CommandRecords)
      /\ \A x \in Workers \ {w} : lane'[x] = lane[x]
      /\ lane'[w] = Append(lane[w], c)
  BY <1>2, <1>4 DEF TypeOK
<1>6. Elems(lane'[w]) = Elems(lane[w]) \cup {c}
  BY <1>1, <1>5, Appended
<1>7. \A x \in Workers : Queued(x)' = IF x = w THEN Queued(x) \cup {c} ELSE Queued(x)
  BY <1>5, <1>6 DEF Queued, Elems
<1>8. ASSUME NEW x \in Workers PROVE InOrder(lane'[x], AwaitedStops, QueuedStarts)
  <2>1. InOrder(lane[x], AwaitedStops, QueuedStarts)
    BY DEF OwnedInv, Wired, StopsInOrder
  <2>2. CASE x # w
    BY <1>5, <2>1, <2>2
  <2>3. CASE x = w
    <3>1. c \notin QueuedStarts
      BY <1>1 DEF QueuedStarts
    <3> QED BY <1>1, <1>5, <2>1, <2>3, <3>1, OrderAppended
  <2> QED BY <2>2, <2>3
<1>9. \A x \in Workers : \A d \in Queued(x)' : d \in Queued(x) \/ (d.flow \notin Flows /\ d.op = "restart")
  BY <1>1, <1>7, IdsAssumption
<1>10. \A x \in Workers : \A d \in Queued(x) : d.flow \in Flows => d \in Queued(x)'
  BY <1>7
<1> QED BY <1>2, <1>8, <1>9, <1>10, UnconcernedOwned DEF Restart, row, links

LEMMA DropStaleOwned ==
  ASSUME OwnedInv, NEW w \in Workers, DropStale(w)
  PROVE  OwnedInv'
<1>1. LifecycleInv /\ LifecycleInv' /\ TypeOK
  BY DropStaleKept DEF OwnedInv, LifecycleInv
<1>2. PICK i \in 1 .. Len(lane[w]) :
         /\ lane[w][i].flow = NoFlow /\ lane' = [lane EXCEPT ![w] = Without(@, i)]
         /\ UNCHANGED <<row, flow, links, upload, uplink, detached, inst, forsaken, bounds>>
  BY DEF DropStale
<1>3. /\ \A x \in Workers : lane[x] \in Seq(CommandRecords)
      /\ \A x \in Workers \ {w} : lane'[x] = lane[x]
      /\ lane'[w] = Without(lane[w], i)
  BY <1>1, <1>2 DEF TypeOK
<1>4. /\ Elems(lane[w]) \subseteq {lane[w][i]} \cup Elems(lane'[w])
      /\ Elems(lane'[w]) \subseteq Elems(lane[w])
  BY <1>3, LeftBehind
<1>5. /\ \A x \in Workers : Queued(x)' \subseteq Queued(x)
      /\ \A x \in Workers : \A d \in Queued(x) : d.flow \in Flows => d \in Queued(x)'
  <2>1. \A x \in Workers : Queued(x) = Elems(lane[x]) /\ Queued(x)' = Elems(lane'[x])
    BY DEF Queued
  <2> QED BY <1>2, <1>3, <1>4, <2>1, IdsAssumption
<1>6. ASSUME NEW x \in Workers PROVE InOrder(lane'[x], AwaitedStops, QueuedStarts)
  <2>1. InOrder(lane[x], AwaitedStops, QueuedStarts)
    BY DEF OwnedInv, Wired, StopsInOrder
  <2>2. lane[w] \in Seq(CommandRecords)
    BY <1>3
  <2> QED BY <1>3, <2>1, <2>2, OrderWithout
<1> QED BY <1>1, <1>2, <1>5, <1>6, UnconcernedOwned DEF row, links

-----------------------------------------------------------------------------
(* Steps that receive a message.                                             *)

\* What is received is the oldest message of its kind.
LEMMA Oldest ==
  ASSUME NEW w \in Workers, NEW i, Sendable(w, i)
  PROVE  Foremost(uplink[w], i)
  BY DEF Sendable, Foremost

LEMMA HonestHeard ==
  ASSUME OwnedInv, NEW w \in Workers, NEW i, Foremost(uplink[w], i),
         uplink' = [uplink EXCEPT ![w] = Without(@, i)], UNCHANGED <<inst, forsaken>>,
         \/ observed' = observed /\ (uplink[w][i].kind = "status" => assigned # w)
         \/ /\ uplink[w][i].kind = "status" /\ assigned = w
            /\ observed' = uplink[w][i].state
  PROVE  Honest'
<1>1. Poise /\ Honest /\ TypeOK
  BY DEF OwnedInv, LifecycleInv
<1>2. /\ uplink[w] \in Seq(ResultRecords \cup StatusRecords)
      /\ uplink'[w] = Without(uplink[w], i)
      /\ \A x \in Workers \ {w} : uplink'[x] = uplink[x]
  BY <1>1 DEF TypeOK
<1>3. /\ SaysGone(uplink'[w]) => SaysGone(uplink[w])
      /\ Mute(uplink'[w]) => \/ Mute(uplink[w])
                             \/ /\ uplink[w][i].kind = "status"
                                /\ IsGone(uplink[w][i].state) => SaysGone(uplink[w])
  BY <1>2, LastHeard
<1> SUFFICES ASSUME NEW x \in Workers \ forsaken, Alive(x)
             PROVE  ~SaysGone(uplink'[x]) /\ (Mute(uplink'[x]) => ~IsGone(observed'))
  BY DEF Honest, Alive
<1>4. assigned = x /\ ~SaysGone(uplink[x]) /\ (Mute(uplink[x]) => ~IsGone(observed))
  BY <1>1, OwnersAlive DEF Honest
<1>5. CASE x # w
  BY <1>2, <1>4, <1>5
<1>6. CASE x = w
  <2>1. uplink[w][i].kind = "status" => ~Mute(uplink[w])
    BY DEF Mute, Foremost
  <2> QED BY <1>3, <1>4, <1>6, <2>1
<1> QED BY <1>5, <1>6

\* w's oldest message of a kind is consumed, and its flow waits no longer.
LEMMA ConsumedOwned ==
  ASSUME OwnedInv, LifecycleInv', Honest', NEW w \in Workers, NEW i, Foremost(uplink[w], i),
         uplink' = [uplink EXCEPT ![w] = Without(@, i)],
         UNCHANGED <<lane, online, detached, inst, forsaken>>, Poise',
         \A g \in Flows : \/ Alike(flow'[g], flow[g]) /\ (uplink[w][i].kind = "result" => uplink[w][i].flow # g)
                          \/ flow'[g].pc # "launching" /\ Unheard(g)
  PROVE  OwnedInv'
<1>1. LifecycleInv /\ Poise /\ Wired /\ Honest /\ DetachedStops /\ TypeOK /\ TypeOK'
  BY DEF OwnedInv, LifecycleInv
<1>2. /\ uplink[w] \in Seq(ResultRecords \cup StatusRecords)
      /\ uplink'[w] = Without(uplink[w], i)
      /\ \A x \in Workers \ {w} : uplink'[x] = uplink[x]
  BY <1>1 DEF TypeOK
<1>3. /\ Elems(uplink[w]) \subseteq {uplink[w][i]} \cup Elems(uplink'[w])
      /\ Elems(uplink'[w]) \subseteq Elems(uplink[w])
  BY <1>2, LeftBehind DEF Foremost
<1>4. /\ \A x \in Workers : Messages(x)' \subseteq Messages(x)
      /\ Messages(w) \subseteq {uplink[w][i]} \cup Messages(w)'
      /\ \A x \in Workers \ {w} : Messages(x)' = Messages(x)
  <2>1. \A x \in Workers : Messages(x) = Elems(uplink[x]) /\ Messages(x)' = Elems(uplink'[x])
    BY DEF Messages
  <2> QED BY <1>2, <1>3, <2>1
<1>5. \A x \in Workers : /\ Queued(x)' = Queued(x)
                         /\ Alive(x)' <=> Alive(x)
                         /\ Cold(x) => Cold(x)'
  BY DEF Queued, Alive, Cold
<1>6. StopsInOrder'
  <2> SUFFICES ASSUME NEW x \in Workers PROVE InOrder(uplink'[x], StopAnswers, StartAnswers)
    BY <1>1 DEF Wired, StopsInOrder
  <2>1. InOrder(uplink[x], StopAnswers, StartAnswers)
    BY <1>1 DEF Wired, StopsInOrder
  <2> QED BY <1>2, <2>1, OrderWithout DEF Foremost
<1>7. ASSUME NEW g \in Flows, flow[g].pc = "launching", Alike(flow'[g], flow[g]),
             uplink[w][i].kind = "result" => uplink[w][i].flow # g
      PROVE  flow[g].worker \in online' /\ StartPending(g)'
  <2>1. flow[g].worker \in online /\ StartPending(g) /\ flow'[g].worker = flow[g].worker
    BY <1>1, <1>7 DEF Wired, LaunchesPending, Alike
  <2>2. flow[g].worker \in Workers
    BY <1>1, <2>1 DEF TypeOK
  <2> QED BY <1>4, <1>5, <1>7, <2>1, <2>2 DEF StartPending
<1>8. Wired'
  <2>1. \A x \in Workers : \A c \in Queued(x)' :
            \/ c \in Queued(x)
            \/ /\ c.flow \notin Flows
               /\ c.op = "start" => \E d \in Queued(x) : d.op = "start" /\ d.flow \in Flows /\ Unheard(d.flow)
    BY <1>5
  <2>2. \A x \in Workers : \A m \in Messages(x)' :
            m.kind = "result" => m \in Messages(x) \/ m.flow \notin Flows
    BY <1>4
  <2>3. \A x \in Workers : Cold(x) => Cold(x)'
    BY <1>5
  <2>4. \A g \in Flows : \/ Unheard(g) /\ flow'[g].pc # "launching"
                         \/ /\ Alike(flow'[g], flow[g])
                            /\ flow[g].pc = "launching" => flow[g].worker \in online' /\ StartPending(g)'
    BY <1>7
  <2> QED BY <1>1, <1>6, <2>1, <2>2, <2>3, <2>4, WiredStill
<1>9. DetachedStops'
  BY <1>1, <1>5 DEF DetachedStops
<1> QED BY <1>8, <1>9 DEF OwnedInv

\* Flows that go on with what w said.
LEMMA EasedHeard ==
  ASSUME LifecycleInv, Poise, NEW w \in Workers, NEW i, Foremost(uplink[w], i),
         uplink' = [uplink EXCEPT ![w] = Without(@, i)],
         UNCHANGED <<desired, assigned, lane, detached, inst, forsaken>>, \A g \in Flows : Eased(g)
  PROVE  Poise'
<1>1. /\ uplink[w] \in Seq(ResultRecords \cup StatusRecords)
      /\ uplink'[w] = Without(uplink[w], i)
      /\ \A x \in Workers \ {w} : uplink'[x] = uplink[x]
  BY DEF LifecycleInv, TypeOK
<1>2. Elems(uplink'[w]) \subseteq Elems(uplink[w])
  BY <1>1, LeftBehind DEF Foremost
<1>3. \A x \in Workers : Messages(x)' \subseteq Messages(x)
  <2>1. \A x \in Workers : Messages(x) = Elems(uplink[x]) /\ Messages(x)' = Elems(uplink'[x])
    BY DEF Messages
  <2> QED BY <1>1, <1>2, <2>1
<1>4. \A x \in Workers : (Cold(x) => Cold(x)') /\ (SnapshotAt(x)' => SnapshotAt(x))
  BY <1>3 DEF Cold, Alive, SnapshotAt, Queued
<1> QED BY <1>4, Poised

LEMMA ReceiveStatusOwned ==
  ASSUME OwnedInv, NEW w \in Workers, NEW i \in DOMAIN uplink[w], ReceiveStatus(w, i)
  PROVE  OwnedInv'
<1>1. LifecycleInv /\ Poise /\ LifecycleInv' /\ TypeOK
  BY ReceiveStatusKept DEF OwnedInv, LifecycleInv
<1>2. Foremost(uplink[w], i)
  BY Oldest DEF ReceiveStatus
<1>3. /\ uplink' = [uplink EXCEPT ![w] = Without(@, i)] /\ uplink[w][i].kind = "status"
      /\ UNCHANGED <<desired, assigned, lane, online, detached, inst, forsaken>>
  BY <1>2 DEF ReceiveStatus, links
<1>4. \A g \in Flows : Alike(flow'[g], flow[g]) /\ Eased(g)
  BY <1>1, AllAlike DEF ReceiveStatus, Eased
<1>5. Poise'
  BY <1>1, <1>2, <1>3, <1>4, EasedHeard
<1>6. Honest'
  BY <1>2, <1>3, HonestHeard DEF ReceiveStatus
<1> QED BY <1>1, <1>2, <1>3, <1>4, <1>5, <1>6, ConsumedOwned

LEMMA ReceiveLateOwned ==
  ASSUME OwnedInv, NEW w \in Workers, NEW i \in DOMAIN uplink[w], ReceiveLate(w, i)
  PROVE  OwnedInv'
<1>1. LifecycleInv /\ Poise /\ LifecycleInv' /\ TypeOK
  BY ReceiveLateKept DEF OwnedInv, LifecycleInv
<1>2. Foremost(uplink[w], i)
  BY Oldest DEF ReceiveLate
<1>3. /\ uplink' = [uplink EXCEPT ![w] = Without(@, i)]
      /\ uplink[w][i].kind = "result" /\ uplink[w][i].flow = NoFlow
      /\ UNCHANGED <<desired, observed, flow, lane, online, detached, inst, forsaken>>
  BY <1>2 DEF ReceiveLate, links
<1>4. \A g \in Flows : Alike(flow'[g], flow[g]) /\ Eased(g)
  BY <1>3 DEF Eased, Alike
<1>5. Poise'
  <2>1. CASE UNCHANGED assigned
    BY <1>1, <1>2, <1>3, <1>4, <2>1, EasedHeard
  <2>2. CASE ~UNCHANGED assigned
    <3>1. /\ uplink[w][i].op = "snapshot" /\ ~InFlight' /\ assigned' = NoWorker
          /\ desired = "stopped" /\ assigned = w
      BY <1>2, <2>2 DEF ReceiveLate, Clearable
    <3>2. SnapshotAt(w)
      BY <1>2, <1>3, <3>1 DEF SnapshotAt, Messages, Elems, Foremost
    <3>3. Calm(w) /\ \A g \in Flows : ~Starter(g)
      BY <1>1, <3>2 DEF Poise, CalmSnapshots
    <3>4. \A x \in Workers : ~SnapshotAt(x)' /\ (Cold(x) => Cold(x)') /\ (Calm(x) => Calm(x)')
      BY <1>3, <3>1 DEF InFlight, Outstanding, SnapshotAt, Calm, Cold, Alive, Queued
    <3>5. \A g \in Flows : /\ Alike(flow'[g], flow[g]) \/ flow'[g].pc = "idle"
                           /\ ~Starter(g)'
                           /\ flow'[g].pc = "revert" => desired' = "stopped"
      BY <1>3, <1>4, <3>1, <3>3 DEF Starter
    <3>6. \A x \in Workers : assigned = x => Calm(x)'
      BY <3>1, <3>3, <3>4
    <3> QED BY <1>1, <1>3, <3>1, <3>4, <3>5, <3>6, ReleasePoised
  <2> QED BY <2>1, <2>2
<1>6. Honest'
  BY <1>2, <1>3, HonestHeard
<1>7. \A g \in Flows : uplink[w][i].flow # g
  BY <1>3, IdsAssumption
<1> QED BY <1>1, <1>2, <1>3, <1>4, <1>5, <1>6, <1>7, ConsumedOwned

\* What the refusal of a launch says of its worker.
LEMMA RefusalCalm ==
  ASSUME OwnedInv, NEW w \in Workers, NEW r \in Messages(w), r \in ResultRecords,
         NEW f \in Flows, r.flow = f, r.op \in {"hydrate", "start"},
         Awaits(flow[f], r.op), flow[f].worker = w,
         \/ /\ flow[f].op \in {"start", "place"}
            /\ Refused(flow[f], r.status).pc = "revert" /\ r.status # "ok"
         \/ r.op = "start" /\ r.status = "absent" /\ flow[f].op = "start"
  PROVE  Calm(w)
<1>1. LifecycleInv /\ Poise /\ Wired /\ flow[f].pc # "idle"
  BY DEF OwnedInv, Awaits
<1>2. CASE r.op = "hydrate"
  BY <1>1, <1>2 DEF Awaits, Poise, CalmStarts
<1>3. CASE r.op = "start"
  <2>1. flow[f].attempted /\ flow[f] \in BusyRecords
    BY <1>1, <1>3, FlowsTyped DEF Wired, LaunchesPending, Awaits, LifecycleInv
  <2>2. flow[f].op = "start" /\ r.status \notin {"ok", "invalid", "busy"}
    BY <2>1 DEF Refused, BusyRecords, Idle
  <2>3. Refusals(r)
    BY <1>3, <2>2, Kinds DEF Refusals
  <2> QED BY <1>1, <2>2, <2>3 DEF Wired, RefusedCold, Calm
<1> QED BY <1>2, <1>3

\* A confirmed stop: nothing runs there, and no start is on its way.
LEMMA ConfirmedCalm ==
  ASSUME OwnedInv, NEW w \in Workers, NEW i, Foremost(uplink[w], i), NEW r, r = uplink[w][i], r \in StopAnswers,
         NEW f \in Flows, r.flow = f, Awaits(flow[f], "stop"), flow[f].worker = w
  PROVE  Cold(w) /\ \A g \in Flows : ~Starter(g)
<1>1. LifecycleInv /\ Poise /\ Wired /\ Converging(f)
  BY DEF OwnedInv, Awaits, Converging, StopPcs
<1>2. Cold(w)
  BY <1>1 DEF Wired, StopsAnswered, Within, Foremost
<1>3. ASSUME NEW g \in Flows, Starter(g) PROVE FALSE
  <2>1. flow[g].pc = "launching" /\ flow[g].worker = w
    BY <1>1, <1>3 DEF Poise, ConvergeAlone, StartersOwn, LifecycleInv, StopsHold
  <2>2. StartPending(g)
    BY <1>1, <2>1 DEF Wired, LaunchesPending
  <2>3. PICK m \in Messages(w) : m.kind = "result" /\ m.op = "start"
    BY <1>2, <2>1, <2>2 DEF StartPending, Cold
  <2>4. m \in StartAnswers
    BY <1>1, <2>3, Understood DEF StartAnswers
  <2>5. PICK j \in 1 .. Len(uplink[w]) : m = uplink[w][j]
    BY DEF Messages, Elems
  <2>6. j # i /\ uplink[w][j].kind = uplink[w][i].kind
    BY <2>3, <2>4, <2>5 DEF StopAnswers, StartAnswers, ResultRecords
  <2>7. i < j
    <3>1. Len(uplink[w]) \in Nat /\ i \in 1 .. Len(uplink[w]) /\ j \notin 1 .. (i - 1)
      BY <1>1, <2>6 DEF LifecycleInv, TypeOK, Foremost
    <3> QED BY <2>6, <3>1
  <2>8. InOrder(uplink[w], StopAnswers, StartAnswers)
    BY <1>1 DEF Wired, StopsInOrder
  <2> QED BY <2>4, <2>5, <2>7, <2>8 DEF InOrder, Foremost
<1> QED BY <1>2, <1>3

LEMMA ReceiveResultOwned ==
  ASSUME OwnedInv, NEW w \in Workers, NEW i \in DOMAIN uplink[w], ReceiveResult(w, i)
  PROVE  OwnedInv'
<1>1. PICK r \in ResultRecords, f \in Flows :
         /\ r = uplink[w][i] /\ f = r.flow /\ Awaits(flow[f], r.op)
         /\ flow[f] \in BusyRecords /\ flow[f].worker = w /\ w \in online
         /\ \A x \in Workers :
               /\ Part(lane[x], lane[x]) /\ Part(uplink'[x], uplink[x])
               /\ ~Within(lane[x], Of(f)) /\ ~Within(uplink'[x], Of(f))
  BY Heard DEF OwnedInv
<1>2. LifecycleInv /\ Poise /\ Wired /\ LifecycleInv' /\ TypeOK /\ TypeOK'
  BY ReceiveResultKept DEF OwnedInv, LifecycleInv
<1>3. Foremost(uplink[w], i)
  BY Oldest DEF ReceiveResult
<1>4. /\ uplink' = [uplink EXCEPT ![w] = Without(@, i)] /\ r = uplink[w][i] /\ r.kind = "result"
      /\ UNCHANGED <<row, links, upload, detached, inst, forsaken, bounds>>
      /\ UNCHANGED <<desired, observed, assigned, online>>
  BY <1>1, <1>3 DEF ReceiveResult, row, links
<1>5. r \in Messages(w)
  BY <1>3, <1>4 DEF Messages, Elems, Foremost
<1>6. Honest'
  BY <1>3, <1>4, HonestHeard
\* What is left on the wires.
<1>7. \A x \in Workers : /\ \A c \in Queued(x) : c.flow # f
                         /\ \A m \in Messages(x)' : m.kind = "result" => m.flow # f
  <2>1. \A x \in Workers : /\ lane[x] \in Seq(CommandRecords)
                           /\ uplink'[x] \in Seq(ResultRecords \cup StatusRecords)
    BY <1>2 DEF TypeOK
  <2> QED BY <1>1, <2>1, InLane, InUplink DEF Queued, Messages
<1>8. /\ uplink[w] \in Seq(ResultRecords \cup StatusRecords)
      /\ uplink'[w] = Without(uplink[w], i)
      /\ \A x \in Workers \ {w} : uplink'[x] = uplink[x]
  BY <1>2, <1>4 DEF TypeOK
<1>9. Attended(f)
  <2>1. /\ Elems(uplink[w]) \subseteq {r} \cup Elems(uplink'[w])
        /\ Elems(uplink'[w]) \subseteq Elems(uplink[w])
    BY <1>3, <1>4, <1>8, LeftBehind DEF Foremost
  <2>2. \A x \in Workers : Messages(x) = Elems(uplink[x]) /\ Messages(x)' = Elems(uplink'[x])
    BY DEF Messages
  <2>3. \A x \in Workers : /\ Messages(x)' \subseteq Messages(x)
                           /\ \A m \in Messages(x) : m = r \/ m \in Messages(x)'
    BY <1>8, <2>1, <2>2
  <2>4. ASSUME NEW x \in Workers PROVE InOrder(uplink'[x], StopAnswers, StartAnswers)
    <3>1. InOrder(uplink[x], StopAnswers, StartAnswers)
      BY <1>2 DEF Wired, StopsInOrder
    <3> QED BY <1>3, <1>8, <3>1, OrderWithout DEF Foremost
  <2> QED BY <1>1, <1>7, <2>3, <2>4 DEF Attended
<1>10. r.op \in {"hydrate", "start", "stop", "snapshot"}
  BY <1>1 DEF Awaits
\* An answer after which f sends nothing.
<1>11. ASSUME NEW q \in FlowRecords, flow' = [flow EXCEPT ![f] = q], UNCHANGED lane,
              q.pc # "launching",
              flow'[f] = q => Eased(f)
       PROVE  OwnedInv'
  <2>1. flow'[f] = q /\ \A g \in Flows \ {f} : flow'[g] = flow[g]
    BY <1>2, <1>11 DEF TypeOK
  <2>2. \A g \in Flows : Eased(g)
    BY <1>11, <2>1 DEF Eased, Alike
  <2>3. Poise'
    BY <1>2, <1>3, <1>4, <1>11, <2>2, EasedHeard
  <2>4. Unheard(f) /\ flow'[f].pc # "launching"
    <3>1. \A x \in Workers : Queued(x)' = Queued(x)
      BY <1>11 DEF Queued
    <3> QED BY <1>7, <1>11, <2>1, <3>1 DEF Unheard
  <2>5. \A g \in Flows : \/ Alike(flow'[g], flow[g]) /\ (uplink[w][i].kind = "result" => uplink[w][i].flow # g)
                         \/ flow'[g].pc # "launching" /\ Unheard(g)
    <3>1. \A g \in Flows \ {f} : Alike(flow'[g], flow[g]) /\ uplink[w][i].flow # g
      BY <1>1, <1>4, <2>1 DEF Alike
    <3> QED BY <2>4, <3>1
  <2> QED BY <1>2, <1>3, <1>4, <1>6, <1>11, <2>3, <2>5, ConsumedOwned
\* And one after which it sends op.
<1>12. ASSUME NEW q \in BusyRecords, NEW op \in {"hydrate", "start"}, q.worker = w, q.op = flow[f].op,
              Dispatch(f, op, q), flow'[f] = q => Eased(f),
              IF op = "start"
              THEN /\ flow[f].pc = "hydrating" /\ q.pc = "launching" /\ q.attempted /\ ~q.skip
              ELSE q.pc # "launching"
       PROVE  OwnedInv'
  <2>1. /\ lane' = [lane EXCEPT ![w] = Append(@, Command(op, f))]
        /\ flow' = [flow EXCEPT ![f] = q]
    BY <1>1, <1>12 DEF Dispatch
  <2>2. flow'[f] = q /\ \A g \in Flows \ {f} : flow'[g] = flow[g]
    BY <1>2, <2>1 DEF TypeOK
  <2>3. /\ Resumed(f) /\ Eased(f)
        /\ IF op = "start"
           THEN /\ Launches(f) /\ flow'[f].attempted
                /\ flow'[f].skip => flow'[f].op # "place"
           ELSE flow'[f].pc # "launching"
    BY <1>1, <1>12, <2>2 DEF Resumed, Launches
  <2>4. UNCHANGED <<desired, assigned, online, detached, inst, forsaken>>
    BY <1>4
  <2> QED BY <1>1, <1>2, <1>6, <1>9, <2>1, <2>2, <2>3, <2>4, SendingOwned
<1>13. CASE r.op = "hydrate" /\ r.status = "ok"
  <2> DEFINE q == [flow[f] EXCEPT !.pc = "launching", !.skip = FALSE, !.attempted = TRUE]
  <2>1. /\ q \in BusyRecords /\ q.pc = "launching" /\ q.worker = w /\ q.op = flow[f].op
        /\ q.attempted /\ ~q.skip
    BY <1>1, Launchers, LaunchersKeep
  <2>2. Dispatch(f, "start", q)
    BY <1>1, <1>13 DEF ReceiveResult, SendStart
  <2>3. flow[f].pc = "hydrating"
    BY <1>1, <1>13 DEF Awaits
  <2> HIDE DEF q
  <2>4. flow'[f] = q => Eased(f)
    BY <1>1, <2>1, <2>3 DEF Eased, Launches, Resumed
  <2> QED BY <1>12, <2>1, <2>2, <2>3, <2>4
<1>14. CASE r.op = "start" /\ r.status = "absent" /\ flow[f].skip
  <2> DEFINE q == [flow[f] EXCEPT !.pc = "hydrating", !.skip = FALSE]
  <2>1. /\ q \in BusyRecords /\ q.pc = "hydrating" /\ q.worker = w /\ q.op = flow[f].op
    BY <1>1, Launchers, LaunchersKeep
  <2>2. Dispatch(f, "hydrate", q)
    BY <1>1, <1>14 DEF ReceiveResult, SendHydrate
  <2>3. flow[f].pc = "launching" /\ Starter(f)
    BY <1>1, <1>14 DEF Awaits, Starter
  <2>4. flow[f].op \in {"start", "redispatch"}
    BY <1>2, <1>14, <2>3 DEF Wired, LaunchesPending, Poise, StartOps, Starting
  <2>5. flow[f].op # "redispatch" => Calm(w)
    BY <1>1, <1>5, <1>14, <2>4, RefusalCalm
  <2>6. \A g \in Flows : ~Converging(g)
    BY <1>2, <1>14, <2>3 DEF Poise, ConvergeAlone
  <2> HIDE DEF q
  <2>7. flow'[f] = q => Eased(f)
    BY <1>1, <2>1, <2>3, <2>5, <2>6 DEF Eased, Resumed
  <2> QED BY <1>12, <2>1, <2>2, <2>7
<1>15. CASE r.op = "start" /\ r.status = "ok"
  <2>1. Idle \in FlowRecords /\ Idle.pc = "idle"
    BY <1>2, FlowsTyped
  <2>2. flow' = [flow EXCEPT ![f] = Idle] /\ UNCHANGED lane
    BY <1>1, <1>15 DEF ReceiveResult, Finish
  <2>3. flow'[f] = Idle => Eased(f)
    BY <2>1 DEF Eased
  <2> QED BY <1>11, <2>1, <2>2, <2>3
<1>16. CASE \/ r.op = "hydrate" /\ r.status # "ok"
            \/ r.op = "start" /\ r.status # "ok" /\ ~(r.status = "absent" /\ flow[f].skip)
  <2> DEFINE q == Refused(flow[f], r.status)
  <2>1. /\ q \in FlowRecords
        /\ q = Idle \/ (q.worker = flow[f].worker /\ q.pc \in {"converge", "revert"})
    BY <1>1, RefusedFlows
  <2>2. /\ q.pc = "revert" => q.op = flow[f].op /\ flow[f].op \in {"start", "place"}
        /\ q.pc \in {"idle", "converge", "revert"}
    BY <1>1, <2>1 DEF Refused, BusyRecords, Idle
  <2>3. flow' = [flow EXCEPT ![f] = q] /\ UNCHANGED lane
    BY <1>1, <1>16 DEF ReceiveResult
  <2>4. q.pc = "revert" => Calm(w)
    BY <1>1, <1>5, <1>16, <2>2, RefusalCalm
  <2>5. Starter(f)
    BY <1>1, <1>16 DEF Awaits, Starter
  <2> HIDE DEF q
  <2>6. q.pc = "revert" => q.worker = w
    BY <1>1, <2>1 DEF Idle
  <2>7. flow'[f] = q => Eased(f)
    BY <1>1, <2>2, <2>4, <2>5, <2>6 DEF Eased, Resumed
  <2> QED BY <1>11, <2>1, <2>2, <2>3, <2>7
<1>17. CASE r.op = "stop"
  <2> DEFINE q == StopAnswered(flow[f], r.status)
  <2>1. /\ q \in FlowRecords
        /\ q = Idle \/ (q.worker = flow[f].worker /\ q.pc \in {"confirmed", "gone"})
    BY <1>1, StopAnsweredFlows
  <2>2. q.pc \in {"confirmed", "gone"} => r.status \in {"ok", "notfound"}
    BY DEF StopAnswered, Idle
  <2>3. q.pc \in {"idle", "confirmed", "gone"}
    BY <2>1 DEF Idle
  <2>4. flow' = [flow EXCEPT ![f] = q] /\ UNCHANGED lane
    BY <1>1, <1>17 DEF ReceiveResult
  <2>5. r.status \in {"ok", "notfound"} => r \in StopAnswers
    BY <1>1, <1>17 DEF StopAnswers
  <2>6. q.pc \in {"confirmed", "gone"} => /\ q.worker = w /\ Calm(w)
                                          /\ \A g \in Flows : ~Starter(g)
    <3>1. q.pc \in {"confirmed", "gone"} => q.worker = w
      BY <1>1, <2>1 DEF Idle
    <3>2. r \in StopAnswers => Cold(w) /\ \A g \in Flows : ~Starter(g)
      BY <1>1, <1>3, <1>4, <1>17, ConfirmedCalm
    <3> QED BY <2>2, <2>5, <3>1, <3>2 DEF Calm
  <2> HIDE DEF q
  <2>7. flow'[f] = q => Eased(f)
    BY <2>3, <2>6 DEF Eased, StopPcs
  <2> QED BY <1>11, <2>1, <2>3, <2>4, <2>7
<1>18. CASE r.op = "snapshot"
  <2> DEFINE q == Lost(flow[f], FALSE)
  <2>1. flow[f].pc = "uploading"
    BY <1>1, <1>18 DEF Awaits
  <2>2. /\ q \in FlowRecords
        /\ q.pc = "idle" \/ (q.pc = "release" /\ q.release /\ q.worker = w)
    BY <1>1, <2>1, LostFlows DEF Lost, Unsent, Settled, BusyRecords, Idle
  <2>3. flow' = [flow EXCEPT ![f] = q] /\ UNCHANGED lane
    BY <1>1, <1>18 DEF ReceiveResult
  <2>4. Calm(w) /\ \A g \in Flows : ~Starter(g)
    BY <1>1, <1>2, <2>1 DEF Poise, CalmAnswers, ConvergeAlone, Converging, StopPcs
  <2> HIDE DEF q
  <2>5. flow'[f] = q => Eased(f)
    BY <2>2, <2>4 DEF Eased, StopPcs
  <2> QED BY <1>11, <2>2, <2>3, <2>5
<1> QED BY <1>10, <1>13, <1>14, <1>15, <1>16, <1>17, <1>18

-----------------------------------------------------------------------------
(* Steps of a worker.                                                        *)

\* What the status changes of a step say of the process.
LEMMA Sayings ==
  /\ Mute(<<>>) /\ \A s : SaysGone(s) => ~Mute(s)
  /\ \A s \in States : ~Mute(<<Status(s)>>) /\ (SaysGone(<<Status(s)>>) => IsGone(s))
  /\ ~Mute(StatusesOfStop \o <<Status("starting")>>)
  /\ ~SaysGone(StatusesOfStop \o <<Status("starting")>>)
<1>1. Mute(<<>>) /\ \A s : SaysGone(s) => ~Mute(s)
  BY DEF Mute, SaysGone
<1>2. ASSUME NEW s \in States
      PROVE  ~Mute(<<Status(s)>>) /\ (SaysGone(<<Status(s)>>) => IsGone(s))
  <2> DEFINE m == Status(s)
             t == <<m>>
  <2>1. m.kind = "status" /\ m.state = s
    BY DEF Status
  <2> HIDE DEF m
  <2>2. Len(t) = 1 /\ t[1] = m /\ 1 \in 1 .. Len(t) /\ \A i \in 1 .. Len(t) : i = 1
    OBVIOUS
  <2> HIDE DEF t
  <2>3. ~Mute(t) /\ (SaysGone(t) => IsGone(s))
    BY <2>1, <2>2 DEF Mute, SaysGone
  <2> QED BY <2>3 DEF t, m
<1>3. "starting" \in States /\ ~IsGone("starting")
  BY DEF States, IsGone
<1>4. StatusesOfStop \in Seq(StatusRecords) /\ <<Status("starting")>> \in Seq(StatusRecords)
  BY <1>3, StatusSequences
<1> QED BY <1>1, <1>2, <1>3, <1>4, LastJoined

\* A command leaves a process behind only if it says so or found one, starts one only
\* as a start, and is refused under a detached command's reservation.
LEMMA OutcomesTell ==
  ASSUME TypeOK, NEW w \in Workers, NEW op \in {"hydrate", "start", "stop", "restart"},
         NEW o \in Outcomes(w, op)
  PROVE  /\ o.to # "none" => IF Mute(o.emits) THEN Alive(w) ELSE ~SaysGone(o.emits)
         /\ ~Alive(w) /\ op # "start" => o.to = "none"
         /\ detached[w] # "none" => o.to = inst[w] /\ o.status = "busy"
         /\ op = "stop" /\ o.status \in {"ok", "notfound"} => o.to = "none"
         /\ op = "start" /\ o.status \notin {"ok", "invalid", "busy"} => o.to = "none"
<1>1. \A p, e, a : /\ Outcome(p, e, a).to = p /\ Outcome(p, e, a).emits = e
                   /\ Outcome(p, e, a).status = a
  BY DEF Outcome
<1>2. \A a : /\ Unmoved(w, a).to = inst[w] /\ Unmoved(w, a).emits = <<>>
             /\ Unmoved(w, a).status = a
  BY <1>1 DEF Unmoved
<1>3. /\ Mute(<<>>)
      /\ ~Mute(<<Status("starting")>>) /\ ~SaysGone(<<Status("starting")>>)
      /\ ~Mute(<<Status("stopping")>>) /\ ~SaysGone(<<Status("stopping")>>)
      /\ ~Mute(StatusesOfStop \o <<Status("starting")>>)
      /\ ~SaysGone(StatusesOfStop \o <<Status("starting")>>)
  BY Sayings DEF States, IsGone
<1>4. Up(w) => Alive(w)
  BY DEF Up, Alive
<1>5. CASE detached[w] # "none"
  <2>1. o = Unmoved(w, "busy")
    BY <1>5 DEF Outcomes
  <2> QED BY <1>2, <1>3, <2>1 DEF Alive
<1>6. CASE detached[w] = "none" /\ op = "hydrate"
  <2>1. \E a \in {"ok", "failed", "invalid", "busy"} : o = Unmoved(w, a)
    BY <1>6 DEF Outcomes, HydrateOutcomes, Reserved
  <2> QED BY <1>2, <1>3, <1>6, <2>1 DEF Alive
<1>7. CASE detached[w] = "none" /\ op = "start"
  <2>1. \/ \E a \in {"failed", "absent"} : o = Unmoved(w, a) /\ ~Alive(w)
        \/ \E a \in {"invalid", "busy"} : o = Unmoved(w, a)
        \/ o = Outcome("starting", <<Status("starting")>>, "ok")
    BY <1>7 DEF Outcomes, StartOutcomes, Reserved
  <2> QED BY <1>1, <1>2, <1>3, <1>7, <2>1 DEF Alive
<1>8. CASE detached[w] = "none" /\ op = "stop"
  <2>1. \/ o = Unmoved(w, "notfound") /\ ~Alive(w)
        \/ o = Outcome("none", StatusesOfStop, "ok")
        \/ o = Outcome("orphan", <<Status("stopping")>>, "failed") /\ Alive(w)
    BY <1>8 DEF Outcomes, StopOutcomes
  <2> QED BY <1>1, <1>2, <1>3, <1>8, <2>1 DEF Alive
<1>9. CASE detached[w] = "none" /\ op = "restart"
  <2>1. \/ o = Unmoved(w, "refused")
        \/ o = Outcome("starting", StatusesOfStop \o <<Status("starting")>>, "ok") /\ Alive(w)
        \/ o = Outcome("none", StatusesOfStop, "failed")
        \/ o = Outcome("orphan", <<Status("stopping")>>, "failed") /\ Alive(w)
    BY <1>4, <1>9 DEF Outcomes, RestartOutcomes
  <2> QED BY <1>1, <1>2, <1>3, <1>9, <2>1 DEF Alive
<1> QED BY <1>5, <1>6, <1>7, <1>8, <1>9

\* w is done with the head of its lane, and says t.
LEMMA AnsweredOwned ==
  ASSUME OwnedInv, LifecycleInv', UNCHANGED <<row, flow, online, detached, forsaken>>,
         NEW w \in Workers, lane[w] # <<>>, NEW c, c = Head(lane[w]),
         NEW t \in Seq(ResultRecords \cup StatusRecords),
         lane' = [lane EXCEPT ![w] = Tail(@)], uplink' = [uplink EXCEPT ![w] = @ \o t],
         \A x \in Workers \ {w} : inst'[x] = inst[x],
         Cold(w) => ~Alive(w)', detached[w] = "stop" /\ Alive(w) => Alive(w)',
         \A m \in Elems(t) : m.kind = "result" => m.op = c.op /\ m.flow = c.flow,
         c.op = "start" /\ c.flow \in Flows => \E m \in Elems(t) : m.kind = "result",
         \A m \in Elems(t) : m \in StopAnswers \/ Refusals(m) => ~Alive(w)' /\ detached[w] # "start",
         Alive(w)' => IF Mute(t) THEN Alive(w) ELSE ~SaysGone(t)
  PROVE  OwnedInv'
<1>1. /\ LifecycleInv /\ Poise /\ Wired /\ Honest /\ DetachedStops
      /\ UNCHANGED <<desired, observed, assigned>>
  BY DEF OwnedInv, row
<1>2. Wired'
  BY <1>1, WiredAnswered
<1>3. \A x \in Workers : lane[x] \in Seq(CommandRecords) /\ uplink[x] \in Seq(ResultRecords \cup StatusRecords)
  BY <1>1 DEF LifecycleInv, TypeOK
<1>4. /\ \A x \in Workers \ {w} : lane'[x] = lane[x] /\ uplink'[x] = uplink[x]
      /\ lane'[w] = Tail(lane[w]) /\ uplink'[w] = uplink[w] \o t
  BY <1>1 DEF LifecycleInv, TypeOK
<1>5. /\ Elems(lane'[w]) \subseteq Elems(lane[w]) /\ c \in Elems(lane[w])
      /\ Elems(uplink'[w]) = Elems(uplink[w]) \cup Elems(t)
  <2>1. lane[w] \in Seq(CommandRecords) /\ uplink[w] \in Seq(ResultRecords \cup StatusRecords)
    BY <1>3
  <2>2. Elems(Tail(lane[w])) \subseteq Elems(lane[w]) /\ c \in Elems(lane[w])
    BY <2>1, LeftBehind, Shortened
  <2>3. Elems(uplink[w] \o t) = Elems(uplink[w]) \cup Elems(t)
    BY <2>1, Joined
  <2> QED BY <1>4, <2>2, <2>3
<1>6. /\ \A x \in Workers : Queued(x) = Elems(lane[x]) /\ Queued(x)' = Elems(lane'[x])
      /\ \A x \in Workers : Messages(x) = Elems(uplink[x]) /\ Messages(x)' = Elems(uplink'[x])
  BY DEF Queued, Messages
<1>7. /\ \A x \in Workers : Queued(x)' \subseteq Queued(x)
      /\ \A x \in Workers \ {w} : Messages(x)' = Messages(x)
      /\ Messages(w)' = Messages(w) \cup Elems(t) /\ c \in Queued(w)
  BY <1>4, <1>5, <1>6
<1>8. \A x \in Workers : Cold(x) => Cold(x)'
  BY <1>7 DEF Cold, Alive
<1>9. \A x \in Workers : SnapshotAt(x)' => SnapshotAt(x)
  BY <1>7 DEF SnapshotAt
<1>10. \A g \in Flows : Eased(g)
  BY DEF Eased, Alike
<1>11. Poise'
  BY <1>1, <1>8, <1>9, <1>10, Poised
<1>12. Honest'
  <2>1. \A x \in Workers \ {w} : Alive(x)' => Alive(x)
    BY DEF Alive
  <2>2. w \in DOMAIN uplink /\ uplink[w] \in Seq(ResultRecords \cup StatusRecords)
    BY <1>1 DEF LifecycleInv, TypeOK
  <2> QED BY <1>1, <2>1, <2>2, HonestTold
<1>13. DetachedStops'
  BY <1>1 DEF DetachedStops, Alive
<1> QED BY <1>2, <1>11, <1>12, <1>13 DEF OwnedInv

LEMMA ExecuteOwned ==
  ASSUME OwnedInv, NEW w \in Workers, Execute(w)
  PROVE  OwnedInv'
<1>1. TypeOK /\ lane[w] # <<>> /\ lane[w] \in Seq(CommandRecords) /\ LifecycleInv' /\ DetachedStops
  BY ExecuteKept DEF OwnedInv, LifecycleInv, TypeOK, Execute
<1>2. PICK c \in CommandRecords : c = Head(lane[w])
  BY <1>1, Shortened
<1>3. c.op \in {"hydrate", "start", "stop", "restart"} /\ c.op \in Verbs /\ c.flow \in Awaiters
  BY <1>2 DEF Execute, CommandRecords, Verbs
<1>4. PICK o \in Outcomes(w, c.op) : Becomes(w, o.to) /\ Tell(w, o.emits \o Answer(c, o.status))
  BY <1>2 DEF Execute
<1>5. /\ o.to \in Processes /\ o.emits \in Seq(StatusRecords) /\ o.status \in Answers
      /\ o.to # "none" => IF Mute(o.emits) THEN Alive(w) ELSE ~SaysGone(o.emits)
      /\ ~Alive(w) /\ c.op # "start" => o.to = "none"
      /\ detached[w] # "none" => o.to = inst[w] /\ o.status = "busy"
      /\ c.op = "stop" /\ o.status \in {"ok", "notfound"} => o.to = "none"
      /\ c.op = "start" /\ o.status \notin {"ok", "invalid", "busy"} => o.to = "none"
  BY <1>1, <1>3, OutcomesTyped, OutcomesTell
<1> DEFINE m == Result(c.op, c.flow, o.status)
           a == Answer(c, o.status)
           t == o.emits \o a
<1>6. /\ m \in ResultRecords /\ m.kind = "result" /\ m.op = c.op /\ m.flow = c.flow
      /\ m.status = o.status
  BY <1>3, <1>5 DEF Result, ResultRecords, Answers
<1>7. /\ a \in Seq(ResultRecords \cup StatusRecords) /\ Elems(a) \subseteq {m} /\ Mute(a)
      /\ c.flow # NoFlow => m \in Elems(a)
  <2>1. IF c.flow = NoFlow THEN a = <<>> ELSE a = <<m>>
    BY DEF Answer
  <2> HIDE DEF m, a
  <2>2. CASE a = <<>>
    BY <2>1, <2>2 DEF Elems, Mute
  <2>3. CASE a = <<m>>
    <3>1. a \in Seq(ResultRecords \cup StatusRecords) /\ Len(a) = 1 /\ a[1] = m
      BY <1>6, <2>3
    <3>2. 1 \in 1 .. Len(a) /\ \A i \in 1 .. Len(a) : i = 1
      BY <3>1
    <3> QED BY <1>6, <3>1, <3>2 DEF Elems, Mute
  <2> QED BY <2>1, <2>2, <2>3
<1>8. o.emits \in Seq(ResultRecords \cup StatusRecords) /\ \A n \in Elems(o.emits) : n.kind = "status"
  <2> DEFINE e == o.emits
  <2>1. e \in Seq(StatusRecords)
    BY <1>5
  <2> HIDE DEF e
  <2>2. e \in Seq(ResultRecords \cup StatusRecords) /\ \A i \in 1 .. Len(e) : e[i] \in StatusRecords
    BY <2>1
  <2> QED BY <2>2, Kinds DEF Elems, e
<1> HIDE DEF a, m
<1>9. /\ t \in Seq(ResultRecords \cup StatusRecords) /\ Elems(t) = Elems(o.emits) \cup Elems(a)
      /\ SaysGone(t) => SaysGone(o.emits)
      /\ Mute(t) => Mute(o.emits)
  BY <1>7, <1>8, Joined, LastJoined
<1>10. uplink' = [uplink EXCEPT ![w] = @ \o t] /\ lane' = [lane EXCEPT ![w] = Tail(@)]
  BY <1>4 DEF Tell, Execute, a
<1> HIDE DEF t
<1>11. UNCHANGED <<row, flow, online, detached, forsaken>> /\ inst' = [inst EXCEPT ![w] = o.to]
  BY <1>4 DEF Execute, Becomes, links
<1>12. (Alive(w)' <=> o.to # "none") /\ \A x \in Workers \ {w} : inst'[x] = inst[x]
  BY <1>1, <1>11 DEF TypeOK, Alive
<1>13. Cold(w) => ~Alive(w)'
  BY <1>1, <1>2, <1>5, <1>12, Shortened DEF Cold, Queued
<1>14. detached[w] = "stop" /\ Alive(w) => Alive(w)'
  BY <1>5, <1>12 DEF Alive
<1>15. \A n \in Elems(t) : n.kind = "result" => n = m
  BY <1>7, <1>8, <1>9
<1>16. c.op = "start" /\ c.flow \in Flows => \E n \in Elems(t) : n.kind = "result"
  BY <1>6, <1>7, <1>9, IdsAssumption
<1>17. ASSUME NEW n \in Elems(t), n \in StopAnswers \/ Refusals(n)
       PROVE  ~Alive(w)' /\ detached[w] # "start"
  <2>1. n = m
    BY <1>15, <1>17, Kinds DEF StopAnswers, Refusals
  <2>2. \/ c.op = "stop" /\ o.status \in {"ok", "notfound"}
        \/ c.op = "start" /\ o.status \notin {"ok", "invalid", "busy"}
    BY <1>6, <1>17, <2>1 DEF StopAnswers, Refusals
  <2> QED BY <1>5, <1>12, <2>2
<1>18. Alive(w)' => IF Mute(t) THEN Alive(w) ELSE ~SaysGone(t)
  BY <1>5, <1>9, <1>12, Sayings
<1>19. \A n \in Elems(t) : n.kind = "result" => n.op = c.op /\ n.flow = c.flow
  BY <1>6, <1>15
<1>20. \A n \in Elems(t) : n \in StopAnswers \/ Refusals(n) => ~Alive(w)' /\ detached[w] # "start"
  BY <1>17
<1>21. /\ OwnedInv /\ LifecycleInv' /\ w \in Workers /\ lane[w] # <<>> /\ c = Head(lane[w])
       /\ UNCHANGED <<row, flow, online, detached, forsaken>>
       /\ t \in Seq(ResultRecords \cup StatusRecords)
       /\ \A x \in Workers \ {w} : inst'[x] = inst[x]
  BY <1>1, <1>2, <1>9, <1>11, <1>12
<1> QED BY ONLY <1>10, <1>13, <1>14, <1>16, <1>18, <1>19, <1>20, <1>21, AnsweredOwned

LEMMA EndUploadOwned ==
  ASSUME OwnedInv, NEW w \in Workers, EndUpload(w)
  PROVE  OwnedInv'
<1>1. TypeOK /\ lane[w] # <<>> /\ lane[w] \in Seq(CommandRecords) /\ LifecycleInv' /\ DetachedStops
  BY EndUploadKept DEF OwnedInv, LifecycleInv, TypeOK, EndUpload
<1>2. PICK c \in CommandRecords : c = Head(lane[w])
  BY <1>1, Shortened
<1>3. c.op = "snapshot" /\ c.flow \in Awaiters
  BY <1>2 DEF EndUpload, CommandRecords
<1> DEFINE m == Result("snapshot", c.flow, "done")
           t == <<m>>
<1>4. m \in ResultRecords /\ m.op = c.op /\ m.flow = c.flow /\ m.kind = "result"
  BY <1>3 DEF Result, ResultRecords, Verbs
<1>5. uplink' = [uplink EXCEPT ![w] = @ \o t] /\ lane' = [lane EXCEPT ![w] = Tail(@)]
  BY <1>2 DEF EndUpload, Tell
<1> HIDE DEF m
<1>6. t \in Seq(ResultRecords \cup StatusRecords) /\ Elems(t) = {m} /\ Mute(t)
  <2>1. t \in Seq(ResultRecords \cup StatusRecords) /\ Len(t) = 1 /\ t[1] = m
    BY <1>4
  <2>2. 1 \in 1 .. Len(t) /\ \A i \in 1 .. Len(t) : i = 1
    BY <2>1
  <2> HIDE DEF t
  <2> QED BY <1>4, <2>1, <2>2 DEF Elems, Mute
<1> HIDE DEF t
<1>7. UNCHANGED <<row, flow, online, detached, inst, forsaken>>
  BY DEF EndUpload, links
<1>8. Alive(w)' <=> Alive(w)
  BY <1>7 DEF Alive
<1>9. \A n \in Elems(t) : ~(n \in StopAnswers \/ Refusals(n))
  BY <1>3, <1>4, <1>6 DEF StopAnswers, Refusals
<1> QED BY <1>1, <1>2, <1>3, <1>4, <1>5, <1>6, <1>7, <1>8, <1>9, AnsweredOwned DEF Cold

\* A worker says t, and nothing of a command; or starts over with no more than t to say.
LEMMA SaidOwned ==
  ASSUME OwnedInv, LifecycleInv', UNCHANGED <<row, flow, lane, forsaken>>, online \subseteq online',
         NEW w \in Workers, NEW t \in Seq(StatusRecords),
         \A x \in Workers \ {w} : inst'[x] = inst[x] /\ detached'[x] = detached[x],
         Cold(w) => ~Alive(w)' /\ detached'[w] # "start",
         detached'[w] = "stop" => Alive(w)',
         \/ /\ uplink' = [uplink EXCEPT ![w] = @ \o t]
            /\ Alive(w)' => IF Mute(t) THEN Alive(w) ELSE ~SaysGone(t)
         \/ uplink' = [uplink EXCEPT ![w] = t] /\ w \notin online /\ ~Alive(w)'
  PROVE  OwnedInv'
<1>1. /\ LifecycleInv /\ Poise /\ Wired /\ Honest /\ DetachedStops /\ TypeOK /\ TypeOK'
      /\ UNCHANGED <<desired, observed, assigned>>
  BY DEF OwnedInv, LifecycleInv, row
<1>2. /\ \A x \in Workers : uplink[x] \in Seq(ResultRecords \cup StatusRecords)
      /\ \A x \in Workers \ {w} : uplink'[x] = uplink[x]
      /\ uplink'[w] \in {uplink[w] \o t, t}
      /\ w \in online => uplink'[w] = uplink[w] \o t
  BY <1>1 DEF TypeOK
<1>3. t \in Seq(ResultRecords \cup StatusRecords) /\ \A m \in Elems(t) : m.kind = "status"
  <2>1. \A i \in 1 .. Len(t) : t[i] \in StatusRecords
    OBVIOUS
  <2> QED BY <2>1, Kinds, Told, <1>2 DEF Elems
<1>4. Elems(uplink[w] \o t) = Elems(uplink[w]) \cup Elems(t)
  <2>1. uplink[w] \in Seq(ResultRecords \cup StatusRecords)
    BY <1>2
  <2> QED BY <1>3, <2>1, Joined
<1>5. /\ \A x \in Workers : Messages(x) = Elems(uplink[x]) /\ Messages(x)' = Elems(uplink'[x])
      /\ \A x \in Workers : Queued(x)' = Queued(x)
  BY DEF Messages, Queued
<1>6. /\ \A x \in Workers : \A m \in Messages(x)' : m.kind = "result" => m \in Messages(x)
      /\ \A x \in Workers : x \in online => Messages(x) \subseteq Messages(x)'
  <2>1. \A x \in Workers \ {w} : Messages(x)' = Messages(x)
    BY <1>2, <1>5
  <2>2. \A m \in Elems(uplink'[w]) : m.kind = "result" => m \in Elems(uplink[w])
    BY <1>2, <1>3, <1>4
  <2>3. w \in online => Elems(uplink[w]) \subseteq Elems(uplink'[w])
    BY <1>2, <1>4
  <2> QED BY <1>5, <2>1, <2>2, <2>3
<1>7. \A x \in Workers : Cold(x) => Cold(x)'
  BY <1>5 DEF Cold, Alive
<1>8. \A x \in Workers : SnapshotAt(x)' => SnapshotAt(x)
  BY <1>5, <1>6 DEF SnapshotAt
<1>9. \A g \in Flows : Eased(g) /\ Alike(flow'[g], flow[g])
  BY DEF Eased, Alike
<1>10. Poise'
  BY <1>1, <1>7, <1>8, <1>9, Poised
<1>11. StopsInOrder'
  <2> SUFFICES ASSUME NEW x \in Workers
               PROVE  /\ InOrder(lane'[x], AwaitedStops, QueuedStarts)
                      /\ InOrder(uplink'[x], StopAnswers, StartAnswers)
    BY DEF StopsInOrder
  <2>1. InOrder(lane[x], AwaitedStops, QueuedStarts) /\ InOrder(uplink[x], StopAnswers, StartAnswers)
    BY <1>1 DEF Wired, StopsInOrder
  <2>2. CASE x # w
    BY <1>2, <2>1, <2>2
  <2>3. CASE x = w
    <3>1. ~Within(t, StartAnswers) /\ ~Within(t, StopAnswers)
      BY <1>3, Kinds DEF Within, StartAnswers, StopAnswers, Elems
    <3>2. InOrder(t, StopAnswers, StartAnswers)
      BY <3>1, NothingInOrder
    <3>3. uplink[w] \in Seq(ResultRecords \cup StatusRecords) /\ InOrder(uplink[w], StopAnswers, StartAnswers)
      BY <1>2, <2>1, <2>3
    <3>4. InOrder(uplink[w] \o t, StopAnswers, StartAnswers)
      BY <1>3, <3>1, <3>2, <3>3, OrderJoined
    <3> QED BY <1>2, <2>1, <2>3, <3>2, <3>4
  <2> QED BY <2>2, <2>3
<1>12. ASSUME NEW g \in Flows, flow[g].pc = "launching"
       PROVE  flow[g].worker \in online' /\ StartPending(g)'
  <2>1. flow[g].worker \in online /\ StartPending(g) /\ flow'[g].worker = flow[g].worker
    BY <1>1, <1>12 DEF Wired, LaunchesPending
  <2>2. flow[g].worker \in Workers
    BY <1>1, <2>1 DEF TypeOK
  <2> QED BY <1>5, <1>6, <2>1, <2>2 DEF StartPending
<1>13. Wired'
  <2>1. \A x \in Workers : \A c \in Queued(x)' :
            \/ c \in Queued(x)
            \/ /\ c.flow \notin Flows
               /\ c.op = "start" => \E d \in Queued(x) : d.op = "start" /\ d.flow \in Flows /\ Unheard(d.flow)
    BY <1>5
  <2>2. \A x \in Workers : \A m \in Messages(x)' :
            m.kind = "result" => m \in Messages(x) \/ m.flow \notin Flows
    BY <1>6
  <2>3. \A g \in Flows : \/ Unheard(g) /\ flow'[g].pc # "launching"
                         \/ /\ Alike(flow'[g], flow[g])
                            /\ flow[g].pc = "launching" => flow[g].worker \in online' /\ StartPending(g)'
    BY <1>9, <1>12
  <2> QED BY <1>1, <1>7, <1>11, <2>1, <2>2, <2>3, WiredStill
<1>14. Honest'
  <2>1. \A x \in Workers \ {w} : Alive(x)' <=> Alive(x)
    BY DEF Alive
  <2>2. CASE uplink' = [uplink EXCEPT ![w] = @ \o t] /\ (Alive(w)' => IF Mute(t) THEN Alive(w) ELSE ~SaysGone(t))
    <3>1. w \in DOMAIN uplink /\ uplink[w] \in Seq(ResultRecords \cup StatusRecords)
      BY <1>1 DEF TypeOK
    <3> QED BY <1>1, <1>3, <2>1, <2>2, <3>1, HonestTold
  <2>3. CASE ~Alive(w)'
    BY <1>1, <1>2, <2>1, <2>3 DEF Honest
  <2> QED BY <2>2, <2>3
<1>15. DetachedStops'
  BY <1>1 DEF DetachedStops, Alive
<1> QED BY <1>1, <1>10, <1>13, <1>14, <1>15 DEF OwnedInv

\* The process of w becomes p, and w reports s.
LEMMA ReportedOwned ==
  ASSUME OwnedInv, LifecycleInv', NEW w \in Workers, NEW p \in Processes, NEW s \in States,
         Becomes(w, p), Tell(w, <<Status(s)>>), detached[w] = "none",
         p # "none" => Alive(w) /\ ~IsGone(s),
         UNCHANGED <<row, flow, links, lane, detached>>
  PROVE  OwnedInv'
<1>1. PICK t \in Seq(StatusRecords) : t = <<Status(s)>>
  BY StatusSequences
<1>2. uplink' = [uplink EXCEPT ![w] = @ \o t] /\ ~Mute(t) /\ (SaysGone(t) => IsGone(s))
  BY <1>1, Sayings DEF Tell
<1>3. /\ \A x \in Workers \ {w} : inst'[x] = inst[x] /\ detached'[x] = detached[x]
      /\ Alive(w)' <=> p # "none"
      /\ UNCHANGED <<online, forsaken>>
  BY DEF OwnedInv, LifecycleInv, TypeOK, Becomes, Alive, links
<1> QED BY <1>2, <1>3, SaidOwned DEF Cold

LEMMA ReadyOwned ==
  ASSUME OwnedInv, NEW w \in Workers, Ready(w)
  PROVE  OwnedInv'
<1>1. "running" \in Processes /\ "running" \in States /\ ~IsGone("running")
  BY DEF Processes, States, IsGone
<1> QED BY <1>1, ReadyKept, ReportedOwned DEF Ready, OwnedInv, Alive

LEMMA CrashOwned ==
  ASSUME OwnedInv, NEW w \in Workers, Crash(w)
  PROVE  OwnedInv'
<1>1. "none" \in Processes /\ "crashed" \in States
  BY DEF Processes, States
<1> QED BY <1>1, CrashKept, ReportedOwned DEF Crash, OwnedInv

LEMMA OrphanDiesOwned ==
  ASSUME OwnedInv, NEW w \in Workers, OrphanDies(w)
  PROVE  OwnedInv'
<1>1. "none" \in Processes /\ "stopped" \in States
  BY DEF Processes, States
<1> QED BY <1>1, OrphanDiesKept, ReportedOwned DEF OrphanDies, OwnedInv

LEMMA DetachedEndsOwned ==
  ASSUME OwnedInv, NEW w \in Workers, DetachedEnds(w)
  PROVE  OwnedInv'
<1>1. TypeOK /\ LifecycleInv' /\ DetachedStops
  BY DetachedEndsKept DEF OwnedInv, LifecycleInv
<1>2. PICK p \in Processes, t \in Seq(StatusRecords) :
         /\ Becomes(w, p) /\ Tell(w, t)
         /\ p # "none" => ~Mute(t) /\ ~SaysGone(t) /\ detached[w] \in {"start", "stop"}
  <2>1. \A s \in States : <<Status(s)>> \in Seq(StatusRecords) /\ ~Mute(<<Status(s)>>) /\ (SaysGone(<<Status(s)>>) => IsGone(s))
    BY StatusSequences, Sayings
  <2>2. {"none", "starting", "orphan"} \subseteq Processes /\ {"starting", "stopping"} \subseteq States
        /\ ~IsGone("starting") /\ ~IsGone("stopping")
    BY DEF Processes, States, IsGone
  <2>3. <<>> \in Seq(StatusRecords) /\ <<Status("stopping"), Status("stopped")>> \in Seq(StatusRecords)
    BY StatusSequences DEF StatusesOfStop
  <2>4. CASE detached[w] = "start"
    <3>1. \E o \in {[to |-> "starting", emits |-> <<Status("starting")>>],
                    [to |-> "none", emits |-> <<>>]} : Becomes(w, o.to) /\ Tell(w, o.emits)
      BY <2>4 DEF DetachedEnds
    <3>2. \/ Becomes(w, "starting") /\ Tell(w, <<Status("starting")>>)
          \/ Becomes(w, "none") /\ Tell(w, <<>>)
      BY <3>1
    <3> QED BY <2>1, <2>2, <2>3, <2>4, <3>2
  <2>5. CASE detached[w] = "stop"
    <3>1. \E o \in {[to |-> "none", emits |-> <<Status("stopping"), Status("stopped")>>],
                    [to |-> "orphan", emits |-> <<Status("stopping")>>]} :
             Becomes(w, o.to) /\ Tell(w, o.emits)
      BY <2>5 DEF DetachedEnds
    <3>2. \/ Becomes(w, "none") /\ Tell(w, <<Status("stopping"), Status("stopped")>>)
          \/ Becomes(w, "orphan") /\ Tell(w, <<Status("stopping")>>)
      BY <3>1
    <3> QED BY <2>1, <2>2, <2>3, <2>5, <3>2
  <2>6. CASE detached[w] = "hydrate"
    <3>1. \E o \in {[to |-> "none", emits |-> <<>>]} : Becomes(w, o.to) /\ Tell(w, o.emits)
      BY <2>6 DEF DetachedEnds
    <3>2. Becomes(w, "none") /\ Tell(w, <<>>)
      BY <3>1
    <3> QED BY <2>2, <2>3, <3>2
  <2>7. detached[w] \in {"hydrate", "start", "stop"}
    BY <1>1 DEF DetachedEnds, TypeOK
  <2> QED BY <2>4, <2>5, <2>6, <2>7
<1>3. /\ \A x \in Workers \ {w} : inst'[x] = inst[x] /\ detached'[x] = detached[x]
      /\ (Alive(w)' <=> p # "none") /\ detached'[w] = "none"
      /\ uplink' = [uplink EXCEPT ![w] = @ \o t]
      /\ UNCHANGED <<row, flow, lane, online, forsaken>>
  BY <1>1, <1>2 DEF TypeOK, Becomes, Alive, DetachedEnds, Tell, links
<1>4. Cold(w) => p = "none"
  BY <1>1, <1>2 DEF Cold, DetachedStops
<1> QED BY <1>1, <1>2, <1>3, <1>4, SaidOwned

LEMMA ReconnectOwned ==
  ASSUME OwnedInv, NEW w \in Workers, Reconnect(w)
  PROVE  OwnedInv'
<1>1. TypeOK /\ LifecycleInv' /\ DetachedStops
  BY ReconnectKept DEF OwnedInv, LifecycleInv
<1>2. PICK t \in Seq(StatusRecords) : Tell(w, t) /\ ~SaysGone(t)
  <2>1. "unknown" \in States /\ ~IsGone("unknown") /\ (Up(w) => inst[w] \in States /\ ~IsGone(inst[w]))
    BY <1>1 DEF TypeOK, States, Up, IsGone
  <2>2. \A s \in States : <<Status(s)>> \in Seq(StatusRecords) /\ (SaysGone(<<Status(s)>>) => IsGone(s))
    BY StatusSequences, Sayings
  <2>3. <<>> \in Seq(StatusRecords) /\ ~SaysGone(<<>>)
    BY StatusSequences, Sayings
  <2>4. \/ Tell(w, <<Status("unknown")>>)
        \/ Up(w) /\ Tell(w, <<Status(inst[w])>>)
        \/ Tell(w, <<>>)
    BY DEF Reconnect
  <2> QED BY <2>1, <2>2, <2>3, <2>4
<1>3. /\ uplink' = [uplink EXCEPT ![w] = @ \o t]
      /\ UNCHANGED <<row, flow, lane, inst, detached, forsaken>> /\ online \subseteq online'
  BY <1>2 DEF Reconnect, Tell
<1>4. Alive(w)' <=> Alive(w)
  BY <1>3 DEF Alive
<1>5. detached'[w] = "stop" => Alive(w)'
  BY <1>1, <1>3, <1>4 DEF DetachedStops
<1> QED BY <1>1, <1>2, <1>3, <1>4, <1>5, SaidOwned DEF Cold

LEMMA RebootOwned ==
  ASSUME OwnedInv, NEW w \in Workers, Reboot(w)
  PROVE  OwnedInv'
<1>1. TypeOK /\ LifecycleInv'
  BY RebootKept DEF OwnedInv, LifecycleInv
<1>2. PICK t \in Seq(StatusRecords) : uplink' = [uplink EXCEPT ![w] = t]
  <2>1. <<>> \in Seq(StatusRecords) /\ <<Status("stopped")>> \in Seq(StatusRecords)
    BY StatusSequences DEF States
  <2>2. uplink' = [uplink EXCEPT ![w] = <<Status("stopped")>>] \/ uplink' = [uplink EXCEPT ![w] = <<>>]
    BY DEF Reboot
  <2> QED BY <2>1, <2>2
<1>3. /\ \A x \in Workers \ {w} : inst'[x] = inst[x] /\ detached'[x] = detached[x]
      /\ ~Alive(w)' /\ detached'[w] = "none"
      /\ UNCHANGED <<row, flow, lane, online, forsaken>> /\ w \notin online
  BY <1>1 DEF Reboot, Becomes, TypeOK, links, Alive
<1> QED BY <1>1, <1>2, <1>3, SaidOwned

-----------------------------------------------------------------------------
(* Faults.                                                                   *)

\* The sequences of a worker once f stops waiting, by element.
LEMMA DisownedElems ==
  ASSUME NEW f \in Flows, NEW S \in {CommandRecords, ResultRecords \cup StatusRecords},
         NEW s \in Seq(S)
  PROVE  /\ \A m \in Elems(s) : (m.kind # "status" => m.flow # f) => m \in Elems(Disowned(s, f))
         /\ \A m \in Elems(Disowned(s, f)) :
               \/ m \in Elems(s) /\ (m.kind # "status" => m.flow # f)
               \/ /\ m.kind # "status" /\ m.flow = NoFlow
                  /\ \E n \in Elems(s) : n.kind = m.kind /\ n.op = m.op /\ n.flow = f
<1> DEFINE d == Disowned(s, f)
<1>1. /\ Len(s) \in Nat /\ Len(d) = Len(s)
      /\ \A i \in 1 .. Len(s) : d[i] = IF s[i].kind # "status" /\ s[i].flow = f
                                       THEN [s[i] EXCEPT !.flow = NoFlow] ELSE s[i]
  BY DEF Disowned
<1> HIDE DEF d
<1>2. \A m \in Elems(s) : (m.kind # "status" => m.flow # f) => m \in Elems(d)
  BY <1>1 DEF Elems
<1> QED BY <1>2, Renamed DEF d

\* A flow that loses its answer takes its placement back, releases or ends.
LEMMA LostEased ==
  ASSUME LifecycleInv, Poise, NEW f \in Flows, flow[f].pc \in AwaitPcs, NEW timedOut \in BOOLEAN,
         flow'[f] = Lost(flow[f], timedOut)
  PROVE  Eased(f) /\ flow'[f].pc # "launching"
<1>1. flow[f] \in BusyRecords /\ flow[f].worker \in Workers
  BY FlowsTyped DEF LifecycleInv, AwaitPcs, BusyRecords
<1>2. CASE Unsent(flow[f])
  <2>1. flow[f].pc = "hydrating" /\ flow[f].op # "redispatch"
    BY <1>2 DEF Unsent, AwaitPcs
  <2>2. Calm(flow[f].worker)
    BY <1>1, <2>1 DEF Poise, CalmStarts
  <2>3. flow'[f] = [flow[f] EXCEPT !.pc = "revert"]
    BY <1>2 DEF Lost, Unsent, Settled
  <2>4. flow'[f].pc = "revert" /\ Resumed(f)
    <3>1. \A r \in BusyRecords : LET q == [r EXCEPT !.pc = "revert"]
                                IN q.pc = "revert" /\ q.op = r.op /\ q.worker = r.worker
      BY DEF BusyRecords
    <3> QED BY <1>1, <2>3, <3>1 DEF Resumed
  <2> QED BY <2>1, <2>2, <2>4 DEF Eased, Starter
<1>3. CASE ~Unsent(flow[f]) /\ Settled(flow[f], timedOut)
  <2>1. flow[f].pc = "uploading" /\ flow[f].release
    BY <1>3 DEF Settled, AwaitPcs
  <2>2. Calm(flow[f].worker) /\ \A g \in Flows : ~Starter(g)
    BY <1>1, <2>1 DEF Poise, CalmAnswers, ConvergeAlone, Converging, StopPcs
  <2>3. flow'[f] = [flow[f] EXCEPT !.pc = "release"]
    BY <1>3 DEF Lost
  <2>4. flow'[f].pc = "release" /\ flow'[f].worker = flow[f].worker
    BY <1>1, <2>3 DEF BusyRecords
  <2> QED BY <2>2, <2>4 DEF Eased, StopPcs
<1>4. CASE ~Unsent(flow[f]) /\ ~Settled(flow[f], timedOut)
  <2>1. flow'[f] = Idle
    BY <1>4 DEF Lost
  <2> QED BY <2>1 DEF Eased, Idle
<1> QED BY <1>2, <1>3, <1>4

\* f stops waiting.
LEMMA AbandonOwned ==
  ASSUME OwnedInv, LifecycleInv', NEW f \in Flows, Abandon(f),
         UNCHANGED <<row, links, detached, inst, forsaken>>,
         \A g \in Flows \ {f} : flow'[g] = flow[g],
         Eased(f), flow'[f].pc # "launching"
  PROVE  OwnedInv'
<1>1. /\ LifecycleInv /\ Poise /\ Wired /\ Honest /\ DetachedStops /\ TypeOK /\ TypeOK'
      /\ UNCHANGED <<desired, observed, assigned, online>>
  BY DEF OwnedInv, LifecycleInv, row, links
<1>2. ASSUME NEW x \in Workers
      PROVE  /\ lane'[x] = Disowned(lane[x], f) /\ uplink'[x] = Disowned(uplink[x], f)
             /\ lane[x] \in Seq(CommandRecords) /\ uplink[x] \in Seq(ResultRecords \cup StatusRecords)
  BY <1>1 DEF Abandon, TypeOK
<1>3. ASSUME NEW x \in Workers
      PROVE  /\ \A m \in Queued(x)' :
                   \/ m \in Queued(x) /\ m.flow # f
                   \/ m.flow = NoFlow /\ \E n \in Queued(x) : n.op = m.op /\ n.flow = f
             /\ \A m \in Queued(x) : m.flow # f => m \in Queued(x)'
             /\ InOrder(lane'[x], AwaitedStops, QueuedStarts)
  <2> DEFINE s == lane[x]
             d == Disowned(s, f)
  <2>1. s \in Seq(CommandRecords) /\ InOrder(s, AwaitedStops, QueuedStarts)
    BY <1>1, <1>2 DEF Wired, StopsInOrder
  <2>2. CommandRecords \in {CommandRecords, ResultRecords \cup StatusRecords}
    OBVIOUS
  <2>3. Queued(x)' = Elems(d) /\ Queued(x) = Elems(s) /\ lane'[x] = d
    BY <1>2 DEF Queued
  <2> HIDE DEF s
  <2>4. /\ d \in Seq(CommandRecords) /\ InOrder(d, AwaitedStops, QueuedStarts)
        /\ \A m \in Elems(s) : (m.kind # "status" => m.flow # f) => m \in Elems(d)
        /\ \A m \in Elems(d) :
              \/ m \in Elems(s) /\ (m.kind # "status" => m.flow # f)
              \/ /\ m.kind # "status" /\ m.flow = NoFlow
                 /\ \E n \in Elems(s) : n.kind = m.kind /\ n.op = m.op /\ n.flow = f
    BY <2>1, <2>2, DisownedElems, OrderDisowned, Renamed
  <2> HIDE DEF d
  <2>5. /\ \A m \in Elems(d) : m.kind # "status"
        /\ \A m \in Elems(s) : m.kind # "status"
    BY <2>1, <2>4, InLane, Kinds
  <2>6. \A m \in Elems(s) : m.flow # f => m \in Elems(d)
    BY <2>4
  <2>7. \A m \in Elems(d) :
              \/ m \in Elems(s) /\ m.flow # f
              \/ m.flow = NoFlow /\ \E n \in Elems(s) : n.op = m.op /\ n.flow = f
    BY <2>4, <2>5
  <2> QED BY <2>3, <2>4, <2>6, <2>7
<1>4. ASSUME NEW x \in Workers
      PROVE  /\ \A m \in Messages(x)' : m.kind = "result" =>
                   \/ m \in Messages(x) /\ m.flow # f
                   \/ m.flow = NoFlow /\ \E n \in Messages(x) : n.kind = "result" /\ n.op = m.op /\ n.flow = f
             /\ \A m \in Messages(x) : m.flow # f => m \in Messages(x)'
             /\ InOrder(uplink'[x], StopAnswers, StartAnswers)
             /\ (SaysGone(uplink'[x]) => SaysGone(uplink[x])) /\ (Mute(uplink'[x]) => Mute(uplink[x]))
  <2> DEFINE s == uplink[x]
             d == Disowned(s, f)
  <2>1. s \in Seq(ResultRecords \cup StatusRecords) /\ InOrder(s, StopAnswers, StartAnswers)
    BY <1>1, <1>2 DEF Wired, StopsInOrder
  <2>2. ResultRecords \cup StatusRecords \in {CommandRecords, ResultRecords \cup StatusRecords}
    OBVIOUS
  <2>3. Messages(x)' = Elems(d) /\ Messages(x) = Elems(s) /\ uplink'[x] = d
    BY <1>2 DEF Messages
  <2>4. s = uplink[x]
    OBVIOUS
  <2> HIDE DEF s
  <2>5. /\ InOrder(d, StopAnswers, StartAnswers)
        /\ (SaysGone(d) => SaysGone(s)) /\ (Mute(d) => Mute(s))
        /\ \A m \in Elems(s) : (m.kind # "status" => m.flow # f) => m \in Elems(d)
        /\ \A m \in Elems(d) :
              \/ m \in Elems(s) /\ (m.kind # "status" => m.flow # f)
              \/ /\ m.kind # "status" /\ m.flow = NoFlow
                 /\ \E n \in Elems(s) : n.kind = m.kind /\ n.op = m.op /\ n.flow = f
    BY <2>1, <2>2, DisownedElems, OrderDisowned, LastDisowned
  <2> HIDE DEF d
  <2>6. \A m \in Elems(s) : m.flow # f => m \in Elems(d)
    BY <2>5
  <2>7. \A m \in Elems(d) : m.kind = "result" =>
              \/ m \in Elems(s) /\ m.flow # f
              \/ m.flow = NoFlow /\ \E n \in Elems(s) : n.kind = "result" /\ n.op = m.op /\ n.flow = f
    BY <2>5
  <2> QED BY <2>3, <2>4, <2>5, <2>6, <2>7
<1>5. /\ \A x \in Workers : Cold(x) => Cold(x)'
      /\ \A x \in Workers : SnapshotAt(x)' => SnapshotAt(x)
      /\ \A x \in Workers : Alive(x)' <=> Alive(x)
  <2>1. ASSUME NEW x \in Workers, Cold(x) PROVE Cold(x)'
    BY <1>3, <2>1 DEF Cold, Alive
  <2>2. ASSUME NEW x \in Workers, SnapshotAt(x)' PROVE SnapshotAt(x)
    BY <1>3, <1>4, <2>2 DEF SnapshotAt
  <2> QED BY <2>1, <2>2 DEF Alive
<1>6. \A g \in Flows : Eased(g)
  BY DEF Eased, Alike
<1>7. Poise'
  BY <1>1, <1>5, <1>6, Poised
<1>8. Unheard(f)
  BY <1>3, <1>4, IdsAssumption DEF Unheard
<1>9. ASSUME NEW g \in Flows \ {f}, flow[g].pc = "launching"
      PROVE  flow[g].worker \in online' /\ StartPending(g)'
  <2>1. flow[g].worker \in online /\ StartPending(g) /\ flow'[g].worker = flow[g].worker
    BY <1>1, <1>9 DEF Wired, LaunchesPending
  <2>2. flow[g].worker \in Workers
    BY <1>1, <2>1 DEF TypeOK
  <2> QED BY <1>1, <1>3, <1>4, <2>1, <2>2 DEF StartPending
<1>10. StopsInOrder'
  BY <1>3, <1>4 DEF StopsInOrder
<1>11. Wired'
  <2>1. \A x \in Workers : \A c \in Queued(x)' :
            \/ c \in Queued(x)
            \/ /\ c.flow \notin Flows
               /\ c.op = "start" => \E d \in Queued(x) : d.op = "start" /\ d.flow \in Flows /\ Unheard(d.flow)
    BY <1>3, <1>8, IdsAssumption
  <2>2. \A x \in Workers : \A m \in Messages(x)' :
            m.kind = "result" => m \in Messages(x) \/ m.flow \notin Flows
    BY <1>4, IdsAssumption
  <2>3. \A g \in Flows : \/ Unheard(g) /\ flow'[g].pc # "launching"
                         \/ /\ Alike(flow'[g], flow[g])
                            /\ flow[g].pc = "launching" => flow[g].worker \in online' /\ StartPending(g)'
    BY <1>8, <1>9 DEF Alike
  <2> QED BY <1>1, <1>5, <1>10, <2>1, <2>2, <2>3, WiredStill
<1>12. Honest' /\ DetachedStops'
  <2>1. Honest'
    BY <1>1, <1>4, <1>5, HonestStill
  <2>2. DetachedStops'
    BY <1>1, <1>5 DEF DetachedStops
  <2> QED BY <2>1, <2>2
<1> QED BY <1>7, <1>11, <1>12 DEF OwnedInv

LEMMA TimeoutOwned ==
  ASSUME OwnedInv, NEW f \in Flows, Timeout(f)
  PROVE  OwnedInv'
<1>1. LifecycleInv /\ Poise /\ LifecycleInv'
  BY TimeoutKept DEF OwnedInv
<1>2. flow'[f] = Lost(flow[f], TRUE) /\ \A g \in Flows \ {f} : flow'[g] = flow[g]
  BY <1>1 DEF Timeout, LifecycleInv, TypeOK
<1>3. Eased(f) /\ flow'[f].pc # "launching"
  BY <1>1, <1>2, LostEased DEF Timeout
<1> QED BY <1>1, <1>2, <1>3, AbandonOwned DEF Timeout

LEMMA FailOwned ==
  ASSUME OwnedInv, NEW f \in Flows, Fail(f)
  PROVE  OwnedInv'
<1>1. LifecycleInv /\ LifecycleInv'
  BY FailKept DEF OwnedInv
<1>2. flow'[f] = Idle /\ \A g \in Flows \ {f} : flow'[g] = flow[g]
  BY <1>1 DEF Fail, Finish, LifecycleInv, TypeOK
<1>3. Eased(f) /\ flow'[f].pc # "launching"
  BY <1>2 DEF Eased, Idle
<1> QED BY <1>1, <1>2, <1>3, AbandonOwned DEF Fail

\* The sessions of ws are lost.
LEMMA CutOwned ==
  ASSUME OwnedInv, LifecycleInv', NEW ws \in SUBSET Workers, Cut(ws),
         UNCHANGED <<row, inst, forsaken>>,
         \A x \in Workers \ ws : x \in online => x \in online',
         \A g \in Flows :
            /\ Eased(g)
            /\ \/ flow'[g].pc # "launching" /\ (flow[g].pc \notin AwaitPcs \/ flow[g].worker \in ws)
               \/ Alike(flow'[g], flow[g]) /\ flow[g].worker \notin ws
  PROVE  OwnedInv'
<1>1. /\ LifecycleInv /\ Poise /\ Wired /\ Honest /\ DetachedStops /\ TypeOK /\ TypeOK'
      /\ UNCHANGED <<desired, observed, assigned>>
  BY DEF OwnedInv, LifecycleInv, row
<1>2. ASSUME NEW x \in Workers
      PROVE  /\ lane'[x] = IF x \in ws THEN <<>> ELSE lane[x]
             /\ uplink'[x] = IF x \in ws THEN Statuses(uplink[x]) ELSE uplink[x]
             /\ uplink[x] \in Seq(ResultRecords \cup StatusRecords)
             /\ InOrder(lane[x], AwaitedStops, QueuedStarts)
             /\ InOrder(uplink[x], StopAnswers, StartAnswers)
  BY <1>1 DEF Cut, TypeOK, Wired, StopsInOrder
<1>3. ASSUME NEW x \in Workers
      PROVE  /\ \A m \in Elems(Statuses(uplink[x])) : m.kind = "status"
             /\ InOrder(Statuses(uplink[x]), StopAnswers, StartAnswers)
             /\ SaysGone(Statuses(uplink[x])) => SaysGone(uplink[x])
             /\ Mute(Statuses(uplink[x])) => Mute(uplink[x])
  <2> DEFINE s == uplink[x]
             t == Statuses(s)
  <2>1. s \in Seq(ResultRecords \cup StatusRecords)
    BY <1>2
  <2> HIDE DEF s
  <2>2. t \in Seq(StatusRecords) /\ (SaysGone(t) => SaysGone(s)) /\ (Mute(t) => Mute(s))
    BY <2>1, StatusesOnly, LastKept
  <2> HIDE DEF t
  <2>3. \A i \in 1 .. Len(t) : t[i] \in StatusRecords
    BY <2>2
  <2>4. (\A m \in Elems(t) : m.kind = "status") /\ ~Within(t, StopAnswers)
    BY <2>3, Kinds DEF Elems, Within, StopAnswers
  <2>5. InOrder(t, StopAnswers, StartAnswers)
    BY <2>4, NothingInOrder
  <2> QED BY <2>2, <2>4, <2>5 DEF s, t
<1>4. /\ \A x \in Workers : Queued(x) = Elems(lane[x]) /\ Queued(x)' = Elems(lane'[x])
      /\ \A x \in Workers : Messages(x) = Elems(uplink[x]) /\ Messages(x)' = Elems(uplink'[x])
      /\ Elems(<<>>) = {}
  BY DEF Queued, Messages, Elems
<1>5. /\ \A x \in ws : Queued(x)' = {} /\ \A m \in Messages(x)' : m.kind = "status"
      /\ \A x \in Workers \ ws : Queued(x)' = Queued(x) /\ Messages(x)' = Messages(x)
  BY <1>2, <1>3, <1>4
<1>6. ASSUME NEW x \in Workers
      PROVE  /\ detached'[x] = "start" => detached[x] = "start" \/ \E c \in Queued(x) : c.op = "start"
             /\ detached'[x] = "stop" => Alive(x)
  <2>1. PICK keep \in SUBSET {y \in ws : Detachable(y) # {}} :
           detached' = [y \in Workers |-> IF y \in keep THEN Head(lane[y]).op ELSE detached[y]]
    BY DEF Cut
  <2>2. CASE x \notin keep
    BY <1>1, <2>1, <2>2 DEF DetachedStops
  <2>3. CASE x \in keep
    <3>1. detached'[x] = Head(lane[x]).op /\ Detachable(x) # {}
      BY <2>1, <2>3
    <3>2. lane[x] # <<>> /\ lane[x] \in Seq(CommandRecords) /\ (Head(lane[x]).op = "stop" => Alive(x))
      BY <1>1, <3>1 DEF Detachable, TypeOK
    <3>3. Head(lane[x]) \in Queued(x)
      BY <1>4, <3>2, Shortened
    <3> QED BY <3>1, <3>2, <3>3
  <2> QED BY <2>2, <2>3
<1>7. \A x \in Workers : Alive(x)' <=> Alive(x)
  BY DEF Alive
<1>8. \A x \in Workers : Cold(x) => Cold(x)'
  BY <1>5, <1>6, <1>7 DEF Cold
<1>9. \A x \in Workers : SnapshotAt(x)' => SnapshotAt(x)
  BY <1>5 DEF SnapshotAt
<1>10. Poise'
  BY <1>1, <1>8, <1>9, Poised
<1>11. ASSUME NEW g \in Flows, flow[g].pc \notin AwaitPcs \/ flow[g].worker \in ws
       PROVE  Unheard(g)
  <2>1. ASSUME NEW x \in Workers \ ws
        PROVE  /\ \A c \in Queued(x) : c.flow # g
               /\ \A m \in Messages(x) : m.kind = "result" => m.flow # g
    BY <1>1, <1>11, Understood DEF Expected, Awaits, AwaitPcs
  <2> QED BY <1>5, <2>1 DEF Unheard
<1>12. ASSUME NEW g \in Flows, flow[g].pc = "launching", flow[g].worker \notin ws, Alike(flow'[g], flow[g])
       PROVE  flow[g].worker \in online' /\ StartPending(g)'
  <2>1. flow[g].worker \in online /\ StartPending(g) /\ flow'[g].worker = flow[g].worker
    BY <1>1, <1>12 DEF Wired, LaunchesPending, Alike
  <2>2. flow[g].worker \in Workers
    BY <1>1, <2>1 DEF TypeOK
  <2> QED BY <1>5, <1>12, <2>1, <2>2 DEF StartPending
<1>13. StopsInOrder'
  <2> SUFFICES ASSUME NEW x \in Workers
               PROVE  /\ InOrder(lane'[x], AwaitedStops, QueuedStarts)
                      /\ InOrder(uplink'[x], StopAnswers, StartAnswers)
    BY DEF StopsInOrder
  <2>1. InOrder(<<>>, AwaitedStops, QueuedStarts)
    BY DEF InOrder
  <2> QED BY <1>2, <1>3, <2>1
<1>14. Wired'
  <2>1. \A x \in Workers : \A c \in Queued(x)' :
            \/ c \in Queued(x)
            \/ /\ c.flow \notin Flows
               /\ c.op = "start" => \E d \in Queued(x) : d.op = "start" /\ d.flow \in Flows /\ Unheard(d.flow)
    BY <1>5
  <2>2. \A x \in Workers : \A m \in Messages(x)' :
            m.kind = "result" => m \in Messages(x) \/ m.flow \notin Flows
    BY <1>5
  <2>3. \A g \in Flows : \/ Unheard(g) /\ flow'[g].pc # "launching"
                         \/ /\ Alike(flow'[g], flow[g])
                            /\ flow[g].pc = "launching" => flow[g].worker \in online' /\ StartPending(g)'
    BY <1>11, <1>12
  <2> QED BY <1>1, <1>8, <1>13, <2>1, <2>2, <2>3, WiredStill
<1>15. Honest'
  BY <1>1, <1>2, <1>3, <1>7, HonestStill
<1>16. DetachedStops'
  BY <1>6, <1>7 DEF DetachedStops
<1> QED BY <1>10, <1>14, <1>15, <1>16 DEF OwnedInv

LEMMA DisconnectOwned ==
  ASSUME OwnedInv, NEW w \in Workers, Disconnect(w)
  PROVE  OwnedInv'
<1>1. LifecycleInv /\ Poise /\ LifecycleInv' /\ TypeOK
  BY DisconnectKept DEF OwnedInv, LifecycleInv
<1>2. ASSUME NEW g \in Flows
      PROVE  /\ Eased(g)
             /\ \/ flow'[g].pc # "launching" /\ (flow[g].pc \notin AwaitPcs \/ flow[g].worker \in {w})
                \/ Alike(flow'[g], flow[g]) /\ flow[g].worker \notin {w}
  <2>1. CASE flow[g].pc \in AwaitPcs /\ flow[g].worker = w
    <3>1. flow'[g] = Lost(flow[g], FALSE)
      BY <2>1 DEF Disconnect
    <3> QED BY <1>1, <2>1, <3>1, LostEased
  <2>2. CASE ~(flow[g].pc \in AwaitPcs /\ flow[g].worker = w)
    <3>1. flow'[g] = flow[g]
      BY <1>1, <2>2 DEF Disconnect, TypeOK
    <3> QED BY <2>2, <3>1 DEF Eased, Alike, AwaitPcs
  <2> QED BY <2>1, <2>2
<1>3. /\ {w} \in SUBSET Workers /\ Cut({w}) /\ UNCHANGED <<row, inst, forsaken>>
      /\ \A x \in Workers \ {w} : x \in online => x \in online'
  BY DEF Disconnect
<1> QED BY <1>1, <1>2, <1>3, CutOwned

LEMMA ApiRestartOwned ==
  ASSUME OwnedInv, ApiRestart
  PROVE  OwnedInv'
<1>1. LifecycleInv /\ LifecycleInv' /\ TypeOK
  BY ApiRestartKept DEF OwnedInv, LifecycleInv
<1>2. ASSUME NEW g \in Flows
      PROVE  /\ Eased(g)
             /\ flow'[g].pc # "launching" /\ (flow[g].pc \notin AwaitPcs \/ flow[g].worker \in Workers)
  <2>1. flow'[g].pc = "idle"
    BY DEF ApiRestart, Idle
  <2>2. flow[g].pc \in AwaitPcs => flow[g].worker \in Workers
    BY <1>1, FlowsTyped DEF AwaitPcs, BusyRecords
  <2> QED BY <2>1, <2>2 DEF Eased
<1>3. Workers \in SUBSET Workers /\ Cut(Workers) /\ UNCHANGED <<row, inst, forsaken>>
  BY DEF ApiRestart
<1> QED BY <1>1, <1>2, <1>3, CutOwned

-----------------------------------------------------------------------------
(* Every step keeps the processes owned.                                     *)

LEMMA InitOwned ==
  ASSUME Init
  PROVE  OwnedInv
<1>1. \A w \in Workers : /\ lane[w] = <<>> /\ uplink[w] = <<>>
                         /\ inst[w] = "none" /\ detached[w] = "none"
  BY DEF Init
<1>2. \A f \in Flows : flow[f].pc = "idle"
  BY DEF Init, Idle
<1>3. \A w \in Workers : Queued(w) = {} /\ Messages(w) = {}
  BY <1>1 DEF Queued, Messages, Elems
<1>4. \A w \in Workers : Cold(w) /\ Calm(w) /\ ~SnapshotAt(w) /\ ~Alive(w)
  BY <1>1, <1>3 DEF Cold, Calm, SnapshotAt, Alive
<1>5. Poise
  BY <1>2, <1>4 DEF Poise, StartOps, OneStart, StartersOwn, ConvergeAlone, UnknownForsakes,
                    CalmStarts, CalmAnswers, CalmSnapshots, OwnersHot, Starting, Starter,
                    Converging, StopPcs
<1>6. StopsInOrder
  BY <1>1 DEF StopsInOrder, InOrder
<1>7. Wired
  BY <1>2, <1>3, <1>4, <1>6 DEF Wired, LaunchesPending, OnlyStarts, RefusedCold, StopsAnswered
<1>8. Honest /\ DetachedStops
  BY <1>1, <1>4 DEF Honest, DetachedStops
<1> QED BY <1>5, <1>7, <1>8, InitHolds DEF OwnedInv

LEMMA StutterOwned ==
  ASSUME OwnedInv, UNCHANGED vars
  PROVE  OwnedInv'
<1>1. LifecycleInv /\ Poise /\ LifecycleInv'
  BY StutterKept DEF OwnedInv
<1>2. \A g \in Flows : Alike(flow'[g], flow[g]) /\ Eased(g)
  BY DEF vars, Alike, Eased
<1>3. Poise'
  BY <1>1, <1>2, EasedStill DEF vars, row, wire
<1> QED BY <1>1, <1>2, <1>3, StillOwned DEF vars, row, wire, links

LEMMA FlowsOwned ==
  ASSUME OwnedInv, Races \subseteq {"overtaken_status"}, NEW f \in Flows,
         start_server(f) \/ Stop(f) \/ Reconcile(f) \/ FlowStep(f) \/ Timeout(f) \/ Fail(f)
  PROVE  OwnedInv'
<1>1. CASE start_server(f)
  BY <1>1, StartOwned DEF start_server
<1>2. CASE Stop(f)
  BY <1>2, StopOwned
<1>3. CASE Reconcile(f)
  BY <1>3, PlaceAndStartOwned, RedispatchStartOwned, RedispatchStopOwned, ClearStaleOwned DEF Reconcile
<1>4. CASE FlowStep(f)
  <2>1. CASE Launch(f) \/ Revert(f) \/ Converge(f)
    BY <2>1, LaunchOwned, RevertOwned, ConvergeOwned
  <2>2. CASE SendStop(f) \/ RecordStopped(f) \/ RecordGone(f)
    BY <2>2, SendStopOwned, RecordStoppedOwned, RecordGoneOwned
  <2>3. CASE SendSnapshot(f) \/ Release(f) \/ ReleaseUnknown(f)
    BY <2>3, SendSnapshotOwned, ReleaseOwned, ReleaseUnknownOwned
  <2> QED BY <1>4, <2>1, <2>2, <2>3 DEF FlowStep
<1>5. CASE Timeout(f)
  BY <1>5, TimeoutOwned
<1>6. CASE Fail(f)
  BY <1>6, FailOwned
<1> QED BY <1>1, <1>2, <1>3, <1>4, <1>5, <1>6

LEMMA WorkersOwned ==
  ASSUME OwnedInv, NEW w \in Workers,
         \/ Inbound(w) \/ WorkerStep(w) \/ DropStale(w) \/ Crash(w)
         \/ Disconnect(w) \/ MarkUnknown(w) \/ Reconnect(w) \/ Reboot(w)
  PROVE  OwnedInv'
<1>1. CASE Inbound(w)
  BY <1>1, ReceiveStatusOwned, ReceiveResultOwned, ReceiveLateOwned DEF Inbound
<1>2. CASE WorkerStep(w)
  <2>1. CASE Execute(w) \/ BeginUpload(w) \/ EndUpload(w)
    BY <2>1, ExecuteOwned, BeginUploadOwned, EndUploadOwned
  <2>2. CASE DetachedEnds(w) \/ Ready(w) \/ OrphanDies(w)
    BY <2>2, DetachedEndsOwned, ReadyOwned, OrphanDiesOwned
  <2> QED BY <1>2, <2>1, <2>2 DEF WorkerStep, LaneStep
<1>3. CASE DropStale(w) \/ Crash(w)
  BY <1>3, DropStaleOwned, CrashOwned
<1>4. CASE Disconnect(w) \/ MarkUnknown(w)
  BY <1>4, DisconnectOwned, MarkUnknownOwned
<1>5. CASE Reconnect(w) \/ Reboot(w)
  BY <1>5, ReconnectOwned, RebootOwned
<1> QED BY <1>1, <1>2, <1>3, <1>4, <1>5

LEMMA NextOwned ==
  ASSUME OwnedInv, Races \subseteq {"overtaken_status"}, [Next]_vars
  PROVE  OwnedInv'
<1>1. CASE Restart \/ Drain \/ ApiRestart \/ ResetUnverifiable
  BY <1>1, RestartOwned, DrainOwned, ApiRestartOwned, ResetUnverifiableOwned
<1>2. CASE UNCHANGED vars
  BY <1>2, StutterOwned
<1> QED BY <1>1, <1>2, FlowsOwned, WorkersOwned DEF Next

\* No process is leaked: as long as a stop waits for the launch it means to end and a
\* start for the revert of one before, whatever runs on a worker that was not given up
\* runs on the worker the row names, through lost answers, dropped sessions, results
\* that overtake statuses, late starts, refused stops and API restarts.
THEOREM ProcessesStayOwned ==
  ASSUME Races \subseteq {"overtaken_status"}
  PROVE  Spec => []NoLeakedProcess
<1>1. Init => OwnedInv
  BY InitOwned
<1>2. OwnedInv /\ [Next]_vars => OwnedInv'
  BY NextOwned
<1>3. OwnedInv => NoLeakedProcess
  BY OwnersAlive DEF OwnedInv, NoLeakedProcess
<1> QED BY <1>1, <1>2, <1>3, PTL DEF Spec
==============================================================================
