------------------------- MODULE SessionTokensProofs -------------------------
(***************************************************************************)
(* Proofs about SessionTokens, for any users, requests, grace and lifetime:*)
(* a session that was ended stays ended, no session survives its           *)
(* credentials, and no time of revocation is rewritten.                    *)
(*                                                                         *)
(* What a request reads under its session locks stands until it writes:    *)
(* every writer holds the locks of all users whose rows it changes.        *)
(***************************************************************************)
EXTENDS SessionTokens, FiniteSetTheorems, TLAPS

-----------------------------------------------------------------------------
(* The inductive invariant.                                                  *)

\* There is a token left for every request that may mint one.
Capacity == issued + Cardinality(Minting) <= MaxTokens

\* A chain is of one user and is named after one of its tokens.
ChainsOwned ==
    \A t \in Issued : owner[t] \in Users /\ chain[t] \in Issued /\ owner[chain[t]] = owner[t]

\* The tokens a request presents have rows, and its user is their owner.
Presents(r) ==
    /\ req[r].body \in Issued \cup {NoToken} /\ req[r].cookie \in Issued \cup {NoToken}
    /\ req[r].op # "none" => req[r].user \in Users
    /\ req[r].op \in {"refresh", "revoke"} =>
         req[r].body # NoToken /\ req[r].user = owner[req[r].body]
    /\ req[r].op = "logout" =>
         IF req[r].body # NoToken THEN req[r].user = owner[req[r].body]
         ELSE req[r].cookie # NoToken /\ req[r].user = owner[req[r].cookie]

HoldsLocks(r) == req[r].pc \in {"reading", "writing"} => \A u \in Needs(r) : lock[u] = r

\* A request that changes a password holds the user's row once it has updated it, and
\* nobody has changed the password it checked.
HoldsRow(r) ==
    /\ req[r].op = "password" => req[r].seen < MaxChanges
    /\ req[r].op \in {"password", "disable"} /\ req[r].pc # "updating" =>
         /\ rowLock[req[r].user] = r
         /\ req[r].op = "password" => password[req[r].user] = req[r].seen

\* What was read is still so.
ReadsStand(r) ==
    req[r].pc = "writing" =>
      /\ req[r].op = "login" /\ req[r].verdict = "admit" => Admits(r)
      /\ req[r].op = "refresh" /\ req[r].verdict = "rotate" =>
           /\ Revocable(req[r].body)
           /\ req[r].fresh => Fresh(req[r].body)
           /\ req[r].stray => req[r].cookie # NoToken /\ Fresh(req[r].cookie)

RequestSound(r) == Presents(r) /\ HoldsLocks(r) /\ HoldsRow(r) /\ ReadsStand(r)
RequestsSound == \A r \in Requests : RequestSound(r)

IInv ==
    /\ TypeOK /\ Capacity /\ ChainsOwned /\ ended \subseteq Issued /\ RequestsSound
    /\ EndedStaysEnded /\ SessionsMatchCredentials

-----------------------------------------------------------------------------
(* The bound on the tokens.                                                  *)

\* The requests that may mint are finitely many.
LEMMA MintingFinite == IsFiniteSet(Minting) /\ Cardinality(Minting) \in Nat
<1>1. Minting \subseteq Requests
  BY DEF Minting
<1>2. IsFiniteSet(Minting)
  BY <1>1, RequestsAssumption, FS_Subset
<1> QED
  BY <1>2, FS_CardinalityType

\* A request that begins within the bound leaves room for what it may mint.
LEMMA BeginKeepsCapacity ==
  ASSUME TypeOK, Capacity, NEW r \in Requests, NEW op, NEW pc, NEW u, NEW t, NEW k,
         Begin(r, op, pc, u, t, k), op \in {"login", "refresh"} => MayMint
  PROVE  Capacity'
<1>1. issued' = issued /\ \A s \in Requests \ {r} : req'[s] = req[s]
  BY DEF Begin, TypeOK, tokenVars
<1>2. req'[r].op = op /\ req[r].op = "none"
  BY DEF Begin, TypeOK, Idle
<1>3. CASE op \in {"login", "refresh"}
  <2>1. Minting' = Minting \cup {r} /\ r \notin Minting
    BY <1>1, <1>2, <1>3 DEF Minting
  <2>2. Cardinality(Minting') = Cardinality(Minting) + 1
    BY <2>1, MintingFinite, FS_AddElement
  <2> QED
    BY <2>2, <1>1, <1>3, MintingFinite, TokenBounds DEF MayMint, Capacity, TypeOK
<1>4. CASE op \notin {"login", "refresh"}
  <2>1. Minting' = Minting
    BY <1>1, <1>2, <1>4 DEF Minting
  <2> QED
    BY <2>1, <1>1 DEF Capacity
<1> QED
  BY <1>3, <1>4

\* A step that changes no request's operation and mints nothing keeps the bound.
LEMMA SameOpsKeepCapacity ==
  ASSUME Capacity, issued' = issued, \A s \in Requests : req'[s].op = req[s].op
  PROVE  Capacity'
<1>1. Minting' = Minting
  BY DEF Minting
<1> QED
  BY <1>1 DEF Capacity

\* A request that finishes gives its token up or has minted it.
LEMMA FinishKeepsCapacity ==
  ASSUME TypeOK, Capacity, NEW r \in Requests, Finish(r),
         \/ issued' = issued
         \/ issued' = issued + 1 /\ req[r].op \in {"login", "refresh"}
  PROVE  Capacity' /\ issued' \in 0 .. MaxTokens
<1>1. req'[r].op = "none" /\ \A s \in Requests \ {r} : req'[s] = req[s]
  BY DEF Finish, TypeOK, Idle
<1>2. Minting' = Minting \ {r}
  BY <1>1 DEF Minting
<1>3. Cardinality(Minting') \in Nat
  BY <1>2, MintingFinite, FS_RemoveElement, FS_CardinalityType, FS_Subset
<1>4. CASE r \in Minting
  <2>1. Cardinality(Minting') = Cardinality(Minting) - 1
    BY <1>2, <1>4, MintingFinite, FS_RemoveElement
  <2> QED
    BY <2>1, <1>3, MintingFinite, TokenBounds DEF Capacity, TypeOK
<1>5. CASE r \notin Minting
  <2>1. Minting' = Minting
    BY <1>2, <1>5
  <2>2. issued' = issued
    BY <1>5 DEF Minting
  <2> QED
    BY <2>1, <2>2 DEF Capacity, TypeOK
<1> QED
  BY <1>4, <1>5

-----------------------------------------------------------------------------
(* Steps other than writes.                                                  *)

LEMMA IssuedIds == ASSUME TypeOK PROVE Issued \subseteq Ids
  BY TokenBounds DEF TypeOK, Issued, Ids

LEMMA InitIInv == Init => IInv
<1> SUFFICES ASSUME Init PROVE IInv
  OBVIOUS
<1>1. TypeOK
  BY UsersAssumption, TimesAssumption, TokenBounds
  DEF Init, TypeOK, Ids, Tokens, Reasons, RequestRecords, NoToken
<1>2. Capacity
  <2>1. Minting = {}
    BY DEF Init, Minting, Idle
  <2> QED
    BY <2>1, FS_EmptySet, TokenBounds DEF Capacity, Init
<1>3. Issued = {}
  BY DEF Init, Issued
<1>4. RequestsSound
  BY DEF Init, RequestsSound, RequestSound, Presents, HoldsLocks, HoldsRow, ReadsStand, Idle, NoToken
<1> QED
  BY <1>1, <1>2, <1>3, <1>4
  DEF Init, IInv, ChainsOwned, EndedStaysEnded, SessionsMatchCredentials

\* The users a request works on under its locks.
LEMMA NeedsUsers ==
  ASSUME IInv, NEW s \in Requests, req[s].pc # "idle" PROVE Needs(s) \subseteq Users
<1>1. Presents(s) /\ req[s].op # "none"
  BY DEF IInv, TypeOK, RequestsSound, RequestSound, RequestRecords, Ops, Idle
<1> QED
  BY <1>1 DEF IInv, Presents, Needs, ChainsOwned

\* A request is not disturbed by others that leave its locks, and the rows it has locked,
\* alone.
LEMMA OtherSound ==
  ASSUME IInv, NEW s \in Requests, req'[s] = req[s],
         Issued \subseteq Issued', \A t \in Issued : owner'[t] = owner[t],
         \A u \in Users : (lock[u] = s => lock'[u] = s) /\ (rowLock[u] = s => rowLock'[u] = s),
         \A u \in Users : lock[u] = s =>
            /\ password'[u] = password[u] /\ (active[u] => active'[u])
            /\ \A t \in Issued : owner[t] = u =>
                 reason'[t] = reason[t] /\ revokedAt'[t] = revokedAt[t],
         \A u \in Users : rowLock[u] = s => password'[u] = password[u]
  PROVE  RequestSound(s)'
<1>1. Presents(s) /\ HoldsLocks(s) /\ HoldsRow(s) /\ ReadsStand(s)
  BY DEF IInv, RequestsSound, RequestSound
<1>2. Presents(s)'
  BY <1>1 DEF Presents
<1>3. Needs(s)' = Needs(s)
  BY <1>1 DEF Needs, Presents
<1>4. req[s].pc \in {"reading", "writing"} => Needs(s) \subseteq Users
  BY NeedsUsers
<1>5. HoldsLocks(s)'
  BY <1>1, <1>3, <1>4 DEF HoldsLocks
<1>6. HoldsRow(s)'
  BY <1>1 DEF HoldsRow, Presents
<1>7. ReadsStand(s)'
  <2> SUFFICES ASSUME req[s].pc = "writing" PROVE ReadsStand(s)'
    BY DEF ReadsStand
  <2>1. \A u \in Needs(s) : u \in Users /\ lock[u] = s
    BY <1>1, <1>4 DEF HoldsLocks
  <2>2. req[s].user \in Needs(s)
    BY DEF Needs
  <2>3. req[s].op = "login" /\ req[s].verdict = "admit" => Admits(s)'
    BY <1>1, <2>1, <2>2 DEF ReadsStand, Admits
  <2>4. CASE req[s].op = "refresh" /\ req[s].verdict = "rotate"
    <3>1. req[s].body \in Issued /\ owner[req[s].body] \in Needs(s)
      BY <1>1, <2>4 DEF Presents, Needs
    <3>2. req[s].cookie # NoToken => req[s].cookie \in Issued /\ owner[req[s].cookie] \in Needs(s)
      BY <1>1 DEF Presents, Needs
    <3> QED
      BY <1>1, <2>1, <2>4, <3>1, <3>2 DEF ReadsStand, Revocable, Fresh
  <2> QED
    BY <2>3, <2>4 DEF ReadsStand
<1> QED
  BY <1>2, <1>5, <1>6, <1>7 DEF RequestSound

\* A request arrives: nothing is read or written yet.
LEMMA BeginKeeps ==
  ASSUME IInv, NEW r \in Requests, NEW op \in Ops, NEW pc \in {"updating", "locking"},
         NEW u \in Users, NEW t \in Issued \cup {NoToken}, NEW k \in Issued \cup {NoToken},
         Begin(r, op, pc, u, t, k), op \in {"login", "refresh"} => MayMint,
         op \in {"refresh", "revoke"} => t # NoToken /\ u = owner[t],
         op = "logout" => IF t # NoToken THEN u = owner[t] ELSE k # NoToken /\ u = owner[k],
         op = "password" => pc = "updating" /\ password[u] < MaxChanges,
         op = "disable" => pc = "updating"
  PROVE  IInv'
<1> DEFINE q == [op |-> op, pc |-> pc, user |-> u, body |-> t, cookie |-> k,
                 seen |-> IF op \in {"login", "password"} THEN password[u] ELSE 0,
                 now |-> clock, verdict |-> "none", fresh |-> FALSE, stray |-> FALSE]
<1>1. UNCHANGED <<tokenVars, userVars, lockVars, clock, ended>>
      /\ served < MaxRequests /\ served' = served + 1 /\ req' = [req EXCEPT ![r] = q]
  BY DEF Begin
<1>2. t \in Tokens /\ k \in Tokens
  BY TokenBounds DEF IInv, TypeOK, Tokens, Issued, NoToken
<1>3. q \in RequestRecords
  BY <1>2, TokenBounds DEF IInv, TypeOK, RequestRecords, Verdicts
<1> HIDE DEF q
<1>4. TypeOK'
  BY <1>1, <1>3, TokenBounds DEF IInv, TypeOK, tokenVars, userVars, lockVars
<1>5. Capacity'
  BY BeginKeepsCapacity DEF IInv
<1>6. Issued' = Issued
  BY <1>1 DEF Issued, tokenVars
<1>7. ASSUME NEW s \in Requests PROVE RequestSound(s)'
  <2>1. CASE s = r
    <3>1. req'[s] = q
      BY <1>1, <2>1 DEF IInv, TypeOK
    <3> QED
      BY <3>1, <1>1, <1>6 DEF q, RequestSound, Presents, HoldsLocks, HoldsRow, ReadsStand, tokenVars
  <2>2. CASE s # r
    <3>1. req'[s] = req[s]
      BY <1>1, <2>2 DEF IInv, TypeOK
    <3> QED
      BY <3>1, <1>1, <1>6, OtherSound DEF tokenVars, userVars, lockVars
  <2> QED
    BY <2>1, <2>2
<1> QED
  BY <1>1, <1>4, <1>5, <1>6, <1>7
  DEF IInv, ChainsOwned, RequestsSound, EndedStaysEnded, SessionsMatchCredentials,
      tokenVars, userVars

\* The locks a request takes, and what it reads, leave the tokens and users alone.
LEMMA SameRowsKeep ==
  ASSUME IInv, TypeOK', UNCHANGED <<tokenVars, ended>>, UNCHANGED password,
         \A u \in Users : active[u] => active'[u],
         \A s \in Requests : req'[s].op = req[s].op, RequestsSound'
  PROVE  IInv'
<1>1. Capacity'
  BY SameOpsKeepCapacity DEF IInv, tokenVars
<1>2. Issued' = Issued
  BY DEF Issued, tokenVars
<1>3. SessionsMatchCredentials'
  BY <1>2 DEF IInv, SessionsMatchCredentials, ChainsOwned, tokenVars
<1> QED
  BY <1>1, <1>2, <1>3 DEF IInv, ChainsOwned, EndedStaysEnded, tokenVars

LEMMA TickKeeps == IInv /\ Tick => IInv'
<1> SUFFICES ASSUME IInv, Tick PROVE IInv'
  OBVIOUS
<1>1. TypeOK'
  BY TimesAssumption DEF IInv, TypeOK, Tick, tokenVars, userVars, lockVars
<1>2. RequestsSound'
  BY OtherSound DEF Tick, RequestsSound, Issued, tokenVars, userVars, lockVars
<1> QED
  BY <1>1, <1>2, SameRowsKeep DEF Tick, userVars

LEMMA ReactivateKeeps == ASSUME IInv, NEW u \in Users, Reactivate(u) PROVE IInv'
<1>1. TypeOK'
  BY DEF IInv, TypeOK, Reactivate, tokenVars, lockVars
<1>2. \A v \in Users : active[v] => active'[v]
  BY DEF IInv, TypeOK, Reactivate
<1>3. RequestsSound'
  BY <1>2, OtherSound DEF Reactivate, RequestsSound, Issued, tokenVars, lockVars
<1> QED
  BY <1>1, <1>2, <1>3, SameRowsKeep DEF Reactivate

LEMMA AcquireKeeps ==
  ASSUME IInv, NEW r \in Requests, NEW u \in Users, Acquire(r, u) PROVE IInv'
<1> DEFINE next == IF Lacks(r) # {u} THEN "locking"
                   ELSE IF req[r].op \in Readers THEN "reading" ELSE "writing"
<1>1. req' = [req EXCEPT ![r].pc = next] /\ lock' = [lock EXCEPT ![u] = r]
      /\ lock[u] = NoRequest /\ UNCHANGED <<tokenVars, userVars, rowLock, clock, served, ended>>
  BY DEF Acquire
<1>2. req[r].pc = "locking" /\ next \in {"locking", "reading", "writing"}
      /\ (next # "locking" => Lacks(r) = {u}) /\ (next = "writing" => req[r].op \notin Readers)
  BY DEF Acquire
<1> HIDE DEF next
<1>3. req[r] \in RequestRecords /\ req[r] # Idle
  BY <1>2 DEF IInv, TypeOK, Idle
<1>4. [req[r] EXCEPT !.pc = next] \in RequestRecords
  BY <1>2, <1>3 DEF RequestRecords
<1>5. TypeOK'
  BY <1>1, <1>4 DEF IInv, TypeOK, tokenVars, userVars
<1>6. Issued' = Issued
  BY <1>1 DEF Issued, tokenVars
<1>7. ASSUME NEW s \in Requests PROVE RequestSound(s)'
  <2>0. Presents(s) /\ HoldsRow(s)
    BY DEF IInv, RequestsSound, RequestSound
  <2>1. CASE s = r
    <3>1. req'[s] = [req[s] EXCEPT !.pc = next]
      BY <1>1, <2>1 DEF IInv, TypeOK
    <3>2. Presents(s)' /\ Needs(s)' = Needs(s)
      BY <3>1, <2>0, <1>1, <1>3, <1>6, <2>1 DEF Presents, Needs, RequestRecords, Idle, tokenVars
    <3>3. HoldsLocks(s)'
      BY <3>1, <3>2, <1>1, <1>2, <1>3, <2>1 DEF HoldsLocks, Lacks, IInv, TypeOK, RequestRecords, Idle
    <3>4. ReadsStand(s)'
      BY <3>1, <1>2, <1>3, <2>1 DEF ReadsStand, Readers, RequestRecords, Idle
    <3>5. HoldsRow(s)'
      BY <3>1, <2>0, <1>1, <1>2, <1>3, <2>1 DEF HoldsRow, RequestRecords, Idle, userVars
    <3> QED
      BY <3>2, <3>3, <3>4, <3>5 DEF RequestSound
  <2>2. CASE s # r
    <3>1. req'[s] = req[s]
      BY <1>1, <2>2 DEF IInv, TypeOK
    <3>2. \A v \in Users : lock[v] = s => lock'[v] = s
      BY <1>1, RequestsAssumption DEF IInv, TypeOK
    <3> QED
      BY <3>1, <3>2, <1>1, <1>6, OtherSound DEF tokenVars, userVars
  <2> QED
    BY <2>1, <2>2
<1>8. \A s \in Requests : req'[s].op = req[s].op
  BY <1>1, <1>3 DEF IInv, TypeOK, RequestRecords, Idle
<1> QED
  BY <1>1, <1>5, <1>7, <1>8, SameRowsKeep DEF RequestsSound, userVars

LEMMA ReadKeeps == ASSUME IInv, NEW r \in Requests, Read(r) PROVE IInv'
<1> DEFINE t == req[r].body
           k == req[r].cookie
           now == req[r].now
           seenBy == IF req[r].op = "refresh"
                     THEN [req[r] EXCEPT !.pc = "writing", !.verdict = Verdict(t, now),
                             !.fresh = Fresh(t), !.stray = k # NoToken /\ k # t /\ IsActive(k, now)]
                     ELSE [req[r] EXCEPT !.pc = "writing",
                             !.verdict = IF Admits(r) THEN "admit" ELSE "refuse"]
<1>1. req[r].pc = "reading" /\ req[r] \in RequestRecords /\ req[r] # Idle
      /\ UNCHANGED <<tokenVars, userVars, lockVars, clock, served, ended>>
  BY DEF Read, IInv, TypeOK, Idle
<1>2. req' = [req EXCEPT ![r] = seenBy]
  BY DEF Read, ReadRefresh, ReadLogin, IInv, TypeOK
<1>3. seenBy \in RequestRecords
  BY <1>1 DEF RequestRecords, Verdicts, Verdict, Fresh, IsActive
<1>4. /\ seenBy.pc = "writing" /\ seenBy.op = req[r].op /\ seenBy.user = req[r].user
      /\ seenBy.body = t /\ seenBy.cookie = k /\ seenBy.seen = req[r].seen
  BY <1>1 DEF RequestRecords
<1>5. req[r].op = "refresh" =>
        /\ seenBy.verdict = Verdict(t, now) /\ seenBy.fresh = Fresh(t)
        /\ seenBy.stray = (k # NoToken /\ k # t /\ IsActive(k, now))
  BY <1>1 DEF RequestRecords
<1>6. req[r].op # "refresh" => seenBy.verdict = IF Admits(r) THEN "admit" ELSE "refuse"
  BY <1>1 DEF RequestRecords
<1>7. Presents(r) /\ HoldsLocks(r) /\ HoldsRow(r)
  BY DEF IInv, RequestsSound, RequestSound
<1>8. req[r].op = "refresh" /\ Verdict(t, now) = "rotate" => Revocable(t)
  <2> SUFFICES ASSUME req[r].op = "refresh", Verdict(t, now) = "rotate" PROVE Revocable(t)
    OBVIOUS
  <2>1. t \in Ids
    BY <1>7, IssuedIds DEF IInv, Presents
  <2>2. reason[t] = "none" <=> revokedAt[t] = -1
    BY <2>1 DEF IInv, TypeOK
  <2>3. revokedAt[t] = -1 \/ Graced(t, now)
    BY DEF Verdict
  <2> QED
    BY <2>2, <2>3 DEF Graced, Revocable
<1> HIDE DEF seenBy
<1>9. TypeOK'
  BY <1>1, <1>2, <1>3 DEF IInv, TypeOK, tokenVars, userVars, lockVars
<1>10. Issued' = Issued
  BY <1>1 DEF Issued, tokenVars
<1>11. ASSUME NEW s \in Requests PROVE RequestSound(s)'
  <2>1. CASE s = r
    <3>1. req'[s] = seenBy
      BY <1>2, <2>1 DEF IInv, TypeOK
    <3>2. Presents(s)'
      BY <3>1, <1>1, <1>4, <1>7, <1>10, <2>1 DEF Presents, tokenVars
    <3>3. HoldsLocks(s)'
      BY <3>1, <1>1, <1>4, <1>7, <2>1 DEF HoldsLocks, Needs, tokenVars, lockVars
    <3>4. ReadsStand(s)'
      BY <3>1, <1>1, <1>4, <1>5, <1>6, <1>8, <2>1
      DEF ReadsStand, Admits, Revocable, Fresh, IsActive, tokenVars, userVars
    <3>5. HoldsRow(s)'
      BY <3>1, <1>1, <1>4, <1>7, <2>1 DEF HoldsRow, userVars, lockVars
    <3> QED
      BY <3>2, <3>3, <3>4, <3>5 DEF RequestSound
  <2>2. CASE s # r
    <3>1. req'[s] = req[s]
      BY <1>2, <2>2 DEF IInv, TypeOK
    <3> QED
      BY <3>1, <1>1, <1>10, OtherSound DEF tokenVars, userVars, lockVars
  <2> QED
    BY <2>1, <2>2
<1>12. \A s \in Requests : req'[s].op = req[s].op
  BY <1>2, <1>4 DEF IInv, TypeOK
<1> QED
  BY <1>1, <1>9, <1>11, <1>12, SameRowsKeep DEF RequestsSound, userVars

\* A request that finishes holds nothing, and takes no other request's lock with it.
LEMMA FinishFrees ==
  ASSUME IInv, NEW r \in Requests, Finish(r)
  PROVE  /\ req' \in [Requests -> RequestRecords]
         /\ lock' \in [Users -> Requests \cup {NoRequest}]
         /\ rowLock' \in [Users -> Requests \cup {NoRequest}]
         /\ req'[r] = Idle
         /\ \A s \in Requests \ {r} :
              /\ req'[s] = req[s]
              /\ \A u \in Users : (lock[u] = s => lock'[u] = s) /\ (rowLock[u] = s => rowLock'[u] = s)
<1>1. Idle \in RequestRecords
  BY DEF RequestRecords
<1> QED
  BY <1>1 DEF IInv, TypeOK, Finish

LEMMA UpdateRowKeeps == ASSUME IInv, NEW r \in Requests, UpdateRow(r) PROVE IInv'
<1> DEFINE u == req[r].user
           next == [req[r] EXCEPT !.pc = "locking",
                      !.now = IF req[r].op = "disable" THEN clock ELSE @]
<1>1. req[r].pc = "updating" /\ req[r] \in RequestRecords /\ req[r] # Idle
      /\ UNCHANGED <<tokenVars, userVars, clock, served, ended>>
  BY DEF UpdateRow, IInv, TypeOK, Idle
<1>2. Issued' = Issued
  BY <1>1 DEF Issued, tokenVars
<1>3. CASE Finish(r)
  <2>1. Capacity'
    BY <1>1, <1>3, FinishKeepsCapacity DEF IInv, tokenVars
  <2>2. TypeOK'
    BY <1>1, <1>3, FinishFrees DEF IInv, TypeOK, tokenVars, userVars
  <2>3. ASSUME NEW s \in Requests PROVE RequestSound(s)'
    <3>1. CASE s = r
      BY <1>3, <3>1, FinishFrees DEF RequestSound, Presents, HoldsLocks, HoldsRow, ReadsStand, Idle
    <3>2. CASE s # r
      BY <1>1, <1>2, <1>3, <3>2, FinishFrees, OtherSound DEF tokenVars, userVars
    <3> QED
      BY <3>1, <3>2
  <2> QED
    BY <1>1, <1>2, <2>1, <2>2, <2>3
    DEF IInv, ChainsOwned, RequestsSound, EndedStaysEnded, SessionsMatchCredentials,
        tokenVars, userVars
<1>4. CASE /\ rowLock' = [rowLock EXCEPT ![u] = r] /\ req' = [req EXCEPT ![r] = next] /\ lock' = lock
           /\ ~(req[r].op = "password" /\ password[u] # req[r].seen) /\ rowLock[u] = NoRequest
  <2>1. next \in RequestRecords /\ next.pc = "locking" /\ next.op = req[r].op
        /\ next.user = u /\ next.body = req[r].body /\ next.cookie = req[r].cookie
        /\ next.seen = req[r].seen /\ u \in Users
    BY <1>1 DEF RequestRecords, IInv, TypeOK
  <2> HIDE DEF next
  <2>2. TypeOK'
    BY <1>1, <1>4, <2>1 DEF IInv, TypeOK, tokenVars, userVars
  <2>3. ASSUME NEW s \in Requests PROVE RequestSound(s)'
    <3>1. Presents(s) /\ HoldsRow(s)
      BY DEF IInv, RequestsSound, RequestSound
    <3>2. CASE s = r
      <4>1. req'[s] = next
        BY <1>4, <3>2 DEF IInv, TypeOK
      <4>2. rowLock'[u] = r
        BY <1>4, <2>1 DEF IInv, TypeOK
      <4> QED
        BY <4>1, <4>2, <3>1, <3>2, <2>1, <1>1, <1>2, <1>4
        DEF RequestSound, Presents, HoldsLocks, HoldsRow, ReadsStand, tokenVars, userVars
    <3>3. CASE s # r
      <4>1. req'[s] = req[s]
        BY <1>4, <3>3 DEF IInv, TypeOK
      <4>2. \A v \in Users : rowLock[v] = s => rowLock'[v] = s
        BY <1>4, RequestsAssumption DEF IInv, TypeOK
      <4> QED
        BY <4>1, <4>2, <1>1, <1>2, <1>4, OtherSound DEF tokenVars, userVars
    <3> QED
      BY <3>2, <3>3
  <2>4. \A s \in Requests : req'[s].op = req[s].op
    BY <1>4, <2>1 DEF IInv, TypeOK
  <2> QED
    BY <1>1, <2>2, <2>3, <2>4, SameRowsKeep DEF RequestsSound, userVars
<1> QED
  BY <1>3, <1>4 DEF UpdateRow

-----------------------------------------------------------------------------
(* Writes.                                                                   *)

TokenTypes ==
    /\ owner \in [Ids -> Users \cup {0}]
    /\ chain \in [Ids -> Tokens]
    /\ bornAt \in [Ids -> 0 .. MaxTime]
    /\ revokedAt \in [Ids -> -1 .. MaxTime]
    /\ reason \in [Ids -> Reasons]
    /\ checked \in [Ids -> 0 .. MaxChanges]
    /\ \A t \in Ids : reason[t] = "none" <=> revokedAt[t] = -1
    /\ password \in [Users -> 0 .. MaxChanges]
    /\ active \in [Users -> BOOLEAN]

\* What a write of r does to the tokens there are: it touches only those of the users
\* it has locked, brings none back, rewrites no time, and ends chains as a whole.
OldTokens(r) ==
    \A t \in Issued :
      /\ owner'[t] = owner[t] /\ chain'[t] = chain[t] /\ checked'[t] = checked[t]
      /\ owner[t] \notin Needs(r) => reason'[t] = reason[t] /\ revokedAt'[t] = revokedAt[t]
      /\ Revocable(t)' => Revocable(t)
      /\ revokedAt[t] # -1 => revokedAt'[t] = revokedAt[t]
      /\ chain[t] \in ended' => chain[t] \in ended \/ ~Revocable(t)'

\* What it does to the users: only those it has locked change, and with them go all
\* their sessions.
UsersOf(r) ==
    /\ \A u \in Users \ Needs(r) : password'[u] = password[u] /\ active'[u] = active[u]
    /\ \A t \in Issued : Revocable(t)' =>
         password'[owner[t]] = password[owner[t]] /\ active'[owner[t]] = active[owner[t]]

\* The token it mints, if any, is of a chain that is open and of credentials that hold.
NewToken(r) ==
    \/ issued' = issued
    \/ /\ issued' = issued + 1 /\ req[r].op \in {"login", "refresh"}
       /\ issued + 1 \in Ids =>
            /\ owner'[issued + 1] \in Users
            /\ chain'[issued + 1] \in 1 .. issued + 1
            /\ owner'[chain'[issued + 1]] = owner'[issued + 1]
            /\ chain'[issued + 1] \notin ended'
            /\ checked'[issued + 1] = password'[owner'[issued + 1]]
            /\ active'[owner'[issued + 1]]

WriteEffect(r) ==
    TokenTypes' /\ OldTokens(r) /\ UsersOf(r) /\ NewToken(r) /\ ended' \subseteq Issued

\* Tokens of one chain have one owner.
LEMMA ChainMates ==
  ASSUME IInv, NEW s \in Issued, NEW t \in Issued, chain[s] = chain[t] PROVE owner[s] = owner[t]
  BY DEF IInv, ChainsOwned

\* A write that mints nothing and revokes the tokens ts of users it has locked, whole
\* chains of which it ends.
LEMMA RevokingWrite ==
  ASSUME IInv, NEW r \in Requests, NEW ts \in SUBSET Issued, NEW cs,
         req[r].now \in 0 .. MaxTime,
         \A t \in ts : owner[t] \in Needs(r),
         \A t \in ts : Revocable(t) => reason'[t] \in {"revoked", "superseded"}
                                    /\ revokedAt'[t] = RevocationTime(t, req[r].now),
         reason' \in [Ids -> Reasons], revokedAt' \in [Ids -> Int],
         \A t \in Ids : t \notin ts \/ ~Revocable(t) =>
            reason'[t] = reason[t] /\ revokedAt'[t] = revokedAt[t],
         ended' = ended \cup cs, cs \subseteq Issued,
         \A t \in Issued : chain[t] \in cs => t \in ts,
         MintNone
  PROVE  /\ revokedAt' \in [Ids -> -1 .. MaxTime]
         /\ \A t \in Ids : reason'[t] = "none" <=> revokedAt'[t] = -1
         /\ OldTokens(r) /\ NewToken(r) /\ ended' \subseteq Issued
<1>1. Issued \subseteq Ids
  BY IssuedIds DEF IInv
<1>2. ASSUME NEW t \in Ids
      PROVE  revokedAt'[t] \in -1 .. MaxTime /\ (reason'[t] = "none" <=> revokedAt'[t] = -1)
  BY <1>2, TimesAssumption DEF IInv, TypeOK, RevocationTime, Revocable
<1>3. OldTokens(r)
  BY <1>1 DEF OldTokens, MintNone, Revocable, RevocationTime
<1>4. NewToken(r)
  BY DEF NewToken, MintNone
<1> QED
  BY <1>2, <1>3, <1>4 DEF IInv

\* The tokens of the user, or of a presented token's chain, are the locked users'.
LEMMA FamilyLocked ==
  ASSUME IInv, NEW r \in Requests
  PROVE  /\ Family(req[r].user) \subseteq Issued
         /\ \A t \in Family(req[r].user) : owner[t] \in Needs(r)
         /\ ChainsOf(Family(req[r].user)) \subseteq Issued
         /\ \A t \in Issued : chain[t] \in ChainsOf(Family(req[r].user)) => t \in Family(req[r].user)
  BY ChainMates DEF Family, Needs, ChainsOf, IInv, ChainsOwned

\* The fields of a request that writes.
LEMMA Writing ==
  ASSUME IInv, NEW r \in Requests, req[r].pc = "writing"
  PROVE  /\ req[r].now \in 0 .. MaxTime /\ req[r].seen \in 0 .. MaxChanges
         /\ Presents(r) /\ HoldsLocks(r) /\ HoldsRow(r) /\ ReadsStand(r) /\ req[r].user \in Users
         /\ req[r].fresh \in BOOLEAN /\ req[r].stray \in BOOLEAN
<1>1. req[r] \in RequestRecords /\ req[r] # Idle
  BY DEF IInv, TypeOK, Idle
<1> QED
  BY <1>1 DEF IInv, RequestsSound, RequestSound, RequestRecords

\* The writes that end sessions by RevokeAll.
LEMMA RevokeAllEffect ==
  ASSUME IInv, NEW r \in Requests, req[r].pc = "writing", NEW ts \in SUBSET Issued, NEW cs,
         RevokeAll(ts, "revoked", req[r].now), \A t \in ts : owner[t] \in Needs(r),
         ended' = ended \cup cs, cs \subseteq Issued,
         \A t \in Issued : chain[t] \in cs => t \in ts,
         MintNone, UsersOf(r),
         password' \in [Users -> 0 .. MaxChanges], active' \in [Users -> BOOLEAN]
  PROVE  WriteEffect(r)
<1>1. /\ reason' \in [Ids -> Reasons] /\ revokedAt' \in [Ids -> Int]
      /\ \A t \in ts : Revocable(t) => reason'[t] \in {"revoked", "superseded"}
                                    /\ revokedAt'[t] = RevocationTime(t, req[r].now)
      /\ \A t \in Ids : t \notin ts \/ ~Revocable(t) =>
            reason'[t] = reason[t] /\ revokedAt'[t] = revokedAt[t]
  BY Writing, IssuedIds, TimesAssumption DEF RevokeAll, IInv, TypeOK, Reasons, RevocationTime
<1>2. /\ revokedAt' \in [Ids -> -1 .. MaxTime]
      /\ \A t \in Ids : reason'[t] = "none" <=> revokedAt'[t] = -1
      /\ OldTokens(r) /\ NewToken(r) /\ ended' \subseteq Issued
  BY <1>1, Writing, RevokingWrite
<1> QED
  BY <1>1, <1>2 DEF WriteEffect, TokenTypes, MintNone, IInv, TypeOK

LEMMA SameUsers == ASSUME NEW r, UNCHANGED userVars PROVE UsersOf(r)
  BY DEF UsersOf, userVars

LEMMA TheftEffect ==
  ASSUME IInv, NEW r \in Requests, req[r].pc = "writing", WriteTheft(r) PROVE WriteEffect(r)
  BY FamilyLocked, SameUsers, RevokeAllEffect DEF WriteTheft, IInv, TypeOK, userVars

LEMMA OthersEffect ==
  ASSUME IInv, NEW r \in Requests, req[r].pc = "writing", WriteOthers(r) PROVE WriteEffect(r)
<1> DEFINE all == Family(req[r].user)
           ts == all \ {req[r].body}
           cs == ChainsOf(ts) \ ChainsOf(all \cap {req[r].body})
<1>1. /\ RevokeAll(ts, "revoked", req[r].now) /\ ended' = ended \cup cs
      /\ MintNone /\ UNCHANGED userVars
  BY DEF WriteOthers
<1>2. ts \subseteq Issued /\ (\A t \in ts : owner[t] \in Needs(r)) /\ cs \subseteq Issued
  BY FamilyLocked DEF ChainsOf
<1>3. ASSUME NEW t \in Issued, chain[t] \in cs PROVE t \in ts
  <2>1. t \in all
    BY <1>3, FamilyLocked DEF ChainsOf
  <2> QED
    BY <2>1, <1>3 DEF ChainsOf
<1>4. password' \in [Users -> 0 .. MaxChanges] /\ active' \in [Users -> BOOLEAN] /\ UsersOf(r)
  BY <1>1, SameUsers DEF IInv, TypeOK, userVars
<1> HIDE DEF ts, cs
<1> QED
  BY <1>1, <1>2, <1>3, <1>4, RevokeAllEffect

\* The tokens of a presented token's chain.
LEMMA ChainLocked ==
  ASSUME IInv, NEW r, NEW t \in Issued, owner[t] \in Needs(r)
  PROVE  /\ Chain(chain[t]) \subseteq Issued /\ t \in Chain(chain[t])
         /\ \A s \in Chain(chain[t]) : owner[s] \in Needs(r)
         /\ ChainsOf(Chain(chain[t])) = {chain[t]} /\ chain[t] \in Issued
         /\ \A s \in Issued : chain[s] = chain[t] => s \in Chain(chain[t])
  BY ChainMates DEF Chain, ChainsOf, IInv, ChainsOwned

LEMMA RevokeEffect ==
  ASSUME IInv, NEW r \in Requests, req[r].pc = "writing", WriteRevoke(r) PROVE WriteEffect(r)
<1> DEFINE t == req[r].body
           ts == Chain(chain[t])
<1>1. t \in Issued /\ owner[t] \in Needs(r)
  BY Writing DEF WriteRevoke, Presents, Needs
<1>2. /\ ts \subseteq Issued /\ \A s \in ts : owner[s] \in Needs(r)
      /\ ChainsOf(ts) \subseteq Issued /\ \A s \in Issued : chain[s] \in ChainsOf(ts) => s \in ts
  BY <1>1, ChainLocked
<1>3. MintNone /\ UNCHANGED userVars
  BY DEF WriteRevoke
<1>4. CASE RevokeAll(ts, "revoked", req[r].now) /\ ended' = ended \cup ChainsOf(ts)
  BY <1>2, <1>3, <1>4, SameUsers, RevokeAllEffect DEF IInv, TypeOK, userVars
<1>5. CASE UNCHANGED <<reason, revokedAt, ended>>
  BY <1>3, <1>5, SameUsers
  DEF WriteEffect, TokenTypes, OldTokens, NewToken, MintNone, Revocable, IInv, TypeOK, userVars
<1> QED
  BY <1>4, <1>5 DEF WriteRevoke

LEMMA UserEffect ==
  ASSUME IInv, NEW r \in Requests, req[r].pc = "writing", WriteUser(r)
  PROVE  WriteEffect(r)
<1> DEFINE u == req[r].user
           ts == Family(u)
<1>1. RevokeAll(ts, "revoked", req[r].now) /\ ended' = ended \cup ChainsOf(ts) /\ MintNone
  BY DEF WriteUser
<1>2. ts \subseteq Issued /\ (\A t \in ts : owner[t] \in Needs(r)) /\ ChainsOf(ts) \subseteq Issued
      /\ \A t \in Issued : chain[t] \in ChainsOf(ts) => t \in ts
  BY FamilyLocked
<1>3. u \in Users /\ u \in Needs(r)
  BY Writing DEF Needs
<1> HIDE DEF u
<1>4. /\ active' \in [Users -> BOOLEAN] /\ password' \in [Users -> 0 .. MaxChanges]
      /\ \A v \in Users \ {u} : password'[v] = password[v] /\ active'[v] = active[v]
  <2>1. req[r].op = "password" => password[u] < MaxChanges
    BY Writing DEF HoldsRow, u
  <2>2. /\ password' \in [Users -> 0 .. MaxChanges]
        /\ \A v \in Users \ {u} : password'[v] = password[v]
    <3>1. CASE req[r].op = "password"
      <4>1. password' = [password EXCEPT ![u] = password[u] + 1]
        BY <3>1 DEF WriteUser, u
      <4>2. password[u] + 1 \in 0 .. MaxChanges
        BY <1>3, <2>1, <3>1, TokenBounds DEF IInv, TypeOK
      <4> QED
        BY <4>1, <4>2 DEF IInv, TypeOK
    <3>2. CASE req[r].op # "password"
      BY <3>2 DEF WriteUser, IInv, TypeOK
    <3> QED
      BY <3>1, <3>2
  <2>3. active' \in [Users -> BOOLEAN] /\ \A v \in Users \ {u} : active'[v] = active[v]
    BY DEF WriteUser, IInv, TypeOK, u
  <2> QED
    BY <2>2, <2>3
<1>5. \A t \in ts : ~Revocable(t)'
  BY <1>1, <1>2, IssuedIds DEF RevokeAll, Revocable, IInv
<1>6. UsersOf(r)
  BY <1>3, <1>4, <1>5 DEF UsersOf, Family, IInv, ChainsOwned
<1> QED
  BY <1>1, <1>2, <1>4, <1>6, RevokeAllEffect

LEMMA LogoutEffect ==
  ASSUME IInv, NEW r \in Requests, req[r].pc = "writing", WriteLogout(r) PROVE WriteEffect(r)
<1> DEFINE t0 == req[r].body
           k == req[r].cookie
           mine == IF t0 = NoToken THEN {} ELSE Chain(chain[t0])
           other == IF k = NoToken THEN {} ELSE Chain(chain[k]) \ mine
           ts == mine \cup other
<1>1. MintNone /\ UNCHANGED userVars /\ ended' = ended \cup ChainsOf(ts)
  BY DEF WriteLogout
<1>2. /\ t0 # NoToken => t0 \in Issued /\ owner[t0] \in Needs(r)
      /\ k # NoToken => k \in Issued /\ owner[k] \in Needs(r)
  BY Writing DEF WriteLogout, Presents, Needs
<1>3. /\ ts \subseteq Issued /\ (\A t \in ts : owner[t] \in Needs(r))
      /\ ChainsOf(ts) \subseteq Issued /\ \A t \in Issued : chain[t] \in ChainsOf(ts) => t \in ts
  <2>1. /\ mine \subseteq Issued /\ \A t \in mine : owner[t] \in Needs(r)
        /\ \A t \in mine : chain[t] \in Issued
        /\ \A t \in mine, s \in Issued : chain[s] = chain[t] => s \in mine
    BY <1>2, ChainMates DEF Chain, IInv, ChainsOwned
  <2>2. /\ other \subseteq Issued /\ \A t \in other : owner[t] \in Needs(r)
        /\ \A t \in other : chain[t] \in Issued
        /\ \A t \in other, s \in Issued : chain[s] = chain[t] => s \in ts
    BY <1>2, ChainMates DEF Chain, IInv, ChainsOwned
  <2> HIDE DEF mine, other
  <2> QED
    BY <2>1, <2>2 DEF ChainsOf
<1>4. /\ reason' = [t \in Ids |-> IF t \in {s \in ts : Revocable(s)}
             THEN IF t \in mine THEN "revoked" ELSE "superseded" ELSE reason[t]]
      /\ revokedAt' = [t \in Ids |-> IF t \in {s \in ts : Revocable(s)}
             THEN RevocationTime(t, req[r].now) ELSE revokedAt[t]]
  BY DEF WriteLogout
<1> HIDE DEF mine, ts
<1>5. /\ reason' \in [Ids -> Reasons] /\ revokedAt' \in [Ids -> Int]
      /\ \A t \in ts : Revocable(t) => reason'[t] \in {"revoked", "superseded"}
                                    /\ revokedAt'[t] = RevocationTime(t, req[r].now)
      /\ \A t \in Ids : t \notin ts \/ ~Revocable(t) =>
            reason'[t] = reason[t] /\ revokedAt'[t] = revokedAt[t]
  BY <1>3, <1>4, Writing, IssuedIds, TimesAssumption DEF IInv, TypeOK, Reasons, RevocationTime
<1>6. /\ revokedAt' \in [Ids -> -1 .. MaxTime]
      /\ \A t \in Ids : reason'[t] = "none" <=> revokedAt'[t] = -1
      /\ OldTokens(r) /\ NewToken(r) /\ ended' \subseteq Issued
  BY <1>1, <1>3, <1>5, Writing, RevokingWrite
<1> QED
  BY <1>1, <1>5, <1>6, SameUsers DEF WriteEffect, TokenTypes, MintNone, IInv, TypeOK, userVars

LEMMA LoginEffect ==
  ASSUME IInv, NEW r \in Requests, req[r].pc = "writing", WriteLogin(r) PROVE WriteEffect(r)
<1> DEFINE n == issued + 1
<1>1. UNCHANGED <<revokedAt, reason, password, active, ended>> /\ req[r].op = "login"
  BY DEF WriteLogin, userVars
<1>2. CASE req[r].verdict = "admit"
  <2>1. Mint(req[r].user, n, req[r].now, req[r].seen)
    BY <1>2 DEF WriteLogin
  <2>2. Admits(r) /\ req[r].user \in Users
    BY <1>1, <1>2, Writing DEF ReadsStand
  <2>3. n \in Ids => n \in Tokens
    BY DEF Ids, Tokens
  <2>4. TokenTypes'
    BY <1>1, <2>1, <2>3, Writing DEF Mint, TokenTypes, IInv, TypeOK
  <2>5. n \notin Issued /\ n \in 1 .. issued + 1
    BY DEF Issued, IInv, TypeOK
  <2>6. OldTokens(r)
    BY <1>1, <2>1, <2>5 DEF OldTokens, Mint, Revocable, IInv, TypeOK
  <2>7. NewToken(r)
    BY <1>1, <2>1, <2>2, <2>5 DEF NewToken, Mint, Admits, IInv, TypeOK
  <2> QED
    BY <1>1, <2>4, <2>6, <2>7 DEF WriteEffect, UsersOf, IInv
<1>3. CASE MintNone
  BY <1>1, <1>3
  DEF WriteEffect, TokenTypes, OldTokens, UsersOf, NewToken, MintNone, Revocable, IInv, TypeOK
<1> QED
  BY <1>2, <1>3 DEF WriteLogin

LEMMA InvalidEffect ==
  ASSUME IInv, NEW r \in Requests, req[r].pc = "writing", WriteInvalid(r) PROVE WriteEffect(r)
  BY DEF WriteInvalid, WriteEffect, TokenTypes, OldTokens, UsersOf, NewToken, Revocable, IInv, TypeOK,
         tokenVars, userVars

\* The rotation: the presented token is alive, so its chain is open, and the cookie's
\* chain, if it is another, ends as a whole.
LEMMA RotateEffect ==
  ASSUME IInv, NEW r \in Requests, req[r].pc = "writing", WriteRotate(r) PROVE WriteEffect(r)
<1> DEFINE n == issued + 1
           t == req[r].body
           k == req[r].cookie
           now == req[r].now
           rotated == IF req[r].fresh THEN {t} ELSE {}
           foreign == IF k # NoToken /\ chain[k] # chain[t]
                      THEN {s \in Chain(chain[k]) : Revocable(s)} ELSE {}
           retired == foreign \cup (IF req[r].stray /\ chain[k] = chain[t] THEN {k} ELSE {})
<1>1. /\ reason' = [s \in Ids |-> IF s \in retired THEN "superseded"
                                  ELSE IF s \in rotated THEN "rotated" ELSE reason[s]]
      /\ revokedAt' = [s \in Ids |->
            IF s \in foreign THEN RevocationTime(s, now)
            ELSE IF s \in retired \cup rotated THEN now ELSE revokedAt[s]]
      /\ Mint(owner[t], chain[t], now, checked[t])
      /\ ended' = ended \cup ChainsOf(foreign)
      /\ UNCHANGED <<password, active>> /\ req[r].op = "refresh" /\ req[r].verdict = "rotate"
  BY DEF WriteRotate, userVars
<1>2. /\ t \in Issued /\ owner[t] \in Needs(r) /\ owner[t] \in Users
      /\ Revocable(t) /\ (req[r].fresh => Fresh(t))
      /\ now \in 0 .. MaxTime /\ now # -1
  BY <1>1, Writing DEF Presents, ReadsStand, Needs, IInv, ChainsOwned
<1>3. /\ k # NoToken => k \in Issued /\ owner[k] \in Needs(r)
      /\ req[r].stray => k # NoToken /\ Fresh(k)
  BY <1>1, Writing DEF Presents, ReadsStand, Needs
<1>4. Issued \subseteq Ids
  BY IssuedIds DEF IInv
<1>5. /\ foreign \subseteq Issued /\ \A s \in foreign : owner[s] \in Needs(r) /\ Revocable(s)
      /\ ChainsOf(foreign) \subseteq Issued /\ chain[t] \notin ChainsOf(foreign)
      /\ \A s \in Issued : chain[s] \in ChainsOf(foreign) /\ Revocable(s) => s \in foreign
  BY <1>3, ChainMates DEF Chain, ChainsOf, IInv, ChainsOwned
<1> HIDE DEF foreign
<1>6. /\ retired \subseteq Issued /\ foreign \subseteq retired
      /\ \A s \in retired : owner[s] \in Needs(r) /\ (s \in foreign \/ Fresh(s))
  BY <1>3, <1>5
<1>7. /\ rotated \subseteq Issued
      /\ \A s \in rotated : owner[s] \in Needs(r) /\ Fresh(s) /\ s = t
  BY <1>2
<1> HIDE DEF retired, rotated
<1>8. \A s \in Ids : reason[s] = "none" <=> revokedAt[s] = -1
  BY DEF IInv, TypeOK
<1>9. chain[t] \notin ended
  BY <1>2 DEF IInv, EndedStaysEnded, Revocable
<1>10. TokenTypes'
  <2>1. reason' \in [Ids -> Reasons]
    BY <1>1 DEF IInv, TypeOK, Reasons
  <2>2. revokedAt' \in [Ids -> -1 .. MaxTime]
    BY <1>1, <1>2, TimesAssumption DEF IInv, TypeOK, RevocationTime
  <2>3. ASSUME NEW s \in Ids PROVE (reason'[s] = "none") <=> (revokedAt'[s] = -1)
    BY <1>1, <1>2, <1>6, <1>8 DEF RevocationTime
  <2>4. /\ owner' \in [Ids -> Users \cup {0}] /\ chain' \in [Ids -> Tokens]
        /\ bornAt' \in [Ids -> 0 .. MaxTime] /\ checked' \in [Ids -> 0 .. MaxChanges]
    BY <1>1, <1>2, <1>4 DEF Mint, IInv, TypeOK
  <2> QED
    BY <1>1, <2>1, <2>2, <2>3, <2>4 DEF TokenTypes, IInv, TypeOK
<1>11. n \notin Issued /\ chain[t] \in Issued /\ \A s \in Issued : s \in 1 .. issued + 1
  BY <1>2 DEF Issued, IInv, TypeOK, ChainsOwned
<1>12. OldTokens(r)
  <2> SUFFICES ASSUME NEW s \in Issued
               PROVE  /\ owner'[s] = owner[s] /\ chain'[s] = chain[s] /\ checked'[s] = checked[s]
                      /\ owner[s] \notin Needs(r) => reason'[s] = reason[s] /\ revokedAt'[s] = revokedAt[s]
                      /\ Revocable(s)' => Revocable(s)
                      /\ revokedAt[s] # -1 => revokedAt'[s] = revokedAt[s]
                      /\ chain[s] \in ended' => chain[s] \in ended \/ ~Revocable(s)'
    BY DEF OldTokens
  <2>1. owner'[s] = owner[s] /\ chain'[s] = chain[s] /\ checked'[s] = checked[s]
    BY <1>1, <1>11 DEF Mint, IInv, TypeOK
  <2>2. s \in Ids /\ (s \in rotated \/ s \in retired => owner[s] \in Needs(r))
    BY <1>4, <1>6, <1>7
  <2>3. Revocable(s)' => Revocable(s)
    BY <1>1, <1>2, <1>7, <2>2 DEF Revocable
  <2>4. revokedAt[s] # -1 => revokedAt'[s] = revokedAt[s]
    BY <1>1, <1>6, <1>7, <2>2 DEF Fresh, RevocationTime
  <2>5. s \in foreign => ~Revocable(s)'
    BY <1>1, <1>6, <2>2 DEF Revocable
  <2>6. chain[s] \in ended' => chain[s] \in ended \/ ~Revocable(s)'
    BY <1>1, <1>5, <2>3, <2>5
  <2> QED
    BY <1>1, <1>6, <2>1, <2>2, <2>3, <2>4, <2>6
<1>13. NewToken(r)
  <2>1. checked[t] = password[owner[t]] /\ active[owner[t]]
    BY <1>2 DEF IInv, SessionsMatchCredentials, Revocable
  <2>2. owner[chain[t]] = owner[t]
    BY <1>2 DEF IInv, ChainsOwned
  <2>3. ASSUME n \in Ids
        PROVE  /\ owner'[n] = owner[t] /\ chain'[n] = chain[t] /\ checked'[n] = checked[t]
               /\ owner'[chain[t]] = owner[t]
    BY <1>1, <1>11, <2>2, <2>3 DEF Mint, IInv, TypeOK
  <2>4. issued' = n
    BY <1>1 DEF Mint
  <2> QED
    BY <1>1, <1>2, <1>5, <1>9, <1>11, <2>1, <2>3, <2>4 DEF NewToken
<1> QED
  BY <1>1, <1>5, <1>10, <1>12, <1>13 DEF WriteEffect, UsersOf, IInv

\* Every write has these effects, and they keep the invariant.
LEMMA WriteKeeps == ASSUME IInv, NEW r \in Requests, Write(r) PROVE IInv'
<1>1. req[r].pc = "writing" /\ Finish(r) /\ UNCHANGED <<clock, served>>
  BY DEF Write
<1>2. WriteEffect(r)
  BY <1>1, LoginEffect, RotateEffect, TheftEffect, InvalidEffect, LogoutEffect, RevokeEffect,
     OthersEffect, UserEffect
  DEF Write
<1>3. Capacity' /\ issued' \in 0 .. MaxTokens
  BY <1>1, <1>2, FinishKeepsCapacity DEF IInv, WriteEffect, NewToken
<1>4. Issued \subseteq Issued' /\ Issued' \subseteq Issued \cup {issued + 1}
      /\ (issued' = issued => Issued' = Issued)
      /\ (issued' = issued + 1 => issued + 1 \in Ids /\ Issued' = 1 .. issued + 1)
      /\ issued + 1 \notin Issued
  <2>1. issued' = issued \/ issued' = issued + 1
    BY <1>2 DEF WriteEffect, NewToken
  <2>2. issued \in Nat /\ issued' \in Nat /\ MaxTokens \in Nat /\ issued' <= MaxTokens
    BY <1>3, TokenBounds DEF IInv, TypeOK
  <2>3. CASE issued' = issued
    BY <2>2, <2>3 DEF Issued
  <2>4. CASE issued' = issued + 1
    BY <2>2, <2>4 DEF Issued, Ids
  <2> QED
    BY <2>1, <2>3, <2>4
<1>5. TypeOK'
  <2>1. ended' \subseteq Ids
    BY <1>2, IssuedIds DEF WriteEffect, IInv
  <2> QED
    BY <1>1, <1>2, <1>3, <2>1, FinishFrees DEF WriteEffect, TokenTypes, IInv, TypeOK
<1>6. ChainsOwned'
  <2> SUFFICES ASSUME NEW t \in Issued'
               PROVE  owner'[t] \in Users /\ chain'[t] \in Issued' /\ owner'[chain'[t]] = owner'[t]
    BY DEF ChainsOwned
  <2>1. CASE t \in Issued
    <3>1. owner[t] \in Users /\ chain[t] \in Issued /\ owner[chain[t]] = owner[t]
      BY <2>1 DEF IInv, ChainsOwned
    <3> QED
      BY <1>2, <1>4, <2>1, <3>1 DEF WriteEffect, OldTokens
  <2>2. CASE t = issued + 1 /\ t \notin Issued
    BY <1>2, <1>4, <2>2 DEF WriteEffect, NewToken
  <2> QED
    BY <1>4, <2>1, <2>2
<1>7. EndedStaysEnded'
  BY <1>2, <1>4 DEF WriteEffect, OldTokens, NewToken, IInv, EndedStaysEnded, Revocable
<1>8. SessionsMatchCredentials'
  BY <1>2, <1>4
  DEF WriteEffect, OldTokens, UsersOf, NewToken, IInv, SessionsMatchCredentials, Revocable
<1>9. ASSUME NEW s \in Requests PROVE RequestSound(s)'
  <2>1. CASE s = r
    BY <1>1, <2>1, FinishFrees DEF RequestSound, Presents, HoldsLocks, HoldsRow, ReadsStand, Idle
  <2>2. CASE s # r
    <3>1. \A u \in Needs(r) : lock[u] = r
      BY <1>1, Writing DEF HoldsLocks
    <3>2. \A u \in Users : lock[u] = s => u \notin Needs(r)
      BY <2>2, <3>1
    <3>3. \A u \in Users : rowLock[u] = s => password'[u] = password[u]
      BY <1>1, <1>2, <2>2, Writing DEF Write, WriteLogin, WriteRotate, WriteTheft, WriteInvalid,
         WriteLogout, WriteRevoke, WriteOthers, WriteUser, HoldsRow, userVars, IInv, TypeOK
    <3> QED
      BY <1>1, <1>2, <1>4, <2>2, <3>2, <3>3, FinishFrees, OtherSound
      DEF WriteEffect, OldTokens, UsersOf
  <2> QED
    BY <2>1, <2>2
<1> QED
  BY <1>2, <1>3, <1>4, <1>5, <1>6, <1>7, <1>8, <1>9 DEF IInv, RequestsSound, WriteEffect

-----------------------------------------------------------------------------
(* The theorems.                                                             *)

\* The requests as they arrive, by the tokens they present.
LEMMA ArriveKeeps ==
  ASSUME IInv, NEW r \in Requests, refresh(r) \/ logout(r) PROVE IInv'
<1>1. \A t \in Issued : owner[t] \in Users
  BY DEF IInv, ChainsOwned
<1>2. CASE refresh(r)
  <2>1. PICK body \in Issued \cup {NoToken}, cookie \in Issued \cup {NoToken} :
          /\ Presented(body, cookie) # NoToken
          /\ Refresh(r, Presented(body, cookie), Superseded(body, cookie))
    BY <1>2 DEF refresh
  <2> DEFINE t == Presented(body, cookie)
             k == Superseded(body, cookie)
  <2>2. t \in Issued /\ k \in Issued \cup {NoToken}
    BY <2>1 DEF Presented, Superseded
  <2> HIDE DEF t, k
  <2>3. MayMint /\ Begin(r, "refresh", "locking", owner[t], t, k)
    BY <2>1 DEF Refresh, t, k
  <2>4. t # NoToken
    BY <2>1 DEF t
  <2> QED
    BY <1>1, <2>2, <2>3, <2>4, BeginKeeps DEF Ops
<1>3. ASSUME NEW t \in Issued \cup {NoToken}, NEW k \in Issued \cup {NoToken},
             t # NoToken \/ k # NoToken, Logout(r, t, k)
      PROVE  IInv'
  <2> DEFINE u == owner[IF t = NoToken THEN k ELSE t]
  <2>1. u \in Users
    BY <1>1, <1>3
  <2>2. Begin(r, "logout", "locking", u, t, k)
    BY <1>3 DEF Logout
  <2>3. IF t # NoToken THEN u = owner[t] ELSE k # NoToken /\ u = owner[k]
    BY <1>3
  <2> HIDE DEF u
  <2> QED
    BY <2>1, <2>2, <2>3, BeginKeeps DEF Ops
<1>4. CASE logout(r)
  <2>1. ASSUME NEW body \in Issued \cup {NoToken}, NEW cookie \in Issued \cup {NoToken},
               Presented(body, cookie) # NoToken,
               Logout(r, Presented(body, cookie), Superseded(body, cookie))
        PROVE  IInv'
    <3>1. Presented(body, cookie) \in Issued \cup {NoToken}
          /\ Superseded(body, cookie) \in Issued \cup {NoToken}
      BY DEF Presented, Superseded
    <3> QED
      BY <2>1, <3>1, <1>3
  <2>2. ASSUME NEW cookie \in Issued, Logout(r, NoToken, cookie) PROVE IInv'
    <3>1. cookie # NoToken
      BY DEF Issued, NoToken, IInv, TypeOK
    <3> QED
      BY <2>2, <3>1, <1>3
  <2> QED
    BY <1>4, <2>1, <2>2 DEF logout
<1> QED
  BY <1>2, <1>4

LEMMA NextKeeps == IInv /\ [Next]_vars => IInv'
<1> SUFFICES ASSUME IInv, [Next]_vars PROVE IInv'
  OBVIOUS
<1>1. CASE Tick
  BY <1>1, TickKeeps
<1>2. CASE \E u \in Users : Reactivate(u)
  BY <1>2, ReactivateKeeps
<1>3. ASSUME NEW r \in Requests, refresh(r) \/ logout(r) PROVE IInv'
  BY <1>3, ArriveKeeps
<1>4. ASSUME NEW r \in Requests, NEW u \in Users,
             \/ Login(r, u) \/ change_password(r, u) \/ Deactivate(r, u)
             \/ revoke_session(r, u) \/ revoke_other_sessions(r, u)
      PROVE  IInv'
  <2>1. CASE Login(r, u)
    BY <2>1, BeginKeeps DEF Login, Ops
  <2>2. CASE change_password(r, u)
    BY <2>2, BeginKeeps DEF change_password, ChangePassword, Ops
  <2>3. CASE Deactivate(r, u)
    BY <2>3, BeginKeeps DEF Deactivate, Ops
  <2>4. CASE revoke_session(r, u)
    <3>1. PICK t \in Issued : owner[t] = u /\ RevokeSession(r, t)
      BY <2>4 DEF revoke_session
    <3>2. t # NoToken
      BY <3>1 DEF Issued, NoToken, IInv, TypeOK
    <3> QED
      BY <3>1, <3>2, BeginKeeps DEF RevokeSession, Ops
  <2>5. CASE revoke_other_sessions(r, u)
    BY <2>5, BeginKeeps DEF revoke_other_sessions, RevokeOtherSessions, Ops
  <2> QED
    BY <1>4, <2>1, <2>2, <2>3, <2>4, <2>5
<1>5. ASSUME NEW r \in Requests, NEW u \in Users, Acquire(r, u) PROVE IInv'
  BY <1>5, AcquireKeeps
<1>6. ASSUME NEW r \in Requests, UpdateRow(r) PROVE IInv'
  BY <1>6, UpdateRowKeeps
<1>7. ASSUME NEW r \in Requests, Read(r) PROVE IInv'
  BY <1>7, ReadKeeps
<1>8. ASSUME NEW r \in Requests, Write(r) PROVE IInv'
  BY <1>8, WriteKeeps
<1>9. CASE UNCHANGED vars
  <2>1. TypeOK'
    BY <1>9 DEF IInv, TypeOK, vars, tokenVars, userVars, lockVars
  <2>2. RequestsSound'
    BY <1>9, OtherSound DEF RequestsSound, Issued, vars, tokenVars, userVars, lockVars
  <2> QED
    BY <1>9, <2>1, <2>2, SameRowsKeep DEF vars, userVars
<1> QED
  BY <1>1, <1>2, <1>3, <1>4, <1>5, <1>6, <1>7, <1>8, <1>9 DEF Next

LEMMA Invariance == Spec => []IInv
  BY InitIInv, NextKeeps, PTL DEF Spec

\* The rows, locks and requests keep their types; there is a row for every token that a
\* request in progress may still mint.
THEOREM SessionsTypeCorrect == Spec => []TypeOK
  BY Invariance, PTL DEF IInv

\* No order of refreshes, logouts, revocations, password changes and deactivations
\* leaves a usable token in a session that one of them ended.
THEOREM EndedForGood == Spec => []EndedStaysEnded
  BY Invariance, PTL DEF IInv

\* Whatever logins and refreshes overlap a password change or a deactivation, no usable
\* token was checked against other credentials than the user's present ones.
THEOREM NoSessionSurvivesItsCredentials == Spec => []SessionsMatchCredentials
  BY Invariance, PTL DEF IInv

\* No time of revocation is ever rewritten, so reuse cannot extend a grace window.
THEOREM GraceNeverRolls == Spec => WindowNeverRolls
<1>1. IInv /\ [Next]_vars => [\A t \in Issued : revokedAt[t] # -1 => revokedAt'[t] = revokedAt[t]]_vars
  <2> SUFFICES ASSUME IInv, Next
               PROVE  \A t \in Issued : revokedAt[t] # -1 => revokedAt'[t] = revokedAt[t]
    OBVIOUS
  <2>1. CASE UNCHANGED revokedAt
    BY <2>1
  <2>2. ASSUME NEW r \in Requests, Write(r)
        PROVE  \A t \in Issued : revokedAt[t] # -1 => revokedAt'[t] = revokedAt[t]
    <3>1. WriteEffect(r)
      BY <2>2, LoginEffect, RotateEffect, TheftEffect, InvalidEffect, LogoutEffect, RevokeEffect,
         OthersEffect, UserEffect
      DEF Write
    <3> QED
      BY <3>1 DEF WriteEffect, OldTokens
  <2>3. CASE Tick \/ \E u \in Users : Reactivate(u)
    BY <2>1, <2>3 DEF Tick, Reactivate, tokenVars
  <2>4. CASE \E r \in Requests : refresh(r) \/ logout(r)
    BY <2>1, <2>4 DEF refresh, Refresh, logout, Logout, Begin, tokenVars
  <2>5. CASE \E r \in Requests, u \in Users :
               Login(r, u) \/ change_password(r, u) \/ Deactivate(r, u)
    BY <2>1, <2>5 DEF Login, change_password, ChangePassword, Deactivate, Begin, tokenVars
  <2>6. CASE \E r \in Requests, u \in Users : revoke_session(r, u) \/ revoke_other_sessions(r, u)
    BY <2>1, <2>6 DEF revoke_session, RevokeSession, revoke_other_sessions, RevokeOtherSessions,
       Begin, tokenVars
  <2>7. CASE \E r \in Requests : UpdateRow(r) \/ Read(r) \/ \E u \in Users : Acquire(r, u)
    BY <2>1, <2>7 DEF UpdateRow, Read, Acquire, tokenVars
  <2> QED
    BY <2>2, <2>3, <2>4, <2>5, <2>6, <2>7 DEF Next
<1> QED
  BY <1>1, Invariance, PTL DEF Spec, WindowNeverRolls

-----------------------------------------------------------------------------
(* Requests do not wait for each other in a circle.                          *)

\* A request holds nothing until its user row is updated, and the session locks it
\* still lacks come after those it has.
Queued(r) ==
    /\ \A u \in Users : rowLock[u] = r \/ lock[u] = r => req[r].pc \in {"locking", "reading", "writing"}
    /\ req[r].pc = "locking" => \A u \in Users : lock[u] = r => \A v \in Lacks(r) : u < v
Queue == \A r \in Requests : Queued(r)

\* Another request's place is not disturbed.
LEMMA OtherQueued ==
  ASSUME IInv, Queue, NEW s \in Requests, req'[s] = req[s],
         \A t \in Issued : owner'[t] = owner[t],
         \A u \in Users : (lock'[u] = s <=> lock[u] = s) /\ (rowLock'[u] = s <=> rowLock[u] = s)
  PROVE  Queued(s)'
<1>1. Needs(s)' = Needs(s)
  BY DEF IInv, RequestsSound, RequestSound, Presents, Needs
<1>2. req[s].pc = "locking" => Needs(s) \subseteq Users
  BY NeedsUsers
<1>3. req[s].pc = "locking" => Lacks(s)' = Lacks(s)
  BY <1>1, <1>2 DEF Lacks
<1> QED
  BY <1>3 DEF Queue, Queued

\* Nor are the places of all while nothing is locked, freed or moved on.
LEMMA AllQueued ==
  ASSUME IInv, Queue, UNCHANGED <<tokenVars, lockVars, req>> PROVE Queue'
  BY OtherQueued DEF Queue, tokenVars, lockVars

\* A request begins with nothing locked.
LEMMA BeginQueues ==
  ASSUME IInv, Queue, NEW r \in Requests, NEW op, NEW pc, NEW u, NEW t, NEW k,
         Begin(r, op, pc, u, t, k)
  PROVE  Queue'
<1>1. UNCHANGED <<tokenVars, lockVars>> /\ req[r].pc = "idle"
      /\ \A s \in Requests \ {r} : req'[s] = req[s]
  BY DEF Begin, Idle, IInv, TypeOK
<1>2. \A v \in Users : rowLock[v] # r /\ lock[v] # r
  BY <1>1 DEF Queue, Queued
<1>3. Queued(r)'
  BY <1>1, <1>2 DEF Queued, lockVars
<1> QED
  BY <1>1, <1>3, OtherQueued DEF Queue, tokenVars, lockVars

\* A request that finishes frees what it holds.
LEMMA FinishQueues ==
  ASSUME IInv, Queue, NEW r \in Requests, Finish(r), \A t \in Issued : owner'[t] = owner[t]
  PROVE  Queue'
<1>1. /\ \A s \in Requests \ {r} : req'[s] = req[s]
      /\ \A v \in Users : lock'[v] # r /\ rowLock'[v] # r
      /\ \A v \in Users, s \in Requests \ {r} :
           (lock'[v] = s <=> lock[v] = s) /\ (rowLock'[v] = s <=> rowLock[v] = s)
  BY RequestsAssumption DEF Finish, IInv, TypeOK
<1>2. Queued(r)'
  BY <1>1 DEF Queued
<1> QED
  BY <1>1, <1>2, OtherQueued DEF Queue

\* The row is the first lock a request takes.
LEMMA UpdateRowQueues == ASSUME IInv, Queue, NEW r \in Requests, UpdateRow(r) PROVE Queue'
<1>1. CASE Finish(r)
  BY <1>1, FinishQueues DEF UpdateRow, tokenVars
<1>2. CASE ~Finish(r)
  <2>1. /\ lock' = lock /\ UNCHANGED tokenVars /\ req'[r].pc = "locking" /\ req[r].pc = "updating"
        /\ \A s \in Requests \ {r} : req'[s] = req[s]
    BY <1>2 DEF UpdateRow, IInv, TypeOK, RequestRecords, Idle
  <2>2. \A v \in Users, s \in Requests \ {r} : rowLock'[v] = s <=> rowLock[v] = s
    BY <1>2, RequestsAssumption DEF UpdateRow, IInv, TypeOK
  <2>3. Queued(r)'
    BY <2>1 DEF Queue, Queued
  <2> QED
    BY <2>1, <2>2, <2>3, OtherQueued DEF Queue, tokenVars
<1> QED
  BY <1>1, <1>2

\* The lock taken is the lowest one lacking.
LEMMA AcquireQueues ==
  ASSUME IInv, Queue, NEW r \in Requests, NEW u \in Users, Acquire(r, u) PROVE Queue'
<1>1. /\ lock' = [lock EXCEPT ![u] = r] /\ lock[u] = NoRequest
      /\ req[r].pc = "locking" /\ UNCHANGED <<tokenVars, rowLock>>
      /\ \A s \in Requests \ {r} : req'[s] = req[s]
      /\ u \in Lacks(r) /\ \A v \in Lacks(r) : u <= v
  BY DEF Acquire, IInv, TypeOK, NextLocks
<1>2. /\ req'[r].pc \in {"locking", "reading", "writing"}
      /\ req'[r].user = req[r].user /\ req'[r].cookie = req[r].cookie
  BY <1>1 DEF Acquire, IInv, TypeOK, RequestRecords, Idle
<1>3. Needs(r)' = Needs(r) /\ Needs(r) \subseteq Users
  BY <1>1, <1>2, NeedsUsers DEF Needs, tokenVars
<1>4. Lacks(r)' = Lacks(r) \ {u}
  BY <1>1, <1>3 DEF Lacks, IInv, TypeOK
<1>5. \A v \in Users : lock'[v] = r => \A w \in Lacks(r)' : v < w
  <2>1. Lacks(r) \subseteq Nat /\ u \in Nat
    BY <1>3, UsersAssumption DEF Lacks
  <2>2. \A w \in Lacks(r) \ {u} : u < w
    BY <1>1, <2>1
  <2>3. \A v \in Users : lock'[v] = r => v = u \/ lock[v] = r
    BY <1>1 DEF IInv, TypeOK
  <2> QED
    BY <1>1, <1>4, <2>2, <2>3 DEF Queue, Queued
<1>6. Queued(r)'
  BY <1>2, <1>5 DEF Queued
<1>7. \A v \in Users, s \in Requests \ {r} : lock'[v] = s <=> lock[v] = s
  BY <1>1, RequestsAssumption DEF IInv, TypeOK
<1> QED
  BY <1>1, <1>6, <1>7, OtherQueued DEF Queue, tokenVars

\* Reads and writes come when all locks are had.
LEMMA ReadQueues == ASSUME IInv, Queue, NEW r \in Requests, Read(r) PROVE Queue'
<1>1. /\ UNCHANGED <<tokenVars, lockVars>> /\ req'[r].pc = "writing"
      /\ \A s \in Requests \ {r} : req'[s] = req[s]
  BY DEF Read, ReadRefresh, ReadLogin, IInv, TypeOK, RequestRecords, Idle
<1>2. Queued(r)'
  BY <1>1 DEF Queued
<1> QED
  BY <1>1, <1>2, OtherQueued DEF Queue, tokenVars, lockVars

LEMMA WriteQueues == ASSUME IInv, Queue, NEW r \in Requests, Write(r) PROVE Queue'
<1>1. WriteEffect(r)
  BY LoginEffect, RotateEffect, TheftEffect, InvalidEffect, LogoutEffect, RevokeEffect,
     OthersEffect, UserEffect
  DEF Write
<1>2. \A t \in Issued : owner'[t] = owner[t]
  BY <1>1 DEF WriteEffect, OldTokens
<1> QED
  BY <1>2, FinishQueues DEF Write

LEMMA QueueKeeps == IInv /\ Queue /\ [Next]_vars => Queue'
<1> SUFFICES ASSUME IInv, Queue, [Next]_vars PROVE Queue'
  OBVIOUS
<1>1. CASE Tick \/ (\E u \in Users : Reactivate(u)) \/ UNCHANGED vars
  BY <1>1, AllQueued DEF Tick, Reactivate, vars
<1>2. CASE \E r \in Requests : refresh(r) \/ logout(r)
  BY <1>2, BeginQueues DEF refresh, Refresh, logout, Logout
<1>3. CASE \E r \in Requests, u \in Users :
             \/ Login(r, u) \/ change_password(r, u) \/ Deactivate(r, u)
             \/ revoke_session(r, u) \/ revoke_other_sessions(r, u)
  BY <1>3, BeginQueues DEF Login, change_password, ChangePassword, Deactivate,
     revoke_session, RevokeSession, revoke_other_sessions, RevokeOtherSessions
<1>4. CASE \E r \in Requests, u \in Users : Acquire(r, u)
  BY <1>4, AcquireQueues
<1>5. CASE \E r \in Requests : UpdateRow(r) \/ Read(r) \/ Write(r)
  BY <1>5, UpdateRowQueues, ReadQueues, WriteQueues
<1> QED
  BY <1>1, <1>2, <1>3, <1>4, <1>5 DEF Next

\* Of the subsets of a finite set that a function gives, one contains no other.
LEMMA SmallestSubset ==
  ASSUME NEW S, IsFiniteSet(S), NEW I, I # {}, NEW f \in [I -> SUBSET S]
  PROVE  \E i \in I : \A j \in I : f[j] \subseteq f[i] => f[j] = f[i]
<1> DEFINE F == {f[i] : i \in I}
<1>1. F \subseteq FiniteSubsetsOf(S) /\ F # {}
  BY FS_Subset DEF FiniteSubsetsOf
<1>2. IsWellFoundedOn(StrictSubsetOrdering(S), FiniteSubsetsOf(S))
  BY FS_StrictSubsetOrderingWellFounded
<1> HIDE DEF F
<1>3. PICK A \in F : \A B \in F : <<B, A>> \notin StrictSubsetOrdering(S)
  BY <1>1, <1>2, WFMin
<1>4. PICK i \in I : A = f[i]
  BY DEF F
<1>5. ASSUME NEW j \in I, f[j] \subseteq f[i] PROVE f[j] = f[i]
  <2>1. f[j] \in F
    BY DEF F
  <2>2. f[i] \in SUBSET S /\ f[j] \in SUBSET S
    OBVIOUS
  <2> QED
    BY <1>1, <1>3, <1>4, <1>5, <2>1, <2>2 DEF StrictSubsetOrdering
<1> QED
  BY <1>5

\* Of requests that all wait for one of them, the one that has got furthest in the order
\* of the keys waits for one that is further still.
LEMMA NobodyStuck ==
  ASSUME IInv, Queue, NEW waiting \in SUBSET Requests, waiting # {},
         \A r \in waiting : WaitsFor(r) \cap waiting # {}
  PROVE  FALSE
<1> DEFINE Locking == {r \in waiting : req[r].pc = "locking"}
           Ahead == [r \in Locking |-> {v \in Users : \E w \in Lacks(r) : w <= v}]
<1>1. \A r \in waiting : req[r].pc \in {"updating", "locking"} /\ r # NoRequest
  BY RequestsAssumption DEF WaitsFor
<1>2. ASSUME NEW r \in Locking
      PROVE  \E u \in Lacks(r), s \in Locking : lock[u] = s /\ u \in Users /\ \A v \in Lacks(r) : u <= v
  <2>1. PICK u \in NextLocks(r) : lock[u] \in waiting
    BY DEF WaitsFor
  <2>2. u \in Lacks(r) /\ u \in Users /\ \A v \in Lacks(r) : u <= v
    BY NeedsUsers DEF NextLocks, Lacks
  <2>3. lock[u] \in Locking
    BY <1>1, <2>1, <2>2 DEF Queue, Queued
  <2> QED
    BY <2>2, <2>3
<1>3. Locking # {}
  <2>1. PICK r \in waiting : TRUE
    OBVIOUS
  <2>2. CASE req[r].pc = "updating"
    <3>1. req[r].user \in Users /\ rowLock[req[r].user] \in waiting
      BY <2>2 DEF WaitsFor, IInv, TypeOK, RequestRecords, Idle
    <3> QED
      BY <1>1, <3>1 DEF Queue, Queued
  <2> QED
    BY <1>1, <2>2
<1>4. /\ \A r \in Locking : Ahead[r] = {v \in Users : \E w \in Lacks(r) : w <= v}
      /\ Ahead \in [Locking -> SUBSET Users]
      /\ \A r \in Locking : r \in Requests /\ req[r].pc = "locking"
  OBVIOUS
<1> HIDE DEF Ahead
<1> HIDE DEF Locking
<1>5. PICK r \in Locking : \A s \in Locking : Ahead[s] \subseteq Ahead[r] => Ahead[s] = Ahead[r]
  BY <1>3, <1>4, SmallestSubset, UsersAssumption
<1>6. PICK u \in Lacks(r), s \in Locking : lock[u] = s /\ u \in Users /\ \A v \in Lacks(r) : u <= v
  BY <1>2
<1>7. u \in Nat /\ Users \subseteq Nat /\ \A w \in Lacks(s) : w \in Users /\ u < w
  <2>1. Lacks(s) \subseteq Users
    BY <1>4, NeedsUsers DEF Lacks
  <2> QED
    BY <1>4, <1>6, <2>1, UsersAssumption DEF Queue, Queued
<1>8. u \in Ahead[r] /\ u \notin Ahead[s]
  BY <1>4, <1>6, <1>7
<1>9. Ahead[s] \subseteq Ahead[r]
  <2>1. ASSUME NEW v \in Ahead[s] PROVE v \in Ahead[r]
    <3>1. v \in Users /\ v \in Nat /\ \E w \in Lacks(s) : w <= v
      BY <1>4, <1>7, <2>1
    <3>2. u <= v
      BY <1>7, <3>1
    <3> QED
      BY <1>4, <1>6, <3>1, <3>2
  <2> QED
    BY <2>1
<1> QED
  BY <1>5, <1>8, <1>9

\* However many requests log in, refresh, log out, change passwords and deactivate at
\* once: among any that wait, one waits for a request outside them, or for nobody.
THEOREM SessionLocksOrdered == Spec => []NoDeadlock
<1>1. Init => Queue
  BY RequestsAssumption DEF Init, Queue, Queued, Idle
<1>2. IInv /\ Queue => NoDeadlock
  BY NobodyStuck DEF NoDeadlock
<1> QED
  BY <1>1, <1>2, QueueKeeps, Invariance, PTL DEF Spec
=============================================================================
