---------------------------- MODULE LoginThrottle ----------------------------
(* Brute-force protection of login and the per-IP cap of registration, for    *)
(* one username and one client address (identity/application/login.py,        *)
(* register_user.py, identity/domain/brute_force.py and                       *)
(* identity/adapters/login_attempt_store.py).                                 *)
(*                                                                            *)
(* Every call of the store is a transaction of its own, so overlapping        *)
(* attempts interleave between them.  A request reads the clock once.         *)
EXTENDS Integers, FiniteSets, FiniteSetsExt

CONSTANTS
  Attempts,      \* concurrent attempts
  UserThreshold, UserWindow,  \* username_threshold, username_window
  IpThreshold, IpWindow,      \* of failed logins
  RegThreshold, RegWindow,    \* of registrations
  Base, Maximum,  \* lockout_base, lockout_max
  Horizon,        \* bound on the clock
  MaxAttempts     \* bound on the attempts ever made

Never == -1
Times == 0..Horizon

VARIABLES
  time,
  failures,   \* how many failed login_attempt rows each instant has
  signups,    \* how many registration rows
  lockout,    \* account_lockout: locked_until and lockout_count
  attempt,
  made,       \* attempts so far
  registered, \* history: the registrations let through, none pruned
  overlap     \* history: the instants of the failures last judged together

vars == <<time, failures, signups, lockout, attempt, made, registered, overlap>>

NoLockout == [until |-> Never, count |-> 0]
Idle == [pc |-> "idle", now |-> 0, prior |-> 0]

\* The rows of a window that reaches back from an instant.
Since(f, from) == LET At(t) == f[t] IN MapThenSumSet(At, {t \in Times: t >= from})

\* backoff_cap_count: the bit length of the quotient.
backoff_cap_count == Cardinality({k \in 0..Maximum: 2^k <= Maximum \div Base})

backoff_duration(n) ==
  IF n >= backoff_cap_count THEN Maximum
  ELSE Min({Base * 2^n, Maximum})

is_locked(l, now) == l.until > now

prune_horizon == Max({UserWindow, IpWindow, RegWindow})

TypeOK ==
  /\ time \in Times /\ made \in 0..MaxAttempts /\ overlap \subseteq Times
  /\ failures \in [Times -> 0..MaxAttempts] /\ signups \in [Times -> 0..MaxAttempts]
  /\ registered \in [Times -> 0..MaxAttempts]
  /\ lockout.count \in 0..backoff_cap_count
  /\ lockout.until \in Never..(Horizon + Maximum)
  /\ \A a \in Attempts: attempt[a].pc \in {"idle", "checking", "verify", "failed", "recorded",
                                           "judged", "passed", "clearing", "pruning", "admitted"}

Init ==
  /\ time = 0 /\ made = 0 /\ overlap = {}
  /\ failures = [t \in Times |-> 0] /\ signups = [t \in Times |-> 0]
  /\ registered = signups
  /\ lockout = NoLockout
  /\ attempt = [a \in Attempts |-> Idle]

Tick ==
  /\ time < Horizon
  /\ time' = time + 1
  /\ UNCHANGED <<failures, signups, lockout, attempt, made, registered, overlap>>

Goes(a, from, to) == attempt[a].pc = from /\ attempt' = [attempt EXCEPT ![a].pc = to]
Leaves(a) == attempt' = [attempt EXCEPT ![a] = Idle]

Begin(a, pc) ==
  /\ attempt[a] = Idle /\ made < MaxAttempts
  /\ made' = made + 1
  /\ attempt' = [attempt EXCEPT ![a] = [Idle EXCEPT !.pc = pc, !.now = time]]

-----------------------------------------------------------------------------
(* Login.                                                                     *)

\* _blocked_reason, first half: the address is over its threshold.
BeginLogin(a) ==
  /\ Begin(a, IF Since(failures, time - IpWindow) >= IpThreshold THEN "failed" ELSE "checking")
  /\ UNCHANGED <<time, failures, signups, lockout, registered, overlap>>

\* The second half: the username is locked.
CheckLockout(a) ==
  /\ Goes(a, "checking", IF is_locked(lockout, attempt[a].now) THEN "failed" ELSE "verify")
  /\ UNCHANGED <<time, failures, signups, lockout, made, registered, overlap>>

\* The credentials, and the account as read again under the session lock.
Verify(a) ==
  /\ Goes(a, "verify", "passed") \/ Goes(a, "verify", "failed")
  /\ UNCHANGED <<time, failures, signups, lockout, made, registered, overlap>>

\* Failures recorded and not yet judged.
Unjudged == {a \in Attempts: attempt[a].pc \in {"recorded", "judged"}}
Quiet == Unjudged = {}

\* record_attempt of a failure.
RecordFailure(a) ==
  /\ Goes(a, "failed", "recorded")
  /\ failures' = [failures EXCEPT ![attempt[a].now] = @ + 1]
  /\ overlap' = {attempt[a].now} \cup (IF Quiet THEN {} ELSE overlap)
  /\ UNCHANGED <<time, signups, lockout, made, registered>>

\* _maybe_lock: the lockout in force first, then the count of failures.
ReadLockout(a) ==
  /\ attempt[a].pc = "recorded"
  /\ attempt' = [attempt EXCEPT ![a] =
                   IF is_locked(lockout, attempt[a].now) THEN Idle
                   ELSE [@ EXCEPT !.pc = "judged", !.prior = lockout.count]]
  /\ UNCHANGED <<time, failures, signups, lockout, made, registered, overlap>>

OverThreshold(a) == Since(failures, attempt[a].now - UserWindow) >= UserThreshold

Locked(a) ==
  [until |-> attempt[a].now + backoff_duration(attempt[a].prior),
   count |-> Min({attempt[a].prior + 1, backoff_cap_count})]

Lock(a) ==
  /\ attempt[a].pc = "judged"
  /\ lockout' = IF OverThreshold(a) THEN Locked(a) ELSE lockout
  /\ Leaves(a)
  /\ UNCHANGED <<time, failures, signups, made, registered, overlap>>

\* A success clears the lockout and resets the back-off, then prunes.
ClearLockout(a) ==
  /\ Goes(a, "passed", "pruning")
  /\ lockout' = NoLockout
  /\ overlap' = {attempt[b].now: b \in Unjudged}
  /\ UNCHANGED <<time, failures, signups, made, registered>>

PrunedFrom(now, f) == [t \in Times |-> IF t < now - prune_horizon THEN 0 ELSE f[t]]

Prune(a) ==
  /\ attempt[a].pc = "pruning"
  /\ failures' = PrunedFrom(attempt[a].now, failures)
  /\ signups' = PrunedFrom(attempt[a].now, signups)
  /\ Leaves(a)
  /\ UNCHANGED <<time, lockout, made, registered, overlap>>

\* The periodic prune.
PruneTick ==
  /\ failures' = PrunedFrom(time, failures)
  /\ signups' = PrunedFrom(time, signups)
  /\ UNCHANGED <<time, lockout, attempt, made, registered, overlap>>

-----------------------------------------------------------------------------
(* Registration: counted, then recorded.                                      *)

UnderCap(now) == Since(signups, now - RegWindow) < RegThreshold

BeginRegistration(a) ==
  /\ UnderCap(time)
  /\ Begin(a, "admitted")
  /\ UNCHANGED <<time, failures, signups, lockout, registered, overlap>>

RecordRegistration(a) ==
  /\ attempt[a].pc = "admitted"
  /\ signups' = [signups EXCEPT ![attempt[a].now] = @ + 1]
  /\ registered' = [registered EXCEPT ![attempt[a].now] = @ + 1]
  /\ Leaves(a)
  /\ UNCHANGED <<time, failures, lockout, made, overlap>>

-----------------------------------------------------------------------------

Step(a) ==
  \/ BeginLogin(a) \/ CheckLockout(a) \/ Verify(a) \/ RecordFailure(a) \/ ReadLockout(a)
  \/ Lock(a) \/ ClearLockout(a) \/ Prune(a) \/ BeginRegistration(a) \/ RecordRegistration(a)

Next == Tick \/ PruneTick \/ \E a \in Attempts: Step(a)

Spec == Init /\ [][Next]_vars

-----------------------------------------------------------------------------

\* No failure slips past the lock: when overlapping failures have all been judged and the
\* window of the latest holds the threshold, the username was locked past the first of
\* them, in whatever order they were recorded and counted (Login._maybe_lock).
NoMissedLock ==
  Quiet /\ overlap # {} /\ Since(failures, Max(overlap) - UserWindow) >= UserThreshold
    => lockout.until > Min(overlap)

\* Overlapping registrations pass the cap by no more than the others in flight, and
\* pruning never forgets one that still counts (count_ip_registrations, prune_horizon).
RegistrationsCapped ==
  \A t \in Times: t <= time =>
    Since([i \in Times |-> IF i <= t THEN registered[i] ELSE 0], t - RegWindow)
      <= RegThreshold + Cardinality(Attempts) - 1
=============================================================================
