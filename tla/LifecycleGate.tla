---------------------------- MODULE LifecycleGate ----------------------------
(* What a change to a stopped server's content runs against: the per-server   *)
(* lifecycle lock (servers/adapters/lifecycle_lock.py) and the server's state *)
(* as Server.is_at_rest sees it.  A start claims the row under the same lock, *)
(* hydrates the worker from the store and runs; a stop publishes the worker's *)
(* copy back.  The flows behind those two steps are ServerLifecycle's.        *)
CONSTANTS
  Requests,  \* concurrent requests to one server
  NoOne      \* the lock is free

VARIABLES
  srv,       \* "rest", "starting" (row claimed, not yet hydrated) or "running"
  holder     \* the request that holds the lifecycle lock

GateInit == srv = "rest" /\ holder = NoOne

is_at_rest == srv = "rest"

\* PgLifecycleLock.hold: a request that cannot get the lock within its budget is
\* answered ServerBusy and changes nothing, so only those that get it are steps.
hold(r) == holder = NoOne /\ holder' = r

unlock(r) == holder = r /\ holder' = NoOne

\* StartServer flips the row inside a hold of its own.
StartClaims == holder = NoOne /\ is_at_rest /\ srv' = "starting" /\ UNCHANGED holder

\* A crash of the process closes the lock's connection, which frees the lock.
LockLost == holder # NoOne /\ holder' = NoOne /\ UNCHANGED srv
=============================================================================
