-------------------------- MODULE FinalSnapshotHold --------------------------
(***************************************************************************)
(* What the stop flow relies on when it asks whether a final snapshot is   *)
(* still outstanding (ControlPlaneState.final_snapshot_outstanding): a     *)
(* final snapshot is held from its dispatch until its result is consumed,  *)
(* by the waiting caller or by the late-result sink and never by both, or  *)
(* until no result can follow any more.  What is settled stays settled.    *)
(***************************************************************************)
CONSTANT Snapshots    \* final snapshot commands

VARIABLE hold         \* per snapshot: its standing

Init == hold = [c \in Snapshots |-> "none"]

Settle(c, from, to) == hold[c] = from /\ hold' = [hold EXCEPT ![c] = to]

Take(c) == Settle(c, "none", "held")
Refuse(c) == Settle(c, "none", "lost")
Answer(c) == Settle(c, "held", "answered")
ReleaseLate(c) == Settle(c, "held", "released")

\* A session ends: the snapshots it carried are lost together.
Lose(cs) ==
    /\ \A c \in cs : hold[c] = "held"
    /\ hold' = [c \in Snapshots |-> IF c \in cs THEN "lost" ELSE hold[c]]

Next ==
    \/ \E c \in Snapshots : Take(c) \/ Refuse(c) \/ Answer(c) \/ ReleaseLate(c)
    \/ \E cs \in SUBSET Snapshots : Lose(cs)

Spec == Init /\ [][Next]_hold

=============================================================================
