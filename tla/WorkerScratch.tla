---------------------------- MODULE WorkerScratch ----------------------------
(* One server's directories on a Worker: the working dir, the recovery slot   *)
(* .displaced-<id>, the .hydrate-<id>-* temporaries and the .sweeping-<id>-*  *)
(* trees (instancemanager.go, generation.go, scratchscan.go, datatransfer.go).*)
(*                                                                            *)
(* A hydrate and a stopped server's snapshot hold the server's reservation.   *)
(* A running server's snapshot does not: its tail (stamp the generation, sweep*)
(* the slot) may run after the server was stopped and hydrated again, and is  *)
(* held back only by the pin on the directory it packed.  Each rename is a    *)
(* step of its own.                                                           *)
EXTENDS Integers, FiniteSets

CONSTANTS
  MaxTree,  \* bound on the directories ever made
  MaxGen    \* bound on the store's generation

Trees == 1..MaxTree
Unmarked == -1   \* no generation marker

VARIABLES
  tree,      \* where each directory is, its marker, what it really holds
  store,     \* the generation of the API's store
  running,   \* an instance is in the manager's table
  hold,      \* which command holds the reservation
  hyd,       \* the hydrate in flight
  fin,       \* the stopped server's snapshot in flight
  run,       \* the running server's snapshot in flight
  slotClaim  \* which sweep holds sweepingSlot

\* History.
VARIABLES
  displaced, \* worlds a hydrate moved out of the working dir
  covered,   \* worlds displaced before a pack that was published
  lost       \* the process died while a recovery copy had a temporary name

files == <<tree, store>>
history == <<displaced, covered, lost>>
vars == <<files, running, hold, hyd, fin, run, slotClaim, history>>

Places == {"unused", "work", "slot", "hydrate", "sweeping", "gone"}
Unused == [at |-> "unused", mark |-> Unmarked, base |-> 0, world |-> FALSE]
NoHydrate == [pc |-> "idle", temp |-> 0, aside |-> 0, drop |-> FALSE, gen |-> 0]
NoFinal == [pc |-> "idle", covers |-> {}, trash |-> 0]
NoRun == [pc |-> "idle", pin |-> 0, packed |-> 0, gen |-> 0, fd |-> 0, trash |-> 0,
          covers |-> {}]

TypeOK ==
  /\ tree \in [Trees -> [at: Places, mark: -1..MaxGen, base: 0..MaxGen, world: BOOLEAN]]
  /\ \A p \in {"work", "slot"}: Cardinality({t \in Trees: tree[t].at = p}) <= 1
  /\ store \in 0..MaxGen /\ running \in BOOLEAN
  /\ hold \in {"none", "hydrate", "final"} /\ slotClaim \in {"none", "run", "final"}
  /\ hyd \in [pc: {"idle", "unpacked", "park", "swap", "drop", "discard", "record"},
              temp: 0..MaxTree, aside: 0..MaxTree, drop: BOOLEAN, gen: 0..MaxGen]
  /\ fin \in [pc: {"idle", "packed", "collect", "claim", "remove"}, covers: SUBSET Trees,
              trash: 0..MaxTree]
  /\ run \in [pc: {"idle", "pinned", "packed", "stamp", "open", "temp", "rename", "gate",
                   "claim", "detach", "recheck", "putback", "remove"},
              pin: 0..MaxTree, packed: 0..MaxTree, gen: 0..MaxGen, fd: 0..MaxTree,
              trash: 0..MaxTree, covers: SUBSET Trees]
  /\ displaced \subseteq Trees /\ covered \subseteq Trees /\ lost \in BOOLEAN

Init ==
  /\ tree = [t \in Trees |-> Unused] /\ store = 0
  /\ running = FALSE /\ hold = "none"
  /\ hyd = NoHydrate /\ fin = NoFinal /\ run = NoRun /\ slotClaim = "none"
  /\ displaced = {} /\ covered = {} /\ lost = FALSE

-----------------------------------------------------------------------------
(* Directories.                                                               *)

\* The directory under a name that holds at most one, 0 when there is none.
Occupant(p) == IF \E t \in Trees: tree[t].at = p
                 THEN CHOOSE t \in Trees: tree[t].at = p ELSE 0

Work == Occupant("work")
Slot == Occupant("slot")

\* hasWorkingSet: an entry besides the generation marker and its temporaries.
HoldsWorkingSet(t) == t # 0 /\ tree[t].world

CanMake == \E t \in Trees: tree[t].at = "unused"
Fresh == CHOOSE t \in Trees: tree[t].at = "unused" /\ \A u \in Trees: u < t => tree[u].at # "unused"

\* The trees after the directories in S move to p.
Moved(S, p) == [t \in Trees |-> IF t \in S THEN [tree[t] EXCEPT !.at = p] ELSE tree[t]]

Under(p) == {t \in Trees: tree[t].at = p}
Present == {t \in Trees: tree[t].at \notin {"unused", "gone"}}

-----------------------------------------------------------------------------
(* The API's store and the server process.                                    *)

\* Another Worker's snapshot, an edit or a restore publishes.
StoreMoves ==
  /\ store < MaxGen
  /\ store' = store + 1
  /\ UNCHANGED <<tree, running, hold, hyd, fin, run, slotClaim, history>>

\* launchReserved refuses a working dir without a generation marker; a server that
\* starts writes a world into it.
Start ==
  /\ hold = "none" /\ ~running
  /\ Work # 0 /\ tree[Work].mark # Unmarked
  /\ running' = TRUE
  /\ tree' = [tree EXCEPT ![Work].world = TRUE]
  /\ UNCHANGED <<store, hold, hyd, fin, run, slotClaim, history>>

\* The server stops or crashes; the working dir stays.
Stop ==
  /\ running
  /\ running' = FALSE
  /\ UNCHANGED <<files, hold, hyd, fin, run, slotClaim, history>>

-----------------------------------------------------------------------------
(* handleHydrate: unpackAndSwap, then the marker.                             *)

\* The stream is unpacked, with its marker, into a fresh .hydrate- directory, after
\* the leftovers of earlier hydrates are removed.  A store without a snapshot
\* answers 204 and nothing is unpacked.
HydrateBegin ==
  /\ hold = "none" /\ ~running
  /\ hold' = "hydrate"
  /\ IF store = 0
       THEN /\ hyd' = [NoHydrate EXCEPT !.pc = "record"]
            /\ UNCHANGED tree
       ELSE /\ CanMake
            /\ hyd' = [NoHydrate EXCEPT !.pc = "unpacked", !.temp = Fresh, !.gen = store]
            /\ tree' = [Moved(Under("hydrate"), "gone") EXCEPT ![Fresh] =
                          [at |-> "hydrate", mark |-> store, base |-> store,
                           world |-> TRUE]]
  /\ UNCHANGED <<store, running, fin, run, slotClaim, history>>

\* The hydrate returns an error: its temporary is removed and the reservation released.
HydrateGivesUp(moved) ==
  /\ tree' = [moved EXCEPT ![hyd.temp].at = "gone"]
  /\ hyd' = NoHydrate /\ hold' = "none"

\* A broken stream, or a slot that cannot be read.
HydrateFails ==
  /\ hyd.pc = "unpacked"
  /\ HydrateGivesUp(tree)
  /\ UNCHANGED <<store, running, fin, run, slotClaim, history>>

\* displacedSlotHoldsWorkingSet: an occupied slot is kept and the live set will be
\* dropped (oldest wins); anything without a world in the slot is cleared.
HydrateChecksSlot ==
  /\ hyd.pc = "unpacked"
  /\ IF Work = 0
       THEN hyd' = [hyd EXCEPT !.pc = "swap"] /\ UNCHANGED tree
       ELSE /\ hyd' = [hyd EXCEPT !.pc = "park", !.drop = HoldsWorkingSet(Slot)]
            /\ tree' = IF Slot # 0 /\ ~HoldsWorkingSet(Slot) THEN Moved({Slot}, "gone") ELSE tree
  /\ UNCHANGED <<store, running, hold, fin, run, slotClaim, history>>

\* The live set is renamed aside: into the slot, or under a sweepable name.  A slot
\* filled since the check makes the rename, and the hydrate, fail.
HydratePark ==
  /\ hyd.pc = "park"
  /\ IF ~hyd.drop /\ Slot # 0
       THEN HydrateGivesUp(tree) /\ UNCHANGED displaced
       ELSE /\ tree' = Moved({Work}, IF hyd.drop THEN "hydrate" ELSE "slot")
            /\ hyd' = [hyd EXCEPT !.pc = "swap", !.aside = Work]
            /\ displaced' = IF tree[Work].world THEN displaced \cup {Work} ELSE displaced
            /\ UNCHANGED hold
  /\ UNCHANGED <<store, running, fin, run, slotClaim, covered, lost>>

\* The new tree is renamed into place.  A directory made there since makes the swap
\* fail, and the put-back of the parked set with it.
HydrateSwap ==
  /\ hyd.pc = "swap"
  /\ IF Work # 0
       THEN HydrateGivesUp(tree)
       ELSE /\ tree' = Moved({hyd.temp}, "work")
            /\ hyd' = [hyd EXCEPT !.pc = IF hyd.drop THEN "drop" ELSE "record"]
            /\ UNCHANGED hold
  /\ UNCHANGED <<store, running, fin, run, slotClaim, history>>

\* The swap itself fails: the parked set goes straight back, unless a sweep has taken
\* it out of the slot meanwhile.
HydrateSwapFails ==
  /\ hyd.pc = "swap" /\ Work = 0
  /\ LET back == {hyd.aside} \cap (Under("slot") \cup Under("hydrate"))
     IN  HydrateGivesUp(Moved(back, "work")) /\ displaced' = displaced \ back
  /\ UNCHANGED <<store, running, fin, run, slotClaim, covered, lost>>

\* The slot is looked at again before the drop: if a sweep emptied it, the parked set
\* takes it instead.
HydrateDrop ==
  /\ hyd.pc = "drop"
  /\ IF Slot # 0
       THEN hyd' = [hyd EXCEPT !.pc = "discard"] /\ UNCHANGED tree
       ELSE hyd' = [hyd EXCEPT !.pc = "record"] /\ tree' = Moved({hyd.aside}, "slot")
  /\ UNCHANGED <<store, running, hold, fin, run, slotClaim, history>>

HydrateDiscard ==
  /\ hyd.pc = "discard"
  /\ hyd' = [hyd EXCEPT !.pc = "record"] /\ tree' = Moved({hyd.aside}, "gone")
  /\ UNCHANGED <<store, running, hold, fin, run, slotClaim, history>>

\* recordGeneration, unconditional: the hydrate still holds the reservation.  After a
\* 204 it makes a directory that holds the marker alone.  A failed write is logged.
HydrateRecord ==
  /\ hyd.pc = "record"
  /\ hyd' = NoHydrate /\ hold' = "none"
  /\ \/ UNCHANGED tree
     \/ Work # 0 /\ tree' = [tree EXCEPT ![Work].mark = hyd.gen]
     \/ /\ Work = 0 /\ CanMake
        /\ tree' = [tree EXCEPT ![Fresh] = [Unused EXCEPT !.at = "work", !.mark = hyd.gen]]
  /\ UNCHANGED <<store, running, fin, run, slotClaim, history>>

-----------------------------------------------------------------------------
(* handleSnapshot of a stopped server: publish, then reclaim the scratch.     *)

\* A working dir without a world is refused.
FinalPack ==
  /\ hold = "none" /\ ~running /\ HoldsWorkingSet(Work)
  /\ hold' = "final"
  /\ fin' = [NoFinal EXCEPT !.pc = "packed", !.covers = displaced]
  /\ UNCHANGED <<files, running, hyd, run, slotClaim, history>>

\* The region check, the pack or the upload fails: the scratch stays.
FinalFails ==
  /\ fin.pc = "packed"
  /\ fin' = NoFinal /\ hold' = "none"
  /\ UNCHANGED <<files, running, hyd, run, slotClaim, history>>

\* The upload is published.  An attempt abandoned at its deadline skips the tail.
FinalPublish ==
  /\ fin.pc = "packed" /\ store < MaxGen
  /\ store' = store + 1
  /\ tree' = [tree EXCEPT ![Work].base = store']
  /\ covered' = covered \cup fin.covers
  /\ \/ fin' = [fin EXCEPT !.pc = "collect"] /\ UNCHANGED hold
     \/ fin' = NoFinal /\ hold' = "none"
  /\ UNCHANGED <<running, hyd, run, slotClaim, displaced, lost>>

\* removeScratch: the .hydrate- leftovers, then the working dir, best effort.
FinalCollect ==
  /\ fin.pc = "collect"
  /\ fin' = [fin EXCEPT !.pc = "claim"]
  /\ LET swept == Moved(Under("hydrate"), "gone")
     IN  tree' \in {[swept EXCEPT ![Work].at = "gone"], swept}
  /\ UNCHANGED <<store, running, hold, hyd, run, slotClaim, history>>

\* sweepDisplaced under the reservation: no pin is re-checked.  A claim another sweep
\* holds makes it decline.
FinalSweep ==
  /\ fin.pc = "claim"
  /\ IF slotClaim # "none" \/ Slot = 0
       THEN fin' = NoFinal /\ hold' = "none" /\ UNCHANGED tree
       ELSE /\ fin' = [fin EXCEPT !.pc = "remove", !.trash = Slot]
            /\ tree' = Moved({Slot}, "sweeping") /\ UNCHANGED hold
  /\ UNCHANGED <<store, running, hyd, run, slotClaim, history>>

\* The tree is removed, or left under its name for the next boot.
FinalRemove ==
  /\ fin.pc = "remove"
  /\ fin' = NoFinal /\ hold' = "none"
  /\ tree' \in {tree, Moved({fin.trash}, "gone")}
  /\ UNCHANGED <<store, running, hyd, run, slotClaim, history>>

-----------------------------------------------------------------------------
(* handleSnapshot of a running server.                                        *)

\* workingDirRef.current: the working dir is still the directory that was pinned.
PinCurrent == run.pin # 0 /\ Work = run.pin

\* The running-snapshot claim is taken and the working dir pinned.
RunBegin ==
  /\ running /\ run.pc = "idle"
  /\ run' = [NoRun EXCEPT !.pc = "pinned", !.pin = Work]
  /\ UNCHANGED <<files, running, hold, hyd, fin, slotClaim, history>>

\* The quiesce, the region check, the pack or the upload fails.
RunFails ==
  /\ run.pc \in {"pinned", "packed"}
  /\ run' = NoRun
  /\ UNCHANGED <<files, running, hold, hyd, fin, slotClaim, history>>

\* The pack walks the working dir by name: it may already be another directory.
RunPack ==
  /\ run.pc = "pinned" /\ Work # 0
  /\ run' = [run EXCEPT !.pc = "packed", !.packed = Work, !.covers = displaced]
  /\ UNCHANGED <<files, running, hold, hyd, fin, slotClaim, history>>

\* The upload is published.  An attempt abandoned at its deadline skips the tail.
RunPublish ==
  /\ run.pc = "packed" /\ store < MaxGen
  /\ store' = store + 1
  /\ tree' = [tree EXCEPT ![run.packed].base = store']
  /\ covered' = covered \cup run.covers
  /\ run' \in {NoRun, [run EXCEPT !.pc = "stamp", !.gen = store']}
  /\ UNCHANGED <<running, hold, hyd, fin, slotClaim, displaced, lost>>

\* recordGenerationIfUnchanged looks at the pin before it opens anything.
RunGuard ==
  /\ run.pc = "stamp"
  /\ run' = [run EXCEPT !.pc = IF PinCurrent THEN "open" ELSE "gate"]
  /\ UNCHANGED <<files, running, hold, hyd, fin, slotClaim, history>>

\* The directory is opened by name, and made if it has gone; the temporary marker is
\* written through that descriptor.
RunOpen ==
  /\ run.pc = "open"
  /\ IF Work # 0
       THEN run' = [run EXCEPT !.pc = "temp", !.fd = Work] /\ UNCHANGED tree
       ELSE /\ CanMake
            /\ run' = [run EXCEPT !.pc = "temp", !.fd = Fresh]
            /\ tree' = [tree EXCEPT ![Fresh] = [Unused EXCEPT !.at = "work"]]
  /\ UNCHANGED <<store, running, hold, hyd, fin, slotClaim, history>>

RunGuardTempSkipped ==
  /\ run.pc = "temp"
  /\ run' = [run EXCEPT !.pc = "rename"]
  /\ UNCHANGED <<files, running, hold, hyd, fin, slotClaim, history>>

\* The pin is checked again before the temporary is renamed over the marker.
RunGuardTemp ==
  /\ run.pc = "temp"
  /\ run' = [run EXCEPT !.pc = IF PinCurrent THEN "rename" ELSE "gate"]
  /\ UNCHANGED <<files, running, hold, hyd, fin, slotClaim, history>>

\* The rename happens inside the opened directory, wherever it is by now.
RunRename ==
  /\ run.pc = "rename"
  /\ run' = [run EXCEPT !.pc = "gate"]
  /\ tree' = IF run.fd \in Present THEN [tree EXCEPT ![run.fd].mark = run.gen] ELSE tree
  /\ UNCHANGED <<store, running, hold, hyd, fin, slotClaim, history>>

\* The sweep is gated on the pin.
RunGate ==
  /\ run.pc = "gate"
  /\ run' = IF PinCurrent THEN [run EXCEPT !.pc = "claim"] ELSE NoRun
  /\ UNCHANGED <<files, running, hold, hyd, fin, slotClaim, history>>

RunClaim ==
  /\ run.pc = "claim"
  /\ IF slotClaim = "none"
       THEN slotClaim' = "run" /\ run' = [run EXCEPT !.pc = "detach"]
       ELSE run' = NoRun /\ UNCHANGED slotClaim
  /\ UNCHANGED <<files, running, hold, hyd, fin, history>>

\* The rename takes whatever is in the slot now.
RunDetach ==
  /\ run.pc = "detach"
  /\ IF Slot = 0
       THEN run' = NoRun /\ slotClaim' = "none" /\ UNCHANGED tree
       ELSE /\ run' = [run EXCEPT !.pc = "recheck", !.trash = Slot]
            /\ tree' = Moved({Slot}, "sweeping") /\ UNCHANGED slotClaim
  /\ UNCHANGED <<store, running, hold, hyd, fin, history>>

\* The pin is checked once more with the tree out of the slot and still whole.
RunRecheck ==
  /\ run.pc = "recheck"
  /\ IF PinCurrent
       THEN slotClaim' = "none" /\ run' = [run EXCEPT !.pc = "remove"]
       ELSE run' = [run EXCEPT !.pc = "putback"] /\ UNCHANGED slotClaim
  /\ UNCHANGED <<files, running, hold, hyd, fin, history>>

\* putBackSweptTree: a tree with a world returns to an empty slot.
RunPutBack ==
  /\ run.pc = "putback"
  /\ run' = NoRun /\ slotClaim' = "none"
  /\ tree' = IF HoldsWorkingSet(run.trash) /\ Slot = 0 THEN Moved({run.trash}, "slot") ELSE tree
  /\ UNCHANGED <<store, running, hold, hyd, fin, history>>

RunRemove ==
  /\ run.pc = "remove"
  /\ run' = NoRun
  /\ tree' \in {tree, Moved({run.trash}, "gone")}
  /\ UNCHANGED <<store, running, hold, hyd, fin, slotClaim, history>>

-----------------------------------------------------------------------------

\* ReclaimDeletedScratches: the API no longer knows the server.  The slot is spared.
ReclaimDeleted ==
  /\ hold = "none" /\ ~running
  /\ tree' = Moved(Under("hydrate") \cup Under("work"), "gone")
  /\ UNCHANGED <<store, running, hold, hyd, fin, run, slotClaim, history>>

\* The Worker process dies and boots: ReclaimInterruptedDisplacedSweeps and
\* ReclaimHydrateLeftovers remove the temporary names, and ScanHeldServers rewrites the
\* marker of a torn working dir to 0.
Restart ==
  /\ running' = FALSE /\ hold' = "none" /\ slotClaim' = "none"
  /\ hyd' = NoHydrate /\ fin' = NoFinal /\ run' = NoRun
  /\ LET swept == Moved(Under("hydrate") \cup Under("sweeping"), "gone")
     IN  tree' \in {swept} \cup
                   {[swept EXCEPT ![t].mark = 0]: t \in {u \in Under("work"): tree[u].mark > 0}}
  /\ lost' = (lost \/ displaced \cap (Under("hydrate") \cup Under("sweeping")) # {})
  /\ UNCHANGED <<store, displaced, covered>>

HydrateStep ==
  HydrateBegin \/ HydrateFails \/ HydrateChecksSlot \/ HydratePark \/ HydrateSwap
    \/ HydrateSwapFails \/ HydrateDrop \/ HydrateDiscard \/ HydrateRecord

FinalStep ==
  FinalPack \/ FinalFails \/ FinalPublish \/ FinalCollect \/ FinalSweep \/ FinalRemove

RunStep ==
  RunBegin \/ RunFails \/ RunPack \/ RunPublish \/ RunGuard \/ RunOpen \/ RunGuardTemp
    \/ RunRename \/ RunGate \/ RunClaim \/ RunDetach \/ RunRecheck \/ RunPutBack \/ RunRemove

Next ==
  StoreMoves \/ Start \/ Stop \/ HydrateStep \/ FinalStep \/ RunStep \/ ReclaimDeleted \/ Restart

Spec == Init /\ [][Next]_vars

-----------------------------------------------------------------------------
(* Properties.                                                                *)

\* A directory's marker never claims a generation its contents do not descend from, so
\* a start never skips a hydrate it needs: a snapshot's tail that outlives its server
\* does not stamp the set hydrated after it (#2284).
MarkerHonest == \A t \in Present: tree[t].mark <= tree[t].base

\* Once a hydrate has moved aside a world that no published pack covers, some moved
\* world stays on disk, whichever of the hydrate, the running snapshot's sweep and the
\* final snapshot's sweep come between (#2278, #3112, #3118).  Only a death of the
\* process while a recovery copy has a temporary name loses it.
RecoveryKept ==
  lost \/ displaced \subseteq covered \/ \E t \in displaced: t \in Present

\* A sweep removes only directories displaced before a pack that has been published.
SweepsOnlySuperseded ==
  \A t \in Trees:
    tree[t].at = "sweeping" /\ tree'[t].at = "gone" /\ tree[t].world =>
      t \in covered \/ lost'

=============================================================================
