--------------------------- MODULE TunnelRendezvous ---------------------------
(***************************************************************************)
(* The relay's token table: where a waiting player connection meets the    *)
(* connection its server's worker dials back.                              *)
(*                                                                         *)
(*   - A player's goroutine registers a token and selects on its channel,  *)
(*     a timer and the shutdown; a player that gives up cancels the token  *)
(*     and, if that comes too late, drains the channel.                    *)
(*   - A dial-back's goroutine takes the waiter under the table's mutex and *)
(*     sends its connection on the channel after unlocking.                *)
(*   - The sweep closes the channels of expired waiters.                   *)
(*                                                                         *)
(* Critical sections of the mutex and channel operations are the steps.    *)
(* Every token is a player's own: the API mints none twice.                *)
(***************************************************************************)
EXTENDS TLAPS

CONSTANTS
    Players,    \* player connections, each with the token it registers
    Dialbacks,  \* connections dialled by workers (or by anyone)
    NoDialback  \* a player without a tunnel connection

ASSUME NoDialbackAssumption == NoDialback \notin Dialbacks

VARIABLES
    waiters,   \* TokenTable.waiters: tokens with an entry
    expired,   \* the entries whose time has passed
    channel,   \* per token: connections in the waiter's channel
    closed,    \* tokens whose channel is closed
    player,    \* per player: where awaitTunnel is
    tunnel,    \* per player: the tunnel connection it was handed
    presented, \* per dial-back: the token its handshake carries
    dial,      \* per dial-back: where its handler is
    open       \* dial-backs whose connection is not closed

table == <<waiters, expired, channel, closed>>
players == <<player, tunnel>>
vars == <<table, players, presented, dial, open>>

Init ==
    /\ waiters = {}
    /\ expired = {}
    /\ channel = [p \in Players |-> {}]
    /\ closed = {}
    /\ player = [p \in Players |-> "new"]
    /\ tunnel = [p \in Players |-> NoDialback]
    /\ presented \in [Dialbacks -> Players]
    /\ dial = [d \in Dialbacks |-> "new"]
    /\ open = {}

-----------------------------------------------------------------------------
\* The player.

Register(p) ==
    /\ player[p] = "new"
    /\ waiters' = waiters \cup {p}
    /\ player' = [player EXCEPT ![p] = "waiting"]
    /\ UNCHANGED <<expired, channel, closed, tunnel, dial, open, presented>>

\* A receive yields the connection in the channel, or nothing once it is closed.
Readable(p) == channel[p] # {} \/ p \in closed
Receive(p, d) == channel[p] = {d} \/ (channel[p] = {} /\ p \in closed /\ d = NoDialback)

\* select takes the channel's branch; the Cancel that follows removes nothing more.
Meet(p, d) ==
    /\ player[p] = "waiting"
    /\ Receive(p, d)
    /\ channel' = [channel EXCEPT ![p] = {}]
    /\ waiters' = waiters \ {p}
    /\ expired' = expired \ {p}
    /\ tunnel' = [tunnel EXCEPT ![p] = d]
    /\ player' = [player EXCEPT ![p] = IF d = NoDialback THEN "gone" ELSE "paired"]
    /\ UNCHANGED <<closed, dial, open, presented>>

\* select takes the timer's or the shutdown's branch, the channel ready or not.
GiveUp(p) ==
    /\ player[p] = "waiting"
    /\ player' = [player EXCEPT ![p] = "cancelling"]
    /\ UNCHANGED <<table, tunnel, dial, open, presented>>

\* What a player does after Cancel: no entry means that a connection is under way.
AfterCancelRegardless(p) == "gone"
AfterCancel(p) == IF p \in waiters THEN "gone" ELSE "draining"

Cancel(p) ==
    /\ player[p] = "cancelling"
    /\ player' = [player EXCEPT ![p] = AfterCancel(p)]
    /\ waiters' = waiters \ {p}
    /\ expired' = expired \ {p}
    /\ UNCHANGED <<channel, closed, tunnel, dial, open, presented>>

\* The blocking receive of a player that lost the race: what it gets is closed.
Drain(p, d) ==
    /\ player[p] = "draining"
    /\ Receive(p, d)
    /\ channel' = [channel EXCEPT ![p] = {}]
    /\ open' = open \ {d}
    /\ player' = [player EXCEPT ![p] = "gone"]
    /\ UNCHANGED <<waiters, expired, closed, tunnel, dial, presented>>

\* The splice, the status fetch or the writes before either end: the tunnel closes.
Hangup(p) ==
    /\ player[p] = "paired"
    /\ open' = open \ {tunnel[p]}
    /\ tunnel' = [tunnel EXCEPT ![p] = NoDialback]
    /\ player' = [player EXCEPT ![p] = "gone"]
    /\ UNCHANGED <<table, dial, presented>>

-----------------------------------------------------------------------------
\* The dial-back.

\* A connection is accepted and its handshake read; one whose handshake fails is
\* closed as one without a waiter is.
Dial(d) ==
    /\ dial[d] = "new"
    /\ dial' = [dial EXCEPT ![d] = "matching"]
    /\ open' = open \cup {d}
    /\ UNCHANGED <<table, players, presented>>

\* Deliver up to its unlock.  A match consumes the token before the send; an expired
\* entry stays for its waiter's Cancel to find.
TakenLate(p) == waiters
Taken(p) == waiters \ {p}
KeptWhenExpired(p) == waiters

Match(d) ==
    LET p == presented[d]
    IN /\ dial[d] = "matching"
       /\ p \in waiters \ expired
       /\ waiters' = Taken(p)
       /\ dial' = [dial EXCEPT ![d] = "sending"]
       /\ UNCHANGED <<expired, channel, closed, players, open, presented>>

Reject(d) ==
    LET p == presented[d]
    IN /\ dial[d] = "matching"
       /\ p \notin waiters \ expired
       /\ waiters' = KeptWhenExpired(p)
       /\ dial' = [dial EXCEPT ![d] = "rejected"]
       /\ open' = open \ {d}
       /\ UNCHANGED <<expired, channel, closed, players, presented>>

\* Deliver's send, on a channel of capacity one.
Send(d) ==
    LET p == presented[d]
    IN /\ dial[d] = "sending"
       /\ channel[p] = {}
       /\ channel' = [channel EXCEPT ![p] = {d}]
       /\ dial' = [dial EXCEPT ![d] = "delivered"]
       /\ UNCHANGED <<waiters, expired, closed, players, open, presented>>

-----------------------------------------------------------------------------
\* Time and the sweep.

Expire(p) ==
    /\ p \in waiters \ expired
    /\ expired' = expired \cup {p}
    /\ UNCHANGED <<waiters, channel, closed, players, dial, open, presented>>

\* sweepExpired reads the clock before it locks, so it may miss an entry that has
\* expired since.
ClosedNever(ps) == closed
ClosedBySweep(ps) == closed \cup ps

Sweep(ps) ==
    /\ ps # {}
    /\ closed' = ClosedBySweep(ps)
    /\ waiters' = waiters \ ps
    /\ expired' = expired \ ps
    /\ UNCHANGED <<channel, players, dial, open, presented>>

Next ==
    \/ \E p \in Players :
          \/ Register(p) \/ GiveUp(p) \/ Cancel(p) \/ Hangup(p) \/ Expire(p)
          \/ \E d \in Dialbacks \cup {NoDialback} : Meet(p, d) \/ Drain(p, d)
    \/ \E d \in Dialbacks : Dial(d) \/ Match(d) \/ Reject(d) \/ Send(d)
    \/ \E ps \in SUBSET expired : Sweep(ps)

Spec == Init /\ [][Next]_vars

\* A player's timer fires and goroutines are scheduled.  Nothing is assumed of
\* workers, of the clock's expiries, of the sweep or of the end of a splice.
Fairness ==
    /\ \A p \in Players :
          /\ WF_vars(GiveUp(p)) /\ WF_vars(Cancel(p))
          /\ WF_vars(\E d \in Dialbacks \cup {NoDialback} : Drain(p, d))
    /\ \A d \in Dialbacks : WF_vars(Send(d)) /\ WF_vars(Match(d) \/ Reject(d))

FairSpec == Spec /\ Fairness

-----------------------------------------------------------------------------
TypeOK ==
    /\ waiters \subseteq Players
    /\ expired \subseteq waiters
    /\ channel \in [Players -> SUBSET Dialbacks]
    /\ closed \subseteq Players
    /\ player \in [Players -> {"new", "waiting", "cancelling", "draining", "paired", "gone"}]
    /\ tunnel \in [Players -> Dialbacks \cup {NoDialback}]
    /\ presented \in [Dialbacks -> Players]
    /\ dial \in [Dialbacks -> {"new", "matching", "sending", "delivered", "rejected"}]
    /\ open \subseteq Dialbacks

Sending(p) == {d \in Dialbacks : dial[d] = "sending" /\ presented[d] = p}

\* A goroutine that took a waiter can send at once and safely: its channel is neither
\* full, which would block the listener's handler, nor closed by the sweep, which
\* would panic the relay; and no other one was handed the same token.
SendsSucceed ==
    \A p \in Players : \A d \in Sending(p) :
        channel[p] = {} /\ p \notin closed /\ Sending(p) = {d}

\* "Cancel returns false => a conn is en route on the channel", or the sweep has
\* closed it: a player that drains is never left waiting for nobody.
DrainsEnd == \A p \in Players : player[p] = "draining" => Readable(p) \/ Sending(p) # {}

\* p is spliced to d or will still receive it.
Keeps(p, d) ==
    \/ player[p] = "paired" /\ tunnel[p] = d
    \/ player[p] \in {"waiting", "cancelling", "draining"} /\ channel[p] = {d}

\* Every connection the table delivered has a player that will close it.
NoLeakedConn ==
    \A d \in open : dial[d] = "delivered" => \E p \in Players : Keeps(p, d)

\* Every player gets a tunnel or gives up, whatever the sweep and a late dial-back do.
PlayersLeave == \A p \in Players : player[p] = "waiting" ~> player[p] \in {"paired", "gone"}

-----------------------------------------------------------------------------
(***************************************************************************)
(* TunnelRendezvous keeps its invariants for any number of players and     *)
(* dial-backs.  The three safety properties need each other and four facts *)
(* about a token: what its entry excludes, what an empty entry of a player *)
(* that has not left implies, where its player is while something is under *)
(* way to it, and that a channel holds one delivered connection at most.   *)
(***************************************************************************)

Pending == {"waiting", "cancelling"}

\* A token in the table has met nobody yet: its player still waits for it, and
\* nothing was or is being sent to it.
EntryInv ==
    \A p \in waiters :
        player[p] \in Pending /\ channel[p] = {} /\ p \notin closed /\ Sending(p) = {}

\* A player that waits without an entry has a connection coming or a closed channel.
MissedInv ==
    \A p \in Players :
        player[p] \in Pending /\ p \notin waiters => Readable(p) \/ Sending(p) # {}

\* Something is under way only to a player that will receive it.
ReceiverInv ==
    \A p \in Players :
        channel[p] # {} \/ Sending(p) # {} =>
            player[p] \in {"waiting", "cancelling", "draining"}

\* Before it registers, a player's token is unknown.
NewInv == \A p \in Players : player[p] = "new" => p \notin closed

\* A channel holds one delivered connection, and none once it is closed.
ChannelInv ==
    \A p \in Players : \A d \in channel[p] :
        channel[p] = {d} /\ dial[d] = "delivered" /\ p \notin closed

RendezvousInv ==
    /\ TypeOK /\ EntryInv /\ MissedInv /\ ReceiverInv /\ NewInv /\ ChannelInv
    /\ SendsSucceed /\ DrainsEnd /\ NoLeakedConn

\* The invariant of all of them holds at the start: no player has registered, no
\* connection was accepted.
LEMMA RendezvousInit == Init => RendezvousInv
BY NoDialbackAssumption DEF Init, RendezvousInv, TypeOK, EntryInv, MissedInv, ReceiverInv,
    NewInv, ChannelInv, SendsSucceed, DrainsEnd, NoLeakedConn, Pending, Sending, Readable

\* Every step of a player, a dial-back, the clock and the sweep keeps it.
LEMMA RendezvousStep == RendezvousInv /\ [Next]_vars => RendezvousInv'
<1> SUFFICES ASSUME RendezvousInv, [Next]_vars PROVE RendezvousInv'
    OBVIOUS
<1> USE NoDialbackAssumption DEF RendezvousInv, TypeOK, Pending, Readable, table, players
<1>1. ASSUME NEW p \in Players, Register(p) PROVE RendezvousInv'
  <2>1. TypeOK'
      BY <1>1 DEF Register
  <2>2. \A q \in Players : Sending(q)' = Sending(q)
      BY <1>1 DEF Register, Sending
  <2>3. ChannelInv' /\ SendsSucceed'
      BY <1>1, <2>2 DEF Register, ChannelInv, SendsSucceed
  <2>4. EntryInv'
      BY <1>1, <2>2 DEF Register, EntryInv, ReceiverInv, NewInv
  <2>5. MissedInv'
      BY <1>1, <2>2 DEF Register, MissedInv
  <2>6. ReceiverInv'
      BY <1>1, <2>2 DEF Register, ReceiverInv
  <2>7. NewInv'
      BY <1>1, <2>2 DEF Register, NewInv
  <2>8. DrainsEnd'
      BY <1>1, <2>2 DEF Register, DrainsEnd
  <2>9. NoLeakedConn'
    <3> SUFFICES ASSUME NEW e \in open', dial'[e] = "delivered"
                 PROVE  \E q \in Players : Keeps(q, e)'
      BY DEF NoLeakedConn
    <3>1. PICK q \in Players : Keeps(q, e)
      BY <1>1 DEF Register, NoLeakedConn
    <3>2. Keeps(q, e)'
      BY <1>1, <3>1 DEF Register, Keeps
    <3> QED
      BY <3>2
  <2> QED
      BY <2>1, <2>3, <2>4, <2>5, <2>6, <2>7, <2>8, <2>9
<1>2. ASSUME NEW p \in Players, GiveUp(p) PROVE RendezvousInv'
  <2>1. TypeOK'
      BY <1>2 DEF GiveUp
  <2>2. \A q \in Players : Sending(q)' = Sending(q)
      BY <1>2 DEF GiveUp, Sending
  <2>3. ChannelInv' /\ SendsSucceed'
      BY <1>2, <2>2 DEF GiveUp, ChannelInv, SendsSucceed
  <2>4. EntryInv'
      BY <1>2, <2>2 DEF GiveUp, EntryInv
  <2>5. MissedInv'
      BY <1>2, <2>2 DEF GiveUp, MissedInv
  <2>6. ReceiverInv'
      BY <1>2, <2>2 DEF GiveUp, ReceiverInv
  <2>7. NewInv'
      BY <1>2, <2>2 DEF GiveUp, NewInv
  <2>8. DrainsEnd'
      BY <1>2, <2>2 DEF GiveUp, DrainsEnd
  <2>9. NoLeakedConn'
    <3> SUFFICES ASSUME NEW e \in open', dial'[e] = "delivered"
                 PROVE  \E q \in Players : Keeps(q, e)'
      BY DEF NoLeakedConn
    <3>1. PICK q \in Players : Keeps(q, e)
      BY <1>2 DEF GiveUp, NoLeakedConn
    <3>2. Keeps(q, e)'
      BY <1>2, <3>1 DEF GiveUp, Keeps
    <3> QED
      BY <3>2
  <2> QED
      BY <2>1, <2>3, <2>4, <2>5, <2>6, <2>7, <2>8, <2>9
<1>3. ASSUME NEW p \in Players, Cancel(p) PROVE RendezvousInv'
  <2>1. TypeOK'
      BY <1>3 DEF Cancel, AfterCancel
  <2>2. \A q \in Players : Sending(q)' = Sending(q)
      BY <1>3 DEF Cancel, AfterCancel, Sending
  <2>3. ChannelInv' /\ SendsSucceed'
      BY <1>3, <2>2 DEF Cancel, AfterCancel, ChannelInv, SendsSucceed
  <2>4. EntryInv'
      BY <1>3, <2>2 DEF Cancel, AfterCancel, EntryInv
  <2>5. MissedInv'
      BY <1>3, <2>2 DEF Cancel, AfterCancel, MissedInv
  <2>6. ReceiverInv'
      BY <1>3, <2>2 DEF Cancel, AfterCancel, ReceiverInv, EntryInv
  <2>7. NewInv'
      BY <1>3, <2>2 DEF Cancel, AfterCancel, NewInv
  <2>8. DrainsEnd'
      BY <1>3, <2>2 DEF Cancel, AfterCancel, DrainsEnd, MissedInv
  <2>9. NoLeakedConn'
    <3> SUFFICES ASSUME NEW e \in open', dial'[e] = "delivered"
                 PROVE  \E q \in Players : Keeps(q, e)'
      BY DEF NoLeakedConn
    <3>1. PICK q \in Players : Keeps(q, e)
      BY <1>3 DEF Cancel, AfterCancel, NoLeakedConn
    <3>2. Keeps(q, e)'
      BY <1>3, <3>1 DEF Cancel, AfterCancel, Keeps, EntryInv
    <3> QED
      BY <3>2
  <2> QED
      BY <2>1, <2>3, <2>4, <2>5, <2>6, <2>7, <2>8, <2>9
<1>4. ASSUME NEW p \in Players, Hangup(p) PROVE RendezvousInv'
  <2>1. TypeOK'
      BY <1>4 DEF Hangup
  <2>2. \A q \in Players : Sending(q)' = Sending(q)
      BY <1>4 DEF Hangup, Sending
  <2>3. ChannelInv' /\ SendsSucceed'
      BY <1>4, <2>2 DEF Hangup, ChannelInv, SendsSucceed
  <2>4. EntryInv'
      BY <1>4, <2>2 DEF Hangup, EntryInv
  <2>5. MissedInv'
      BY <1>4, <2>2 DEF Hangup, MissedInv
  <2>6. ReceiverInv'
      BY <1>4, <2>2 DEF Hangup, ReceiverInv
  <2>7. NewInv'
      BY <1>4, <2>2 DEF Hangup, NewInv
  <2>8. DrainsEnd'
      BY <1>4, <2>2 DEF Hangup, DrainsEnd
  <2>9. NoLeakedConn'
    <3> SUFFICES ASSUME NEW e \in open', dial'[e] = "delivered"
                 PROVE  \E q \in Players : Keeps(q, e)'
      BY DEF NoLeakedConn
    <3>1. PICK q \in Players : Keeps(q, e)
      BY <1>4 DEF Hangup, NoLeakedConn
    <3>2. Keeps(q, e)'
      BY <1>4, <3>1 DEF Hangup, Keeps
    <3> QED
      BY <3>2
  <2> QED
      BY <2>1, <2>3, <2>4, <2>5, <2>6, <2>7, <2>8, <2>9
<1>5. ASSUME NEW p \in Players, Expire(p) PROVE RendezvousInv'
  <2>1. TypeOK'
      BY <1>5 DEF Expire
  <2>2. \A q \in Players : Sending(q)' = Sending(q)
      BY <1>5 DEF Expire, Sending
  <2>3. EntryInv' /\ MissedInv' /\ ReceiverInv' /\ NewInv' /\ ChannelInv' /\ SendsSucceed' /\ DrainsEnd' /\ NoLeakedConn'
      BY <1>5, <2>2 DEF Expire, EntryInv, MissedInv, ReceiverInv, NewInv,
          ChannelInv, SendsSucceed, DrainsEnd, NoLeakedConn, Keeps
  <2> QED
      BY <2>1, <2>3
<1>6. ASSUME NEW p \in Players, NEW d \in Dialbacks \cup {NoDialback}, Meet(p, d) PROVE RendezvousInv'
  <2>1. TypeOK'
      BY <1>6 DEF Meet, Receive
  <2>2. \A q \in Players : Sending(q)' = Sending(q)
      BY <1>6 DEF Meet, Receive, Sending
  <2>3. EntryInv'
      BY <1>6, <2>2 DEF Meet, Receive, EntryInv
  <2>4. MissedInv'
      BY <1>6, <2>2 DEF Meet, Receive, MissedInv
  <2>5. ReceiverInv'
      BY <1>6, <2>2 DEF Meet, Receive, ReceiverInv, SendsSucceed
  <2>6. NewInv'
      BY <1>6, <2>2 DEF Meet, Receive, NewInv
  <2>7. ChannelInv'
      BY <1>6, <2>2 DEF Meet, Receive, ChannelInv
  <2>8. SendsSucceed'
      BY <1>6, <2>2 DEF Meet, Receive, SendsSucceed
  <2>9. DrainsEnd'
      BY <1>6, <2>2 DEF Meet, Receive, DrainsEnd
  <2>10. NoLeakedConn'
    <3> SUFFICES ASSUME NEW e \in open', dial'[e] = "delivered"
                 PROVE  \E q \in Players : Keeps(q, e)'
      BY DEF NoLeakedConn
    <3>1. PICK q \in Players : Keeps(q, e)
      BY <1>6 DEF Meet, Receive, NoLeakedConn
    <3>2. Keeps(q, e)'
      BY <1>6, <3>1 DEF Meet, Receive, Keeps, ChannelInv
    <3> QED
      BY <3>2
  <2> QED
      BY <2>1, <2>3, <2>4, <2>5, <2>6, <2>7, <2>8, <2>9, <2>10
<1>7. ASSUME NEW p \in Players, NEW d \in Dialbacks \cup {NoDialback}, Drain(p, d) PROVE RendezvousInv'
  <2>1. TypeOK'
      BY <1>7 DEF Drain, Receive
  <2>2. \A q \in Players : Sending(q)' = Sending(q)
      BY <1>7 DEF Drain, Receive, Sending
  <2>3. EntryInv'
      BY <1>7, <2>2 DEF Drain, Receive, EntryInv
  <2>4. MissedInv'
      BY <1>7, <2>2 DEF Drain, Receive, MissedInv
  <2>5. ReceiverInv'
      BY <1>7, <2>2 DEF Drain, Receive, ReceiverInv, SendsSucceed
  <2>6. NewInv'
      BY <1>7, <2>2 DEF Drain, Receive, NewInv
  <2>7. ChannelInv'
      BY <1>7, <2>2 DEF Drain, Receive, ChannelInv
  <2>8. SendsSucceed'
      BY <1>7, <2>2 DEF Drain, Receive, SendsSucceed
  <2>9. DrainsEnd'
      BY <1>7, <2>2 DEF Drain, Receive, DrainsEnd
  <2>10. NoLeakedConn'
    <3> SUFFICES ASSUME NEW e \in open', dial'[e] = "delivered"
                 PROVE  \E q \in Players : Keeps(q, e)'
      BY DEF NoLeakedConn
    <3>1. PICK q \in Players : Keeps(q, e)
      BY <1>7 DEF Drain, Receive, NoLeakedConn
    <3>2. Keeps(q, e)'
      BY <1>7, <3>1 DEF Drain, Receive, Keeps
    <3> QED
      BY <3>2
  <2> QED
      BY <2>1, <2>3, <2>4, <2>5, <2>6, <2>7, <2>8, <2>9, <2>10
<1>8. ASSUME NEW d \in Dialbacks, Dial(d) PROVE RendezvousInv'
  <2>1. TypeOK'
      BY <1>8 DEF Dial
  <2>2. \A q \in Players : Sending(q)' = Sending(q)
      BY <1>8 DEF Dial, Sending
  <2>3. EntryInv' /\ MissedInv' /\ ReceiverInv' /\ NewInv' /\ SendsSucceed' /\ DrainsEnd'
      BY <1>8, <2>2 DEF Dial, EntryInv, MissedInv, ReceiverInv, NewInv,
          SendsSucceed, DrainsEnd
  <2>4. ChannelInv'
      BY <1>8, <2>2 DEF Dial, ChannelInv
  <2>5. NoLeakedConn'
    <3> SUFFICES ASSUME NEW e \in open', dial'[e] = "delivered"
                 PROVE  \E q \in Players : Keeps(q, e)'
      BY DEF NoLeakedConn
    <3>1. PICK q \in Players : Keeps(q, e)
      BY <1>8 DEF Dial, NoLeakedConn
    <3>2. Keeps(q, e)'
      BY <1>8, <3>1 DEF Dial, Keeps
    <3> QED
      BY <3>2
  <2> QED
      BY <2>1, <2>3, <2>4, <2>5
<1>9. ASSUME NEW d \in Dialbacks, Match(d) PROVE RendezvousInv'
  <2>1. TypeOK'
      BY <1>9 DEF Match, Taken
  <2>2. \A q \in Players : Sending(q)' = IF q = presented[d] THEN Sending(q) \cup {d} ELSE Sending(q)
      BY <1>9 DEF Match, Taken, Sending
  <2>3. NewInv'
      BY <1>9, <2>2 DEF Match, Taken, NewInv
  <2>4. EntryInv'
      BY <1>9, <2>2 DEF Match, Taken, EntryInv
  <2>5. MissedInv'
      BY <1>9, <2>2 DEF Match, Taken, MissedInv
  <2>6. ReceiverInv'
      BY <1>9, <2>2 DEF Match, Taken, ReceiverInv, EntryInv
  <2>7. ChannelInv'
      BY <1>9, <2>2 DEF Match, Taken, ChannelInv
  <2>8. SendsSucceed'
      BY <1>9, <2>2 DEF Match, Taken, SendsSucceed, EntryInv
  <2>9. DrainsEnd'
      BY <1>9, <2>2 DEF Match, Taken, DrainsEnd
  <2>10. NoLeakedConn'
    <3> SUFFICES ASSUME NEW e \in open', dial'[e] = "delivered"
                 PROVE  \E q \in Players : Keeps(q, e)'
      BY DEF NoLeakedConn
    <3>1. PICK q \in Players : Keeps(q, e)
      BY <1>9 DEF Match, Taken, NoLeakedConn
    <3>2. Keeps(q, e)'
      BY <1>9, <3>1 DEF Match, Taken, Keeps
    <3> QED
      BY <3>2
  <2> QED
      BY <2>1, <2>3, <2>4, <2>5, <2>6, <2>7, <2>8, <2>9, <2>10
<1>10. ASSUME NEW d \in Dialbacks, Reject(d) PROVE RendezvousInv'
  <2>1. TypeOK'
      BY <1>10 DEF Reject, KeptWhenExpired
  <2>2. \A q \in Players : Sending(q)' = Sending(q)
      BY <1>10 DEF Reject, KeptWhenExpired, Sending
  <2>3. EntryInv' /\ MissedInv' /\ ReceiverInv' /\ NewInv' /\ SendsSucceed' /\ DrainsEnd'
      BY <1>10, <2>2 DEF Reject, KeptWhenExpired, EntryInv, MissedInv,
          ReceiverInv, NewInv, SendsSucceed, DrainsEnd
  <2>4. ChannelInv'
      BY <1>10, <2>2 DEF Reject, KeptWhenExpired, ChannelInv
  <2>5. NoLeakedConn'
    <3> SUFFICES ASSUME NEW e \in open', dial'[e] = "delivered"
                 PROVE  \E q \in Players : Keeps(q, e)'
      BY DEF NoLeakedConn
    <3>1. PICK q \in Players : Keeps(q, e)
      BY <1>10 DEF Reject, KeptWhenExpired, NoLeakedConn
    <3>2. Keeps(q, e)'
      BY <1>10, <3>1 DEF Reject, KeptWhenExpired, Keeps
    <3> QED
      BY <3>2
  <2> QED
      BY <2>1, <2>3, <2>4, <2>5
<1>11. ASSUME NEW d \in Dialbacks, Send(d) PROVE RendezvousInv'
  <2>1. TypeOK'
      BY <1>11 DEF Send
  <2>2. presented[d] \in Players /\ Sending(presented[d]) = {d} /\ channel[presented[d]] = {}
      BY <1>11 DEF Send, SendsSucceed, Sending
  <2>3. \A q \in Players : Sending(q)' = IF q = presented[d] THEN {} ELSE Sending(q)
      BY <1>11, <2>2 DEF Send, Sending
  <2>4. NewInv'
      BY <1>11, <2>2, <2>3 DEF Send, NewInv
  <2>5. EntryInv'
      BY <1>11, <2>2, <2>3 DEF Send, EntryInv
  <2>6. MissedInv'
      BY <1>11, <2>2, <2>3 DEF Send, MissedInv
  <2>7. ReceiverInv'
      BY <1>11, <2>2, <2>3 DEF Send, ReceiverInv
  <2>8. ChannelInv'
      BY <1>11, <2>2, <2>3 DEF Send, ChannelInv, SendsSucceed
  <2>9. SendsSucceed'
      BY <1>11, <2>2, <2>3 DEF Send, SendsSucceed
  <2>10. DrainsEnd'
      BY <1>11, <2>2, <2>3 DEF Send, DrainsEnd
  <2>11. NoLeakedConn'
    <3> SUFFICES ASSUME NEW e \in open', dial'[e] = "delivered"
                 PROVE  \E q \in Players : Keeps(q, e)'
      BY DEF NoLeakedConn
    <3>1. CASE e = d
      BY <1>11, <2>2, <2>3, <3>1 DEF Send, ReceiverInv, Keeps
    <3>2. CASE e # d
      <4>1. PICK q \in Players : Keeps(q, e)
        BY <1>11, <3>2 DEF Send, NoLeakedConn
      <4>2. Keeps(q, e)'
        BY <1>11, <2>2, <2>3, <4>1 DEF Send, Keeps
      <4> QED
        BY <4>2
    <3> QED
      BY <3>1, <3>2
  <2> QED
      BY <2>1, <2>4, <2>5, <2>6, <2>7, <2>8, <2>9, <2>10, <2>11
<1>12. ASSUME NEW ps \in SUBSET expired, Sweep(ps) PROVE RendezvousInv'
  <2>1. TypeOK'
      BY <1>12 DEF Sweep, ClosedBySweep
  <2>2. \A q \in Players : Sending(q)' = Sending(q)
      BY <1>12 DEF Sweep, ClosedBySweep, Sending
  <2>3. ReceiverInv' /\ NoLeakedConn'
      BY <1>12, <2>2 DEF Sweep, ClosedBySweep, ReceiverInv, NoLeakedConn, Keeps
  <2>4. EntryInv'
      BY <1>12, <2>2 DEF Sweep, ClosedBySweep, EntryInv
  <2>5. MissedInv'
      BY <1>12, <2>2 DEF Sweep, ClosedBySweep, MissedInv
  <2>6. NewInv'
      BY <1>12, <2>2 DEF Sweep, ClosedBySweep, NewInv, EntryInv
  <2>7. ChannelInv'
      BY <1>12, <2>2 DEF Sweep, ClosedBySweep, ChannelInv, EntryInv
  <2>8. SendsSucceed'
      BY <1>12, <2>2 DEF Sweep, ClosedBySweep, SendsSucceed, EntryInv
  <2>9. DrainsEnd'
      BY <1>12, <2>2 DEF Sweep, ClosedBySweep, DrainsEnd
  <2> QED
      BY <2>1, <2>3, <2>4, <2>5, <2>6, <2>7, <2>8, <2>9
<1>13. CASE UNCHANGED vars
    BY <1>13 DEF vars, EntryInv, MissedInv, ReceiverInv, NewInv, ChannelInv, SendsSucceed,
        DrainsEnd, NoLeakedConn, Keeps, Sending
<1> QED
    BY <1>1, <1>2, <1>3, <1>4, <1>5, <1>6, <1>7, <1>8, <1>9, <1>10, <1>11, <1>12, <1>13 DEF Next

\* So it holds in every reachable state.
LEMMA RendezvousInvariant == Spec => []RendezvousInv
BY RendezvousInit, RendezvousStep, PTL DEF Spec

\* The token table, its channels and their users keep their types.
THEOREM RendezvousTypeCorrect == Spec => []TypeOK
BY RendezvousInvariant, PTL DEF RendezvousInv

\* Deliver's send after the unlock neither blocks nor hits a channel that the sweep
\* closed, and a token is handed to one dial-back only.
THEOREM SendsAlwaysSucceed == Spec => []SendsSucceed
BY RendezvousInvariant, PTL DEF RendezvousInv

\* A player whose Cancel came too late never waits for nobody.
THEOREM DrainsAlwaysEnd == Spec => []DrainsEnd
BY RendezvousInvariant, PTL DEF RendezvousInv

\* awaitTunnel leaks no delivered connection, whichever of the dial-back, the timer,
\* the shutdown and the sweep comes first.
THEOREM ConnsNeverLeak == Spec => []NoLeakedConn
BY RendezvousInvariant, PTL DEF RendezvousInv

=============================================================================
