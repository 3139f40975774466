----------------------------- MODULE EventRelay -----------------------------
(* The status stream: the in-process bus with its bounded buffers             *)
(* (fleet/adapters/real_time_events.py) and the WebSocket relay that sends a  *)
(* snapshot, then events, and a new snapshot when it has missed some, while   *)
(* it checks again and again that its client may listen                       *)
(* (fleet/api/events.py).                                                     *)
(*                                                                            *)
(* A server's state is the number of its last write.  Writes of one server    *)
(* are published in the order of their commits (events.py notes where two     *)
(* connections may not).                                                      *)
EXTENDS Integers, Sequences, SequencesExt

CONSTANTS
  Servers,     \* the servers of the community
  Foreign,     \* a server of another community
  None,
  max_queue,
  MaxWrites,   \* bound: state changes
  MaxNoise,    \* bound: events that are no status
  MaxConnects  \* bound: connections of the client

VARIABLES
  db,          \* server -> its committed state
  unpublished, \* status events committed and not yet published
  sub,         \* the client's subscription, or None
  relay,       \* its handler: scope, stage, next (the event task), text (a snapshot), opening
  client,      \* server -> the state the client shows
  gone,        \* the client has closed the socket
  allowed,     \* it may still listen
  due,         \* the re-authorization deadline has passed
  writes, noise, connects,
  late         \* history: frames sent past the deadline to a client that may not listen

vars == <<db, unpublished, sub, relay, client, gone, allowed, due, writes, noise, connects, late>>
counts == <<writes, noise, connects>>

All == Servers \cup {Foreign}
Scope == IF relay.scope = "community" THEN Servers ELSE {relay.scope}
Event(stream, s, v) == [stream |-> stream, server |-> s, state |-> v]
Gap == Event("gap", None, 0)
NotAsked == Event("not asked", None, 0)   \* no event is asked for
Asked == Event("asked", None, 0)

-----------------------------------------------------------------------------
(* The bus *)

offer(q, e) ==
  IF Len(q.buffer) = max_queue
  THEN [q EXCEPT !.gap_pending = TRUE, !.dropped = @ \cup {q.buffer[1].stream}, !.buffer = Append(Tail(@), e)]
  ELSE [q EXCEPT !.buffer = Append(@, e)]

discard_buffered(q) == [q EXCEPT !.buffer = SelectSeq(@, LAMBDA e: e.stream # "status")]

\* Defect: the relay subscribes once its first snapshot is read.
PublishBeforeSubscribed(e) ==
  sub' = IF sub = None THEN None
         ELSE IF relay.opening /\ relay.stage = "send" THEN sub
         ELSE IF relay.scope = "community" \/ relay.scope = e.server THEN offer(sub, e) ELSE sub

\* publish: a server's topic, or the firehose.
publish(e) ==
  sub' = IF sub = None THEN None
         ELSE IF relay.scope = "community" \/ relay.scope = e.server THEN offer(sub, e) ELSE sub

\* __anext__
TakeNext ==
  /\ sub # None /\ relay.next = Asked /\ relay.stage \in {"wait", "recheck"}
  /\ \/ sub.gap_pending /\ sub' = [sub EXCEPT !.gap_pending = FALSE] /\ relay' = [relay EXCEPT !.next = Gap]
     \/ /\ ~sub.gap_pending /\ sub.buffer # <<>>
        /\ sub' = [sub EXCEPT !.buffer = Tail(@)] /\ relay' = [relay EXCEPT !.next = Head(sub.buffer)]
  /\ UNCHANGED <<db, unpublished, client, gone, allowed, due, counts, late>>

\* A state is committed, and then published.
Write(s) ==
  /\ writes < MaxWrites /\ writes' = writes + 1
  /\ db' = [db EXCEPT ![s] = @ + 1]
  /\ unpublished' = Append(unpublished, Event("status", s, db'[s]))
  /\ UNCHANGED <<sub, relay, client, gone, allowed, due, noise, connects, late>>
Publish ==
  /\ unpublished # <<>> /\ unpublished' = Tail(unpublished) /\ publish(Head(unpublished))
  /\ UNCHANGED <<db, relay, client, gone, allowed, due, counts, late>>
Notify(s) ==
  /\ noise < MaxNoise /\ noise' = noise + 1 /\ publish(Event("notification", s, 0))
  /\ UNCHANGED <<db, unpublished, relay, client, gone, allowed, due, writes, connects, late>>

-----------------------------------------------------------------------------
(* The handler *)

Closing == relay' = [relay EXCEPT !.stage = "closing", !.next = NotAsked]

\* The gate: the account, its membership, its permission.
authorize_community == allowed
authorize == allowed

\* _accept, the subscription, and the discard before the first snapshot.
Accept(scope) ==
  /\ relay.stage = "closed" /\ connects < MaxConnects /\ connects' = connects + 1
  /\ relay' = [scope |-> scope, stage |-> "read", next |-> NotAsked, text |-> None, opening |-> TRUE]
  /\ sub' = [buffer |-> <<>>, gap_pending |-> FALSE, dropped |-> {}]
  /\ gone' = FALSE /\ due' = FALSE /\ late' = 0
  /\ UNCHANGED <<db, unpublished, client, allowed, writes, noise>>
server_events(s) == authorize /\ Accept(s)
community_events == authorize_community /\ Accept("community")

server_snapshot(s) == db[s]
community_snapshot == [s \in Servers |-> db[s]]
ReadSnapshot ==
  /\ relay.stage = "read"
  /\ relay' = [relay EXCEPT !.stage = "send",
                            !.text = IF relay.scope = "community" THEN community_snapshot
                                     ELSE [s \in {relay.scope} |-> server_snapshot(s)]]
  /\ UNCHANGED <<db, unpublished, sub, client, gone, allowed, due, counts, late>>

Sent == late' = IF due /\ ~allowed THEN late + 1 ELSE late

SendSnapshot ==
  /\ relay.stage = "send"
  /\ IF gone THEN Closing /\ UNCHANGED <<client, late>>
     ELSE /\ client' = [s \in Servers |-> IF s \in Scope THEN relay.text[s] ELSE client[s]] /\ Sent
          /\ relay' = [relay EXCEPT !.stage = IF relay.opening THEN "wait" ELSE "check", !.opening = FALSE,
                                    !.next = IF relay.opening THEN Asked ELSE NotAsked, !.text = None]
  /\ UNCHANGED <<db, unpublished, sub, gone, allowed, due, counts>>

in_community(e) == e.server \in Scope

\* A turn that has an event: the frame, unless the event is another community's, and after a gap that cost
\* status events a new snapshot.
SendEvent ==
  LET e == relay.next
      resync == e.stream = "gap" /\ "status" \in sub.dropped
  IN /\ relay.stage = "wait" /\ relay.next \notin {NotAsked, Asked} /\ ~gone
     /\ IF e.stream = "status" /\ in_community(e) THEN client' = [client EXCEPT ![e.server] = e.state] ELSE UNCHANGED client
     /\ IF e.stream = "gap" \/ in_community(e) THEN Sent ELSE UNCHANGED late
     /\ sub' = IF resync THEN discard_buffered([sub EXCEPT !.dropped = {}])
               ELSE IF e.stream = "gap" THEN [sub EXCEPT !.dropped = {}] ELSE sub
     /\ relay' = [relay EXCEPT !.stage = IF resync THEN "read" ELSE "check", !.next = NotAsked]
     /\ UNCHANGED <<db, unpublished, gone, allowed, due, counts>>

\* The next event is asked for, and the deadline looked at.
TurnEnds ==
  /\ relay.stage = "check"
  /\ relay' = [relay EXCEPT !.stage = IF due THEN "recheck" ELSE "wait", !.next = Asked]
  /\ UNCHANGED <<db, unpublished, sub, client, gone, allowed, due, counts, late>>
\* A turn without an event.
TurnTimesOut ==
  /\ relay.stage = "wait" /\ relay.next = Asked /\ due /\ ~gone
  /\ relay' = [relay EXCEPT !.stage = "recheck"]
  /\ UNCHANGED <<db, unpublished, sub, client, gone, allowed, due, counts, late>>

reauthorize ==
  /\ relay.stage = "recheck"
  /\ IF (IF relay.scope = "community" THEN authorize_community ELSE authorize)
     THEN relay' = [relay EXCEPT !.stage = "wait"] /\ due' = FALSE
     ELSE Closing /\ UNCHANGED due
  /\ UNCHANGED <<db, unpublished, sub, client, gone, allowed, counts, late>>

\* The client's disconnect is seen, a read finds no database, or the token lapses.
ClientGone ==
  /\ gone /\ relay.stage = "wait" /\ Closing
  /\ UNCHANGED <<db, unpublished, sub, client, gone, allowed, due, counts, late>>
Unavailable ==
  /\ relay.stage \in {"read", "recheck"} /\ Closing
  /\ UNCHANGED <<db, unpublished, sub, client, gone, allowed, due, counts, late>>
Lapses ==
  /\ relay.stage \notin {"closed", "closing"} /\ Closing
  /\ UNCHANGED <<db, unpublished, sub, client, gone, allowed, due, counts, late>>
aclose ==
  /\ relay.stage = "closing" /\ sub' = None /\ relay' = [relay EXCEPT !.stage = "closed"]
  /\ UNCHANGED <<db, unpublished, client, gone, allowed, due, counts, late>>

Leaves == ~gone /\ relay.stage # "closed" /\ gone' = TRUE
          /\ UNCHANGED <<db, unpublished, sub, relay, client, allowed, due, counts, late>>
Revoked == allowed /\ allowed' = FALSE
           /\ UNCHANGED <<db, unpublished, sub, relay, client, gone, due, counts, late>>
DeadlinePasses == ~due /\ sub # None /\ due' = TRUE
                  /\ UNCHANGED <<db, unpublished, sub, relay, client, gone, allowed, counts, late>>

Init ==
  /\ db = [s \in All |-> 0] /\ unpublished = <<>> /\ sub = None
  /\ relay = [scope |-> "community", stage |-> "closed", next |-> NotAsked, text |-> None, opening |-> TRUE]
  /\ client = [s \in Servers |-> 0] /\ gone = FALSE /\ allowed = TRUE /\ due = FALSE
  /\ writes = 0 /\ noise = 0 /\ connects = 0 /\ late = 0

Next ==
  \/ (\E s \in All: Write(s) \/ Notify(s)) \/ Publish \/ TakeNext
  \/ (\E s \in Servers: server_events(s)) \/ community_events
  \/ ReadSnapshot \/ SendSnapshot \/ SendEvent \/ TurnEnds \/ TurnTimesOut \/ reauthorize
  \/ ClientGone \/ Unavailable \/ Lapses \/ aclose \/ Leaves \/ Revoked \/ DeadlinePasses

Spec == Init /\ [][Next]_vars

-----------------------------------------------------------------------------
\* A client that has been sent everything shows every server of its stream as it is,
\* however many events its buffer lost (events.py: "a (re)connecting or overflowed
\* client converges from the stream alone").
CaughtUp == /\ relay.stage = "wait" /\ relay.next = Asked /\ unpublished = <<>>
            /\ sub.buffer = <<>> /\ ~sub.gap_pending
Converges == CaughtUp => \A s \in Scope: client[s] = db[s]

\* A client that may not listen any more is sent no more than the opening snapshot
\* and one event, with the snapshot a gap calls for, once the deadline has passed,
\* however busy the stream (events.py: "a busy stream cannot postpone either").
RevocationTakesHold == late <= 3
=============================================================================
