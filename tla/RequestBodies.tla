---------------------------- MODULE RequestBodies ----------------------------
(* The bound on what a request's body makes the API read, and the check of    *)
(* the caller before its first byte (http_body_limit.py, http_body_auth.py).  *)
(*                                                                            *)
(* One request on a connection.  The server hands its body over in messages   *)
(* as it arrives, each saying whether more is to come; a client may go away.  *)
(* The route may read the body or not, and answers when it likes.  Bytes are  *)
(* counted in units; what the answer says is left out, but for refusals.      *)
EXTENDS Naturals

CONSTANTS
  max_bytes,       \* the route's limit
  EARLY_ANSWER_DISCARD_BYTES,
  MaxBody,         \* bound: bytes of a body
  MaxMessage,      \* bound: bytes of a message
  None

VARIABLES
  request,    \* method, framing, declared length, expectation, credential
  rest,       \* bytes the client has yet to hand over
  gone,       \* the client went away
  received, ended, authorized, responding,
  held,       \* bytes handed to the route
  refused,    \* the refusal a read was answered with, None before
  discarding, \* what is left to read and drop, None outside _discard
  keeps       \* the connection stays open after the answer, None before it

vars == <<request, rest, gone, received, ended, authorized, responding, held, refused,
          discarding, keeps>>

Methods == {"POST", "GET"}

\* A body framed by its length has that length; a transfer-encoded one may carry any
\* Content-Length beside it, which the server ignores.
HttpRequests == [method: Methods, framing: {"none", "length", "chunked"}, length: 0..MaxBody,
             expect: BOOLEAN, credential: {"good", "bad", "unreadable", "not asked"}]

Init ==
  /\ request \in HttpRequests
  /\ request.framing = "none" => request.length = 0 /\ ~request.expect
  /\ rest \in 0..MaxBody
  /\ request.framing # "chunked" => rest = request.length
  /\ received = 0 /\ held = 0
  /\ gone = FALSE /\ ended = FALSE /\ authorized = FALSE /\ responding = FALSE
  /\ refused = None /\ discarding = None /\ keeps = None

\* "GET", "HEAD" and "OPTIONS" are bodyless.
reads_a_body == request.method # "GET"

\* Defect: a length is believed though the body is transfer-encoded.
LengthWhateverFraming == IF request.framing = "none" THEN None ELSE request.length
\* _declared_length
declared_length == IF request.framing = "length" THEN request.length ELSE None

unread ==
  IF ended THEN 0
  ELSE IF declared_length = None THEN IF request.framing = "chunked" THEN None ELSE 0
  ELSE IF declared_length = received THEN 0
  ELSE IF ~reads_a_body \/ (received = 0 /\ request.expect) THEN None
  ELSE declared_length - received

\* authorize_before_body: the route's own credential checks, if it has any; one that
\* cannot be made has not passed.
authorize_before_body ==
  IF request.credential \in {"good", "not asked"} THEN None
  ELSE IF request.credential = "bad" THEN "401" ELSE "500"

\* What limited_receive refuses before it asks for a message.
RefusedUnread ==
  IF ~reads_a_body THEN None
  ELSE IF ~authorized /\ authorize_before_body # None THEN authorize_before_body
  ELSE IF declared_length = None THEN None
  ELSE IF declared_length > max_bytes THEN "413" ELSE None

\* The server's next message: some of the body, or that the client went away.
Message(n, more) == n <= rest /\ (n > 0 \/ rest = 0) /\ more = (rest > n)

Reading == ~responding /\ refused = None /\ ~ended

Refuses ==
  /\ Reading /\ RefusedUnread # None
  /\ refused' = RefusedUnread
  /\ UNCHANGED <<request, rest, gone, received, ended, authorized, responding, held, discarding, keeps>>

limited_receive ==
  /\ Reading /\ RefusedUnread = None
  /\ authorized' = (authorized \/ reads_a_body)
  /\ \/ /\ ~gone
        /\ \E n \in 0..MaxMessage, more \in BOOLEAN:
             /\ Message(n, more)
             /\ rest' = rest - n /\ received' = received + n /\ ended' = ~more
             /\ IF reads_a_body /\ received + n > max_bytes
                THEN refused' = "413" /\ held' = held
                ELSE refused' = None /\ held' = held + n
        /\ gone' = gone
     \/ gone' = TRUE /\ ended' = TRUE /\ UNCHANGED <<rest, received, refused, held>>
  /\ UNCHANGED <<request, responding, discarding, keeps>>

\* tracking_send: the answer starts, with what is left unread to be dropped first.
tracking_send ==
  /\ ~responding /\ responding' = TRUE
  /\ IF unread = None THEN keeps' = FALSE /\ discarding' = None
     ELSE IF unread > EARLY_ANSWER_DISCARD_BYTES THEN keeps' = FALSE /\ discarding' = None
     ELSE IF unread = 0 THEN keeps' = TRUE /\ discarding' = None
     ELSE keeps' = None /\ discarding' = unread
  /\ UNCHANGED <<request, rest, gone, received, ended, authorized, held, refused>>

\* _discard: a message is dropped, or the client does not send one in time.
discard ==
  /\ discarding # None
  /\ \/ /\ ~gone
        /\ \E n \in 0..MaxMessage, more \in BOOLEAN:
             /\ Message(n, more)
             /\ rest' = rest - n
             /\ IF more /\ discarding > n THEN discarding' = discarding - n /\ keeps' = None
                ELSE discarding' = None /\ keeps' = TRUE
        /\ gone' = gone
     \/ gone' = TRUE /\ discarding' = None /\ keeps' = TRUE /\ rest' = rest
     \/ discarding' = None /\ keeps' = FALSE /\ UNCHANGED <<gone, rest>>
  /\ UNCHANGED <<request, received, ended, authorized, responding, held, refused>>

Next == Refuses \/ limited_receive \/ tracking_send \/ discard

Spec == Init /\ [][Next]_vars

-----------------------------------------------------------------------------
\* No request makes a route hold more than its limit, however its body is framed and
\* cut into messages; a caller the route refuses has no byte of it read; and a
\* connection kept open after the answer has nothing of this request left on it, so
\* the next one is not read out of this one's body (RequestBodyLimitMiddleware,
\* authorize_before_body).
BodiesBounded ==
  /\ reads_a_body => held <= max_bytes
  /\ reads_a_body /\ received > 0 => request.credential \in {"good", "not asked"}
  /\ keeps = TRUE => rest = 0 \/ gone
=============================================================================
