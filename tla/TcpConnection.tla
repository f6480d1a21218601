---------------------------- MODULE TcpConnection ----------------------------
(***************************************************************************)
(* One connection of the library: TcpConnection<Derived, SocketType> in    *)
(* inc/tcp_connection.h with its two derived classes TcpSession (plain     *)
(* TCP) and SslSession, from the call that creates it (a listener's        *)
(* start_accept, or create_connection in its synchronous and asynchronous  *)
(* forms) until nothing refers to it any more.                             *)
(*                                                                         *)
(* Each connection belongs to one io_context, which one thread runs:       *)
(* `queue' is the FIFO of handlers posted to it, and a handler is one step *)
(* up to the point where it calls the user.  The user's callback is a      *)
(* state of its own (`callback'), in which every other thread may move; it *)
(* ends with Return, which does the rest of the handler.  An asynchronous  *)
(* operation is outstanding until the kernel completes it and puts its     *)
(* handler in the queue, behind whatever was posted meanwhile.             *)
(***************************************************************************)
EXTENDS Naturals, Sequences

CONSTANTS
    Ways,        \* how a connection may come about: a subset of AllWays
    UseSsl,      \* the values of m_use_ssl
    Binds,       \* whether create_connection is given a local address
    MaxResults,  \* most endpoints that a name resolves to
    Chunks,      \* pieces in which the kernel takes one pack
    MaxFill,     \* calls of send_buffer_fill
    MaxClose,    \* calls of close by the user
    MaxBytes,    \* bytes the peer sends
    MaxMark      \* largest water mark the user sets

AllWays == {"accept", "sync", "async"}

ASSUME WaysAssumption == Ways \subseteq AllWays
ASSUME FlagsAssumption == UseSsl \subseteq BOOLEAN /\ Binds \subseteq BOOLEAN
ASSUME BoundsAssumption ==
    /\ MaxResults \in Nat \ {0}
    /\ Chunks \in Nat \ {0}
    /\ MaxFill \in Nat
    /\ MaxClose \in Nat
    /\ MaxBytes \in Nat
    /\ MaxMark \in Nat \ {0}

VARIABLES
    way, m_use_ssl, host_endpoint,       \* fixed when the object is created
    setup,              \* the connecting operation that is outstanding
    results,            \* how many endpoints the resolver returned
    m_running,
    m_recv_buffer,      \* bytes in the buffer that the user has not taken
    m_recv_water_mark,
    m_send_buffer,      \* the packs, numbered in the order they were filled
    socket,             \* "closed", "open" or (SSL) "shut"
    reading,            \* how many async_read_some are outstanding
    writing,            \* the async_writes outstanding, as [pack, at]
    queue,              \* handlers waiting for the io thread
    callback,           \* the callback the io thread is in
    answer,             \* what the attempt has told the user
    closes,             \* calls of on_close
    late,               \* data callbacks begun after on_close
    rejected,           \* callbacks that have returned false
    peer_open, peer_sent, bytes_read,    \* the peer's stream and what was read
    wire,               \* the pieces written to the socket, as <<pack, piece>>
    sent,               \* packs written in full
    posted, asked       \* the user's calls of send_buffer_fill and close

profile   == <<way, m_use_ssl, host_endpoint>>
setupVars == <<setup, results>>
recvVars  == <<m_recv_buffer, m_recv_water_mark>>
sendVars  == <<m_send_buffer, sent>>
callVars  == <<callback, answer, closes, late>>
peerVars  == <<peer_open, peer_sent, bytes_read>>
userVars  == <<posted, asked, rejected>>

vars == <<profile, setupVars, m_running, recvVars, sendVars, socket, reading,
          writing, queue, callVars, peerVars, wire, userVars>>

-----------------------------------------------------------------------------
\* An async_write: the pack it was given, and the piece it has come to.
Writes == [pack : Nat, at : Nat]

Introductions == {"on_accept", "on_connect"}
DataCallbacks == {"on_recv", "on_send"}
Callbacks == Introductions \cup DataCallbacks \cup {"connect_failed", "on_close"}
Setups == {"idle", "accept", "resolve", "connect", "handshake", "none"}

\* A handler in the io_context: which one, how its operation ended, and the
\* number it was given (bytes received, or the pack to push).
Ops == {"start", "stop", "push", "resolve", "connect", "handshake", "recv", "send"}
Handlers == [op : Ops, ok : BOOLEAN, n : Nat]
Handler(op, ok, n) == [op |-> op, ok |-> ok, n |-> n]
Post(op) == Handler(op, TRUE, 0)

Init ==
    /\ way \in Ways
    /\ m_use_ssl \in UseSsl
    /\ host_endpoint \in IF way = "accept" THEN {FALSE} ELSE Binds
    /\ setup = "idle" /\ results = 0
    /\ m_running = FALSE
    /\ m_recv_buffer = 0 /\ m_recv_water_mark = 1
    /\ m_send_buffer = <<>> /\ sent = 0
    /\ socket = "closed" /\ reading = 0 /\ writing = <<>>
    /\ queue = <<>>
    /\ callback = "none" /\ answer = "none" /\ closes = 0
    /\ late = [c \in DataCallbacks |-> 0]
    /\ peer_open = TRUE /\ peer_sent = 0 /\ bytes_read = 0
    /\ wire = <<>>
    /\ posted = 0 /\ asked = 0 /\ rejected = {}

-----------------------------------------------------------------------------
(* Creating the connection, on a thread of the manager's or of the user's. *)

\* async_create_connection, which throws if it cannot read the local address,
\* and start_accept for a listener.
CreateAsync ==
    /\ way \in {"async", "accept"} /\ setup = "idle"
    /\ \/ /\ setup' = IF way = "async" THEN "resolve" ELSE "accept"
          /\ UNCHANGED answer
       \/ /\ way = "async" /\ host_endpoint
          /\ setup' = "none" /\ answer' = "exception"
    /\ UNCHANGED <<profile, results, m_running, recvVars, sendVars, socket,
                   reading, writing, queue, callback, closes, late, peerVars,
                   wire, userVars>>

\* sync_create_connection resolves, binds and tries the endpoints in turn on
\* the caller's thread.  It posts start, or returns false, or the throwing
\* forms of make_address and resolve throw.
CreateSync ==
    /\ way = "sync" /\ setup = "idle"
    /\ setup' = "none"
    /\ \/ /\ socket' = "open"
          /\ queue' = Append(queue, Post("start"))
          /\ UNCHANGED answer
       \/ /\ answer' \in {"false", "exception"}
          /\ UNCHANGED <<socket, queue>>
    /\ UNCHANGED <<profile, results, m_running, recvVars, sendVars, reading,
                   writing, callback, closes, late, peerVars, wire, userVars>>

\* The listener's handle_accept, on the io_context of the acceptor.
handle_accept ==
    /\ setup = "accept"
    /\ setup' = "none"
    /\ \/ /\ socket' = "open"
          /\ queue' = Append(queue, Post("start"))
       \/ /\ queue' = Append(queue, Post("stop"))
          /\ UNCHANGED socket
    /\ UNCHANGED <<profile, results, m_running, recvVars, sendVars, reading,
                   writing, callVars, peerVars, wire, userVars>>

\* The resolver, async_connect and the SSL handshake complete.
Completes(op, ok) ==
    /\ setup = op
    /\ setup' = "none"
    /\ queue' = Append(queue, Handler(op, ok, 0))
    /\ UNCHANGED <<profile, m_running, recvVars, sendVars, reading, writing,
                   callVars, peerVars, wire, userVars>>

ResolveCompletes ==
    \E ok \in BOOLEAN :
        /\ Completes("resolve", ok)
        /\ results' \in IF ok THEN 1..MaxResults ELSE {0}
        /\ UNCHANGED socket

ConnectCompletes ==
    \E ok \in BOOLEAN :
        /\ Completes("connect", ok)
        /\ socket' = IF ok THEN "open" ELSE socket
        /\ UNCHANGED results

HandshakeCompletes ==
    \E ok \in BOOLEAN :
        /\ Completes("handshake", ok)
        /\ ok => peer_open
        /\ UNCHANGED <<results, socket>>

-----------------------------------------------------------------------------
(* What the handlers are made of.                                          *)

\* The io thread takes the first handler when it is not inside a callback.
Runs(op) == callback = "none" /\ queue # <<>> /\ Head(queue).op = op

\* The handler that runs reports an error of its operation.
Failed == ~Head(queue).ok

\* The io thread enters the user's callback c.
Calls(c) ==
    /\ callback' = c
    /\ answer' = IF c \in Introductions THEN "connection"
                 ELSE IF c = "connect_failed" THEN "nullptr" ELSE answer
    /\ closes' = IF c = "on_close" THEN closes + 1 ELSE closes
    /\ late' = IF c \in DataCallbacks /\ closes > 0
               THEN [late EXCEPT ![c] = @ + 1] ELSE late

\* Slip: an error that nobody acts upon.
close_forgotten == queue' = Tail(queue)

\* close(): the handler that runs posts stop behind everything queued.
close == queue' = Append(Tail(queue), Post("stop"))

recv == reading' = reading + 1

Write(pack, at) == [pack |-> pack, at |-> at]
send == writing' = Append(writing, Write(Head(m_send_buffer'), 1))

-----------------------------------------------------------------------------
(* The handlers, one per member function that the io_context calls.        *)

\* Slip: even the last endpoint's failure is passed over.
times_off_by_one == results > 0

\* More endpoints than one, and handle_connect takes a failure for the
\* failure of one of them.
more_times == results > 1

\* An exception of open or bind is a system_error, which the handler for
\* error_code does not catch: it leaves io_context::run and the thread.
handle_resolve ==
    /\ Runs("resolve")
    /\ queue' = Tail(queue)
    /\ \/ Failed /\ Calls("connect_failed") /\ UNCHANGED setup
       \/ ~Failed /\ setup' = "connect" /\ UNCHANGED callVars
       \/ /\ ~Failed /\ host_endpoint
          /\ callback' = "terminated"
          /\ UNCHANGED <<setup, answer, closes, late>>
    /\ UNCHANGED <<profile, results, m_running, recvVars, sendVars, socket,
                   reading, writing, peerVars, wire, userVars>>

handle_connect ==
    /\ Runs("connect")
    /\ \/ /\ ~Failed
          /\ queue' = Append(Tail(queue), Post("start"))
          /\ UNCHANGED callVars
       \/ Failed /\ more_times /\ queue' = Tail(queue) /\ UNCHANGED callVars
       \/ Failed /\ ~more_times /\ queue' = Tail(queue) /\ Calls("connect_failed")
    /\ UNCHANGED <<profile, setupVars, m_running, recvVars, sendVars, socket,
                   reading, writing, peerVars, wire, userVars>>

\* handle_handshake without an error: the user gets the connection.
Introduce ==
    /\ m_running' = TRUE
    /\ Calls(IF way = "accept" THEN "on_accept" ELSE "on_connect")

start ==
    /\ Runs("start")
    /\ queue' = Tail(queue)
    /\ \/ m_use_ssl /\ setup' = "handshake" /\ UNCHANGED <<m_running, callVars>>
       \/ ~m_use_ssl /\ Introduce /\ UNCHANGED setup
    /\ UNCHANGED <<profile, results, recvVars, sendVars, socket, reading,
                   writing, peerVars, wire, userVars>>

\* A failed handshake is passed over in silence.
handle_handshake ==
    /\ Runs("handshake")
    /\ queue' = Tail(queue)
    /\ IF Failed THEN UNCHANGED <<m_running, callVars>> ELSE Introduce
    /\ UNCHANGED <<profile, setupVars, recvVars, sendVars, socket, reading,
                   writing, peerVars, wire, userVars>>

\* Slip: the socket is shut down and never closed.
shutdown_only == UNCHANGED socket

\* TcpSession::shutdown closes the socket, which leaves its operations
\* nothing but operation_aborted.
TcpShutdown == socket' = "closed"

\* Slip: every stop runs, also the second, and that of a failed accept.
always_stop == TRUE

may_stop == m_running

\* SslSession::shutdown writes close_notify and waits on the io thread for the
\* peer's: on_close comes after it.
stop ==
    /\ Runs("stop")
    /\ queue' = Tail(queue)
    /\ \/ ~may_stop /\ UNCHANGED <<socket, callVars>>
       \/ may_stop /\ ~m_use_ssl /\ TcpShutdown /\ Calls("on_close")
       \/ /\ may_stop /\ m_use_ssl
          /\ callback' = "shutdown"
          /\ UNCHANGED <<socket, answer, closes, late>>
    /\ UNCHANGED <<profile, setupVars, m_running, recvVars, sendVars, reading,
                   writing, peerVars, wire, userVars>>

ShutdownReturns ==
    /\ callback = "shutdown"
    /\ socket' = "shut"
    /\ Calls("on_close")
    /\ UNCHANGED <<profile, setupVars, m_running, recvVars, sendVars, reading,
                   writing, queue, peerVars, wire, userVars>>

\* Slips: the test comes after the commit; there is no test.
need_send_late == m_send_buffer' = <<>>
need_send_always == TRUE

need_send == m_send_buffer = <<>>

push_send_data ==
    /\ Runs("push")
    /\ queue' = Tail(queue)
    /\ m_send_buffer' = Append(m_send_buffer, Head(queue).n)
    /\ IF need_send THEN send ELSE UNCHANGED writing
    /\ UNCHANGED <<profile, setupVars, m_running, recvVars, sent, socket,
                   reading, callVars, peerVars, wire, userVars>>

\* Slip: the mark itself does not count.
above_water_mark == m_recv_buffer' > m_recv_water_mark

at_water_mark == m_recv_buffer' >= m_recv_water_mark

\* Slip: the handler returns without reading again when the mark is not met.
commit_and_return ==
    /\ IF at_water_mark THEN Calls("on_recv") ELSE UNCHANGED callVars
    /\ UNCHANGED reading

ShowOrReadOn ==
    IF at_water_mark
    THEN Calls("on_recv") /\ UNCHANGED reading
    ELSE recv /\ UNCHANGED callVars

handle_recv ==
    /\ Runs("recv")
    /\ \/ Failed /\ close /\ UNCHANGED <<m_recv_buffer, reading, callVars>>
       \/ /\ ~Failed
          /\ queue' = Tail(queue)
          /\ m_recv_buffer' = m_recv_buffer + Head(queue).n
          /\ ShowOrReadOn
    /\ UNCHANGED <<profile, setupVars, m_running, m_recv_water_mark, sendVars,
                   socket, writing, peerVars, wire, userVars>>

handle_send ==
    /\ Runs("send")
    /\ \/ Failed /\ close /\ UNCHANGED <<sendVars, writing, callVars>>
       \/ /\ ~Failed
          /\ queue' = Tail(queue)
          /\ m_send_buffer' = Tail(m_send_buffer)
          /\ sent' = sent + 1
          /\ IF m_send_buffer' = <<>>
             THEN Calls("on_send") /\ UNCHANGED writing
             ELSE send /\ UNCHANGED callVars
    /\ UNCHANGED <<profile, setupVars, m_running, recvVars, socket, reading,
                   peerVars, wire, userVars>>

-----------------------------------------------------------------------------
(* The end of a callback: the rest of the handler that made it.            *)

\* Slip: close() without the return after it, so that recv() follows.
close_without_return(kept) ==
    /\ callback \in Introductions \cup {"on_recv"}
    /\ recv
    /\ queue' = IF kept THEN queue ELSE Append(queue, Post("stop"))
    /\ rejected' = IF kept THEN rejected ELSE rejected \cup {callback}
    /\ UNCHANGED m_running

\* on_accept, on_connect and on_recv go on reading if they return true.
ReturnToReading(kept) ==
    /\ callback \in Introductions \cup {"on_recv"}
    /\ IF kept
       THEN recv /\ UNCHANGED <<queue, rejected>>
       ELSE /\ queue' = Append(queue, Post("stop"))
            /\ rejected' = rejected \cup {callback}
            /\ UNCHANGED reading
    /\ UNCHANGED m_running

ReturnFromSend(kept) ==
    /\ callback = "on_send"
    /\ IF kept
       THEN UNCHANGED <<queue, rejected>>
       ELSE /\ queue' = Append(queue, Post("stop"))
            /\ rejected' = rejected \cup {callback}
    /\ UNCHANGED <<m_running, reading>>

ReturnFromClose ==
    /\ callback = "on_close"
    /\ m_running' = FALSE
    /\ UNCHANGED <<queue, rejected, reading>>

ReturnFromFailure ==
    /\ callback = "connect_failed"
    /\ UNCHANGED <<m_running, queue, rejected, reading>>

Return ==
    /\ \/ \E kept \in BOOLEAN : ReturnToReading(kept) \/ ReturnFromSend(kept)
       \/ ReturnFromClose
       \/ ReturnFromFailure
    /\ callback' = "none"
    /\ UNCHANGED <<profile, setupVars, recvVars, sendVars, socket, writing,
                   answer, closes, late, peerVars, wire, posted, asked>>

-----------------------------------------------------------------------------
(* The user, who has the connection once a callback introduced it.         *)

Known == answer = "connection"

\* On any thread, inside or outside of a callback, before or after on_close.
send_buffer_fill ==
    /\ Known /\ posted < MaxFill
    /\ posted' = posted + 1
    /\ queue' = Append(queue, Handler("push", TRUE, posted + 1))
    /\ UNCHANGED <<profile, setupVars, m_running, recvVars, sendVars, socket,
                   reading, writing, callVars, peerVars, wire, asked, rejected>>

UserCloses ==
    /\ Known /\ asked < MaxClose
    /\ asked' = asked + 1
    /\ queue' = Append(queue, Post("stop"))
    /\ UNCHANGED <<profile, setupVars, m_running, recvVars, sendVars, socket,
                   reading, writing, callVars, peerVars, wire, posted, rejected>>

\* The receive buffer is the callbacks' to touch: recv_buffer_drop (and
\* recv_buffer_move, which also copies) and recv_buffer_water_mark.
InCallback == callback \in Introductions \cup DataCallbacks \cup {"on_close"}

\* Slip: the size of the buffer is not looked at.
any_length == 1..(m_recv_buffer + 1)

buffered_length == 1..m_recv_buffer

recv_buffer_drop ==
    /\ InCallback
    /\ \E len \in buffered_length : m_recv_buffer' = m_recv_buffer - len
    /\ UNCHANGED <<profile, setupVars, m_running, m_recv_water_mark, sendVars,
                   socket, reading, writing, queue, callVars, peerVars, wire,
                   userVars>>

recv_buffer_water_mark ==
    /\ InCallback
    /\ m_recv_water_mark' \in 0..MaxMark
    /\ UNCHANGED <<profile, setupVars, m_running, m_recv_buffer, sendVars,
                   socket, reading, writing, queue, callVars, peerVars, wire,
                   userVars>>

-----------------------------------------------------------------------------
(* The kernel and the peer.                                                *)

PeerSends ==
    /\ peer_open /\ socket # "closed" /\ peer_sent < MaxBytes
    /\ peer_sent' = peer_sent + 1
    /\ UNCHANGED <<profile, setupVars, m_running, recvVars, sendVars, socket,
                   reading, writing, queue, callVars, peer_open, bytes_read,
                   wire, userVars>>

\* An orderly end, a reset, or the loss of the link.
PeerCloses ==
    /\ peer_open /\ socket # "closed"
    /\ peer_open' = FALSE
    /\ UNCHANGED <<profile, setupVars, m_running, recvVars, sendVars, socket,
                   reading, writing, queue, callVars, peer_sent, bytes_read,
                   wire, userVars>>

\* An operation can succeed while the socket is not closed, and can fail
\* once it is not open or the peer is gone.
CanFail == socket # "open" \/ ~peer_open

ReadCompletes ==
    /\ reading > 0
    /\ reading' = reading - 1
    /\ \/ /\ socket # "closed"
          /\ \E n \in 1..(peer_sent - bytes_read) :
                /\ bytes_read' = bytes_read + n
                /\ queue' = Append(queue, Handler("recv", TRUE, n))
       \/ /\ CanFail
          /\ queue' = Append(queue, Handler("recv", FALSE, 0))
          /\ UNCHANGED bytes_read
    /\ UNCHANGED <<profile, setupVars, m_running, recvVars, sendVars, socket,
                   writing, callVars, peer_open, peer_sent, wire, userVars>>

\* The kernel takes one piece of the oldest write; a write with pieces left
\* waits for its next turn behind the others.
WriteCompletes ==
    /\ writing # <<>>
    /\ LET w == Head(writing) IN
       \/ /\ socket # "closed"
          /\ wire' = Append(wire, <<w.pack, w.at>>)
          /\ IF w.at < Chunks
             THEN /\ writing' = Append(Tail(writing), Write(w.pack, w.at + 1))
                  /\ UNCHANGED queue
             ELSE /\ writing' = Tail(writing)
                  /\ queue' = Append(queue, Handler("send", TRUE, 0))
       \/ /\ CanFail
          /\ writing' = Tail(writing)
          /\ queue' = Append(queue, Handler("send", FALSE, 0))
          /\ UNCHANGED wire
    /\ UNCHANGED <<profile, setupVars, m_running, recvVars, sendVars, socket,
                   reading, callVars, peerVars, userVars>>

-----------------------------------------------------------------------------
IoThread ==
    \/ handle_resolve \/ handle_connect \/ start \/ handle_handshake
    \/ stop \/ push_send_data \/ handle_recv \/ handle_send

Creation == CreateAsync \/ CreateSync
Setup == handle_accept \/ ResolveCompletes \/ ConnectCompletes \/ HandshakeCompletes
User == send_buffer_fill \/ UserCloses \/ recv_buffer_drop \/ recv_buffer_water_mark
Peer == PeerSends \/ PeerCloses

\* std::terminate (callback "terminated") leaves nothing that could move.
Next ==
    \/ Creation \/ Setup \/ IoThread \/ ShutdownReturns \/ Return
    \/ User \/ Peer \/ ReadCompletes \/ WriteCompletes

\* The io thread runs handlers as long as there are any, the kernel completes
\* the operations it can, and callbacks return.  Nothing makes the user or the
\* peer act, so only a peer that is gone is sure to end an SSL exchange.
Fairness ==
    /\ WF_vars(IoThread)
    /\ WF_vars(Return)
    /\ WF_vars(ResolveCompletes \/ ConnectCompletes)
    /\ WF_vars(ReadCompletes)
    /\ WF_vars(WriteCompletes)
    /\ WF_vars(~peer_open /\ (HandshakeCompletes \/ ShutdownReturns))

Spec == Init /\ [][Next]_vars /\ Fairness

-----------------------------------------------------------------------------
Waiting(op) == \E i \in 1..Len(queue) : queue[i].op = op

CallTypeOK ==
    /\ callback \in Callbacks \cup {"none", "shutdown", "terminated"}
    /\ answer \in {"none", "connection", "nullptr", "false", "exception"}
    /\ closes \in Nat /\ late \in [DataCallbacks -> Nat]

\* The type of every variable.
TypeOK ==
    /\ way \in AllWays /\ m_use_ssl \in BOOLEAN /\ host_endpoint \in BOOLEAN
    /\ setup \in Setups /\ results \in Nat
    /\ m_running \in BOOLEAN
    /\ m_recv_buffer \in Nat /\ m_recv_water_mark \in Nat
    /\ m_send_buffer \in Seq(Nat) /\ sent \in Nat
    /\ socket \in {"closed", "open", "shut"}
    /\ reading \in Nat
    /\ writing \in Seq(Writes)
    /\ queue \in Seq(Handlers)
    /\ CallTypeOK
    /\ peer_open \in BOOLEAN /\ peer_sent \in Nat /\ bytes_read \in Nat
    /\ wire \in Seq(Nat \X Nat)
    /\ posted \in Nat /\ asked \in Nat
    /\ rejected \subseteq Callbacks

\* While a connection runs, and the user is in none of the callbacks after
\* which reading goes on, either a read is outstanding or completed, or a stop
\* is under way: no path through handle_recv and handle_handshake forgets to
\* read again, which would leave a connection that never notices its peer.
ReadArmed ==
    m_running /\ callback \notin Introductions \cup {"on_recv", "shutdown", "on_close"}
        => reading > 0 \/ Waiting("recv") \/ Waiting("stop")

\* Likewise a pack in the send buffer is being written, or its completion
\* waits, or a failed write has already asked for the stop: push_send_data,
\* which writes only into an empty buffer, and handle_send, which takes the
\* next pack, never leave a pack to each other.
SendArmed ==
    m_running /\ m_send_buffer # <<>> /\ callback \notin {"shutdown", "on_close"}
        => writing # <<>> \/ Waiting("send") \/ Waiting("stop")

\* async_write is given the address of the front pack (buffer(front())): the
\* pack stays the front until the completion is handled, also when the user
\* fills more from other threads, and no two writes are outstanding at a time.
WriteInPlace ==
    /\ Len(writing) + (IF Waiting("send") THEN 1 ELSE 0) <= 1
    /\ writing # <<>> => m_send_buffer # <<>> /\ writing[1].pack = Head(m_send_buffer)

Follows(b, a) ==
    IF a[2] < Chunks THEN b = <<a[1], a[2] + 1>> ELSE b = <<a[1] + 1, 1>>

\* What the peer receives is the packs one after the other, in the order of
\* the calls of send_buffer_fill, without a gap or a repetition: only the end
\* may be missing.
WireIsStream ==
    /\ wire # <<>> => wire[1] = <<1, 1>>
    /\ \A i \in 1..Len(wire) - 1 : Follows(wire[i + 1], wire[i])

\* However many stops are queued, and although m_running is still set while
\* on_close runs, a plain TCP connection makes at most one on_recv and one
\* on_send after it: of completions that were in the queue behind the stop.
LateCallbacksBounded == ~m_use_ssl => \A c \in DataCallbacks : late[c] <= 1

\* A user who returned false from on_accept, on_connect or on_recv is not
\* given data again, although the stop this posts has not run yet.
Deaf == rejected \cap (Introductions \cup {"on_recv"}) # {}
NoRecvAfterReject == Deaf => callback # "on_recv"

\* readme.md:249, "it is the last callback of connection".
OnCloseIsLast == closes > 0 => callback \notin DataCallbacks

-----------------------------------------------------------------------------
\* An attempt of create_connection is answered: by on_connect, with the
\* connection or a null pointer, or by the call itself.  A handshake may last
\* as long as its peer likes, so for SSL this asks for a peer that is gone.
ConnectAnswered ==
    (way # "accept" /\ setup # "idle" /\ (m_use_ssl => ~peer_open)) ~> answer # "none"

\* Whoever ends it, the user with close or a false return or the peer, an open
\* connection comes to its on_close.
CloseAnswered ==
    (m_running /\ (asked > 0 \/ rejected # {} \/ ~peer_open)) ~> closes > 0

\* A byte the peer sent reaches an on_recv, unless the water mark keeps it
\* back or the connection closes first.
DataShown ==
    \A b \in 1..MaxBytes :
        (m_running /\ bytes_read < b /\ b <= peer_sent)
            ~> \/ callback = "on_recv" /\ bytes_read >= b
               \/ m_recv_water_mark > 1
               \/ closes > 0

\* A pack the user filled is written and then reported by an on_send, unless
\* the connection closes first.
SentReported ==
    \A p \in 1..MaxFill :
        (m_running /\ sent < p /\ p <= posted)
            ~> (callback = "on_send" /\ sent >= p) \/ closes > 0

\* After on_close nothing keeps the connection alive for ever: every
\* operation and handler that holds a shared_ptr to it comes to an end.
Released ==
    closes > 0 ~> [](reading = 0 /\ writing = <<>> /\ queue = <<>> /\ callback = "none")

\* What the user knows of the connection, and the callback that is running.
Phase ==
    IF closes > 0 THEN "closed"
    ELSE CASE answer = "connection" -> "open"
           [] answer = "nullptr"    -> "failed"
           [] OTHER                 -> "new"
Active == IF callback \in Callbacks THEN callback ELSE "none"

\* The contract of the callbacks, with one late callback of each kind.
Contract == INSTANCE CallbackContract WITH
    MaxLate <- 1, phase <- Phase, active <- Active, late <- late, deaf <- Deaf

ImplementsContract == Contract!Spec

=============================================================================
