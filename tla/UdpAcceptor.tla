----------------------------- MODULE UdpAcceptor -----------------------------
(***************************************************************************)
(* A UDP listener: UdpAcceptor, which owns the socket of one port, and the *)
(* UdpPassiveConnections it makes, one for each peer it hears of.          *)
(*                                                                         *)
(* There is one socket, one outstanding receive, one queue of packs and    *)
(* one io thread for all of the connections, and m_connection_map says     *)
(* which of them a peer's endpoint belongs to.  A connection that the user *)
(* closes leaves the map, and the next datagram of its peer makes another. *)
(* Connections are numbered in the order they are made.                    *)
(*                                                                         *)
(* As in TcpConnection a handler is one step up to a call of the user, the *)
(* callback is a state in which other threads move, and a step of its own  *)
(* ends it.  UdpAcceptor::stop and handle_stop have no caller, and are not *)
(* modelled: an acceptor that started runs for as long as its pool does.   *)
(***************************************************************************)
EXTENDS Naturals, Sequences, FiniteSets

CONSTANTS
    Endpoints,      \* the peers
    NoEndpoint,     \* what m_peer_endpoint is before the first datagram
    MaxDatagrams,   \* datagrams that arrive
    MaxErrors,      \* receives that end in an error, 0 where they cannot
    MaxFill,        \* calls of send_buffer_fill
    MaxClose,       \* calls of close by the user
    MaxInputs       \* all four together

ASSUME EndpointsAssumption == NoEndpoint \notin Endpoints
ASSUME BoundsAssumption ==
    /\ MaxDatagrams \in Nat
    /\ MaxErrors \in Nat
    /\ MaxFill \in Nat
    /\ MaxClose \in Nat
    /\ MaxInputs \in Nat

VARIABLES
    m_good,             \* the socket is open and bound
    m_running,
    m_connection_map,   \* the number of a peer's connection, or None
    connections,        \* all that were ever made
    m_peer_endpoint,    \* where the last datagram came from
    m_recv_data,        \* that datagram, or Nothing
    m_send_buffer,      \* packs with their destinations
    reading,            \* how many async_receive_from are outstanding
    writing,            \* the async_send_to outstanding
    queue,              \* handlers waiting for the io thread
    callback,           \* the callback the io thread is in, and of whom
    arrived,            \* the sender of each datagram, in order of arrival
    errors,             \* receives that have ended in an error
    delivered,          \* the packs the kernel took
    posted,             \* who filled each pack, in the order of the calls
    asked,              \* whom the user closed
    rejected,           \* the callbacks that returned false, as <<whom, which>>
    closed              \* the calls of on_close, in order

acceptorVars == <<m_good, m_running>>
tableVars    == <<m_connection_map, connections>>
datagramVars == <<m_peer_endpoint, m_recv_data, arrived, errors>>
sendVars     == <<m_send_buffer, writing, delivered>>
userVars     == <<posted, asked>>

reports      == <<userVars, rejected, closed>>

vars == <<acceptorVars, tableVars, datagramVars, sendVars, reading, queue,
          callback, reports>>

-----------------------------------------------------------------------------
None == 0           \* no connection
Nothing == 0        \* no datagram: the receive transferred no bytes

\* A passive connection, with what it has shown the user and how many frames
\* of that the user has not dropped from m_recv_buffer.
Connections == [endpoint : Endpoints, m_running : BOOLEAN,
                shown : Seq(Nat), m_recv_buffer : Nat]

Packs == [endpoint : Endpoints, pack : Nat]

Ops == {"recv", "send", "push", "close"}
Handlers == [op : Ops, endpoint : Endpoints \cup {NoEndpoint}, pack : Nat]
Handler(op, endpoint, pack) == [op |-> op, endpoint |-> endpoint, pack |-> pack]
Post(op) == Handler(op, NoEndpoint, 0)

Quiet == [name |-> "none", conn |-> None]
Callback(name, c) == [name |-> name, conn |-> c]

\* A constructor that cannot open or bind its socket leaves m_good unset.
Init ==
    /\ m_good \in BOOLEAN /\ m_running = FALSE
    /\ m_connection_map = [e \in Endpoints |-> None]
    /\ connections = <<>>
    /\ m_peer_endpoint = NoEndpoint /\ m_recv_data = Nothing
    /\ m_send_buffer = <<>>
    /\ reading = 0 /\ writing = <<>> /\ queue = <<>>
    /\ callback = Quiet
    /\ arrived = <<>> /\ errors = 0 /\ delivered = <<>>
    /\ posted = <<>> /\ asked = <<>> /\ rejected = {} /\ closed = <<>>

\* The bound on what comes from outside.
MoreInputs == Len(arrived) + errors + Len(posted) + Len(asked) < MaxInputs

-----------------------------------------------------------------------------
(* What the handlers are made of.                                          *)

\* The io thread takes the first handler when it is not inside a callback.
Runs(op) == callback = Quiet /\ queue # <<>> /\ Head(queue).op = op

recv == reading' = reading + 1
send == writing' = Append(writing, Head(m_send_buffer'))

\* Slip: the false return is not acted upon.
close_forgotten(c) == UNCHANGED queue

\* UdpPassiveConnection::close asks the acceptor to close its endpoint.
close(c) == queue' = Append(queue, Handler("close", connections[c].endpoint, 0))

\* Slip: the new connection is started but not entered.
start_only(c) == UNCHANGED m_connection_map

insert(c) == m_connection_map' = [m_connection_map EXCEPT ![m_peer_endpoint] = c]

\* Slip: the connection is stopped but not erased.
stop_only(e) == UNCHANGED m_connection_map

erase(e) == m_connection_map' = [m_connection_map EXCEPT ![e] = None]

\* UdpPassiveConnection::recv copies the datagram into its own buffer and
\* calls the user.
Received(x) ==
    [x EXCEPT !.shown = Append(@, m_recv_data), !.m_recv_buffer = @ + 1]
Show(c) ==
    /\ connections' = [connections EXCEPT ![c] = Received(connections[c])]
    /\ callback' = Callback("on_recv", c)

-----------------------------------------------------------------------------
(* The acceptor's handlers.                                                *)

\* Called by UdpManagerImpl::init.
start ==
    /\ m_good /\ ~m_running
    /\ m_running' = TRUE
    /\ recv
    /\ UNCHANGED <<m_good, tableVars, datagramVars, sendVars, queue, callback,
                   reports>>

\* A new peer's connection is entered and introduced; a known one is shown
\* the datagram.  The error of the receive is not looked at.
handle_recv ==
    /\ Runs("recv")
    /\ queue' = Tail(queue)
    /\ LET known == m_connection_map[m_peer_endpoint]
           new   == Len(connections) + 1
       IN \/ /\ known = None
             /\ connections' = Append(connections,
                    [endpoint |-> m_peer_endpoint, m_running |-> TRUE,
                     shown |-> <<>>, m_recv_buffer |-> 0])
             /\ insert(new)
             /\ callback' = Callback("on_accept", new)
          \/ known # None /\ Show(known) /\ UNCHANGED m_connection_map
    /\ UNCHANGED <<acceptorVars, datagramVars, sendVars, reading, reports>>

\* Slips: the test comes after the pack is queued; there is no test.
need_send_late == m_send_buffer' = <<>>
need_send_always == TRUE

need_send == m_send_buffer = <<>>

push_send_data ==
    /\ Runs("push")
    /\ queue' = Tail(queue)
    /\ m_send_buffer' = Append(m_send_buffer,
           [endpoint |-> Head(queue).endpoint, pack |-> Head(queue).pack])
    /\ IF need_send THEN send ELSE UNCHANGED writing
    /\ UNCHANGED <<acceptorVars, tableVars, datagramVars, delivered, reading,
                   callback, reports>>

\* Sent or not, the pack is done with.
handle_send ==
    /\ Runs("send")
    /\ queue' = Tail(queue)
    /\ m_send_buffer' = Tail(m_send_buffer)
    /\ IF m_send_buffer' # <<>> THEN send ELSE UNCHANGED writing
    /\ UNCHANGED <<acceptorVars, tableVars, datagramVars, delivered, reading,
                   callback, reports>>

\* The connection that has the endpoint now, whoever asked, is stopped.
handle_close ==
    /\ Runs("close")
    /\ queue' = Tail(queue)
    /\ LET e == Head(queue).endpoint
           c == m_connection_map[e]
           runs == c # None /\ connections[c].m_running
       IN /\ callback' = IF runs THEN Callback("on_close", c) ELSE Quiet
          /\ closed' = IF runs THEN Append(closed, c) ELSE closed
          /\ IF c # None /\ ~runs THEN erase(e) ELSE UNCHANGED m_connection_map
    /\ UNCHANGED <<acceptorVars, connections, datagramVars, sendVars, reading,
                   userVars, rejected>>

-----------------------------------------------------------------------------
(* The end of a callback: the rest of the handler that made it.            *)

Answer(c, kept) ==
    IF kept
    THEN UNCHANGED <<queue, rejected>>
    ELSE close(c) /\ rejected' = rejected \cup {<<c, callback.name>>}

\* Slip: a refused connection is not shown the datagram that made it.
return_when_refused(c, kept) ==
    /\ callback = Callback("on_accept", c)
    /\ Answer(c, kept)
    /\ IF kept THEN Show(c) /\ UNCHANGED reading
       ELSE recv /\ callback' = Quiet /\ UNCHANGED connections
    /\ UNCHANGED <<m_connection_map, closed>>

\* Kept or not, the connection is shown the datagram.
ReturnFromAccept(c, kept) ==
    /\ callback = Callback("on_accept", c)
    /\ Answer(c, kept)
    /\ Show(c)
    /\ UNCHANGED <<m_connection_map, reading, closed>>

\* Slip: the acceptor stops receiving with the connection.
recv_when_kept(c, kept) ==
    /\ callback = Callback("on_recv", c)
    /\ Answer(c, kept)
    /\ IF kept THEN recv ELSE UNCHANGED reading
    /\ callback' = Quiet
    /\ UNCHANGED <<tableVars, closed>>

\* Kept or not, the acceptor goes on receiving.
ReturnFromRecv(c, kept) ==
    /\ callback = Callback("on_recv", c)
    /\ Answer(c, kept)
    /\ recv
    /\ callback' = Quiet
    /\ UNCHANGED <<tableVars, closed>>

ReturnFromClose(c) ==
    /\ callback = Callback("on_close", c)
    /\ connections' = [connections EXCEPT ![c].m_running = FALSE]
    /\ erase(connections[c].endpoint)
    /\ callback' = Quiet
    /\ UNCHANGED <<queue, rejected, reading, closed>>

Return ==
    /\ \E c \in 1..Len(connections) :
          \/ \E kept \in BOOLEAN : ReturnFromAccept(c, kept) \/ ReturnFromRecv(c, kept)
          \/ ReturnFromClose(c)
    /\ UNCHANGED <<acceptorVars, datagramVars, sendVars, userVars>>

-----------------------------------------------------------------------------
(* The user, on any thread, who knows every connection from its on_accept. *)

\* Also of a connection that was closed.
send_buffer_fill(c) ==
    /\ Len(posted) < MaxFill /\ MoreInputs
    /\ posted' = Append(posted, c)
    /\ queue' = Append(queue, Handler("push", connections[c].endpoint, Len(posted) + 1))
    /\ UNCHANGED <<acceptorVars, tableVars, datagramVars, sendVars, reading,
                   callback, asked, rejected, closed>>

UserCloses(c) ==
    /\ Len(asked) < MaxClose /\ MoreInputs
    /\ asked' = Append(asked, c)
    /\ close(c)
    /\ UNCHANGED <<acceptorVars, tableVars, datagramVars, sendVars, reading,
                   callback, posted, rejected, closed>>

\* Slip: an empty buffer is not recognised.
any_buffer(c) == TRUE

recv_buffer_has_data(c) == connections[c].m_recv_buffer > 0

\* In a callback of the connection, as the readme asks.
recv_buffer_drop(c) ==
    /\ callback.conn = c
    /\ recv_buffer_has_data(c)
    /\ connections' = [connections EXCEPT ![c].m_recv_buffer = @ - 1]
    /\ UNCHANGED <<acceptorVars, m_connection_map, datagramVars, sendVars,
                   reading, queue, callback, reports>>

-----------------------------------------------------------------------------
(* The network and the kernel.                                             *)

\* The outstanding receive takes the next datagram of some peer, which is
\* anything the network brings: lost datagrams never arrive, and repeated and
\* late ones are datagrams like others.
DatagramArrives ==
    /\ reading > 0 /\ Len(arrived) < MaxDatagrams /\ MoreInputs
    /\ \E e \in Endpoints :
          /\ arrived' = Append(arrived, e)
          /\ m_peer_endpoint' = e
    /\ m_recv_data' = Len(arrived) + 1
    /\ reading' = reading - 1
    /\ queue' = Append(queue, Post("recv"))
    /\ UNCHANGED <<acceptorVars, tableVars, errors, sendVars, callback,
                   reports>>

\* On Windows a pack that found nobody at its port comes back as an error of
\* the next receive, which writes neither the endpoint nor the data.
ReceiveFails ==
    /\ reading > 0 /\ errors < MaxErrors /\ MoreInputs /\ delivered # <<>>
    /\ errors' = errors + 1
    /\ m_recv_data' = Nothing
    /\ reading' = reading - 1
    /\ queue' = Append(queue, Post("recv"))
    /\ UNCHANGED <<acceptorVars, tableVars, m_peer_endpoint, arrived, sendVars,
                   callback, reports>>

SendCompletes ==
    /\ writing # <<>>
    /\ writing' = Tail(writing)
    /\ delivered' \in {delivered, Append(delivered, Head(writing))}
    /\ queue' = Append(queue, Post("send"))
    /\ UNCHANGED <<acceptorVars, tableVars, datagramVars, m_send_buffer,
                   reading, callback, reports>>

-----------------------------------------------------------------------------
IoThread == handle_recv \/ push_send_data \/ handle_send \/ handle_close

User ==
    \E c \in 1..Len(connections) :
        send_buffer_fill(c) \/ UserCloses(c) \/ recv_buffer_drop(c)

Next ==
    \/ start \/ IoThread \/ Return \/ User
    \/ DatagramArrives \/ ReceiveFails \/ SendCompletes

\* The io thread runs handlers as long as there are any, callbacks return and
\* the kernel ends a send.  Nobody has to send the acceptor anything.
Fairness == WF_vars(IoThread) /\ WF_vars(Return) /\ WF_vars(SendCompletes)

Spec == Init /\ [][Next]_vars /\ Fairness

-----------------------------------------------------------------------------
\* The places of a handler in the queue.
Places(op) == {i \in 1..Len(queue) : queue[i].op = op}
Waiting(op) == Places(op) # {}
Known == 1..Len(connections)

\* The type of every variable.
TypeOK ==
    /\ m_good \in BOOLEAN /\ m_running \in BOOLEAN
    /\ m_connection_map \in [Endpoints -> Nat]
    /\ connections \in Seq(Connections)
    /\ m_peer_endpoint \in Endpoints \cup {NoEndpoint} /\ m_recv_data \in Nat
    /\ m_send_buffer \in Seq(Packs) /\ writing \in Seq(Packs) /\ delivered \in Seq(Packs)
    /\ reading \in Nat /\ errors \in Nat
    /\ queue \in Seq(Handlers)
    /\ callback \in [name : {"none", "on_accept", "on_recv", "on_close"}, conn : Nat]
    /\ arrived \in Seq(Endpoints)
    /\ posted \in Seq(Nat) /\ asked \in Seq(Nat) /\ closed \in Seq(Nat)
    /\ rejected \subseteq Nat \X {"on_accept", "on_recv"}

\* m_connection_map and the m_running of the connections agree: a connection
\* runs exactly as long as its endpoint leads to it, so that no two of one
\* peer ever run, and no closed one is found by a datagram.
MapExact ==
    \A c \in Known :
        connections[c].m_running <=> m_connection_map[connections[c].endpoint] = c

\* Whatever the users of the connections answer, the acceptor's one receive is
\* outstanding, or completed, or in the hands of the callback that is running,
\* and never two of these: m_recv_data and m_peer_endpoint, which the kernel
\* writes, are not overwritten before they are used.
ReceiveToken ==
    LET receives == reading + Cardinality(Places("recv"))
    IN receives = IF m_running /\ callback.name \notin {"on_accept", "on_recv"}
                  THEN 1 ELSE 0

\* The datagram that handle_recv has not yet given to a connection.
InHand(d) ==
    d = m_recv_data /\ (Waiting("recv") \/ callback.name = "on_accept")

\* Datagram d is among those that connection c has shown.
Shows(c, d) == \E i \in 1..Len(connections[c].shown) : connections[c].shown[i] = d

\* Every datagram that arrived is shown once, by a connection to its sender
\* and after those that arrived before it, whichever connections come and go.
Demultiplexed ==
    /\ \A c \in Known : \A i, j \in 1..Len(connections[c].shown) :
          LET d == connections[c].shown[i]
          IN d # Nothing =>
                /\ arrived[d] = connections[c].endpoint
                /\ j < i => connections[c].shown[j] < d
    /\ \A d \in 1..Len(arrived) :
          /\ ~InHand(d) => \E c \in Known : Shows(c, d)
          /\ \A b, c \in Known : Shows(b, d) /\ Shows(c, d) => b = c

\* on_close is made once, and is the last callback of a passive connection.
OnCloseIsLast ==
    /\ \A i, j \in 1..Len(closed) : closed[i] = closed[j] => i = j
    /\ \A i \in 1..Len(closed) :
          callback.conn = closed[i] => callback.name = "on_close"

\* A connection that was refused in on_recv shows nothing more, and one that
\* was refused in on_accept only the datagram it was made for: the stop that
\* the refusal posts overtakes every later datagram.
RefusedIsLast ==
    \A c \in Known :
        /\ <<c, "on_recv">> \in rejected => callback # Callback("on_recv", c)
        /\ <<c, "on_accept">> \in rejected => Len(connections[c].shown) <= 1

\* Packs of all connections go out in the order they were filled, each to the
\* peer of the connection that it was given to, and none twice.
DeliveredInOrder ==
    \A i \in 1..Len(delivered) :
        /\ delivered[i].endpoint = connections[posted[delivered[i].pack]].endpoint
        /\ i > 1 => delivered[i - 1].pack < delivered[i].pack

-----------------------------------------------------------------------------
Closed(c) == \E i \in 1..Len(closed) : closed[i] = c
Asked(c) ==
    \/ \E i \in 1..Len(asked) : asked[i] = c
    \/ <<c, "on_accept">> \in rejected \/ <<c, "on_recv">> \in rejected

\* A connection whose user closes it or returns false comes to its on_close.
CloseAnswered ==
    \A c \in 1..(MaxDatagrams + MaxErrors) : Asked(c) ~> Closed(c)

Pending(p) ==
    \/ \E i \in 1..Len(queue) : queue[i].op = "push" /\ queue[i].pack = p
    \/ \E i \in 1..Len(m_send_buffer) : m_send_buffer[i].pack = p

\* No pack stays with the acceptor, also if those before it cannot be sent.
PacksLeave == \A p \in 1..MaxFill : Pending(p) ~> ~Pending(p)

\* readme.md:331, "if return false means that the current connection is
\* abandoned": of the connection that returned, and of no other.
ClosedByOwner == \A i \in 1..Len(closed) : Asked(closed[i])

=============================================================================
