-------------------------- MODULE UdpAcceptorProofs --------------------------
(***************************************************************************)
(* The safety invariants of UdpAcceptor, proved for every set of peers and *)
(* every bound.                                                            *)
(*                                                                         *)
(* The acceptor's one receive and one send are tokens, as those of a       *)
(* connection are in UdpActiveConnectionProofs.  What is new is that the   *)
(* connections share them: the table says which connection a datagram is   *)
(* for, and the handlers that wait name endpoints and not connections.     *)
(***************************************************************************)
EXTENDS UdpAcceptor, QueueLemmas, SequenceTheorems

\* The callbacks that have a datagram in hand, and with it the receive.
Holding == callback.name \in {"on_accept", "on_recv"}

\* The one receive.
ReadToken ==
    /\ reading <= 1
    /\ OneIn(queue, {"recv"})
    /\ reading > 0 => NoneIn(queue, {"recv"})
    /\ Holding \/ ~m_running => reading = 0 /\ NoneIn(queue, {"recv"})
    /\ m_running /\ ~Holding => reading > 0 \/ ~NoneIn(queue, {"recv"})
    /\ Holding => m_running

\* The one send, of the pack in front.
WriteToken ==
    /\ Len(writing) <= 1
    /\ OneIn(queue, {"send"})
    /\ writing # <<>> =>
          NoneIn(queue, {"send"}) /\ m_send_buffer # <<>> /\ writing[1] = Head(m_send_buffer)
    /\ m_send_buffer = <<>> => NoneIn(queue, {"send"})

\* Who waits for the io thread with an endpoint has one, and before the first
\* datagram nobody does.
Addressed ==
    /\ \A i \in 1..Len(queue) : queue[i].op \in {"push", "close"} => queue[i].endpoint \in Endpoints
    /\ m_peer_endpoint = NoEndpoint =>
          connections = <<>> /\ delivered = <<>> /\ writing = <<>> /\ NoneIn(queue, {"recv"})

\* The table leads to connections of the right peer, and the callback that is
\* running is that of a connection that runs.
Table ==
    /\ \A e \in Endpoints : m_connection_map[e] # None =>
          m_connection_map[e] \in Known /\ connections[m_connection_map[e]].endpoint = e
    /\ MapExact
    /\ callback = Quiet
         \/ (callback.name # "none" /\ callback.conn \in Known /\ connections[callback.conn].m_running)

\* Whose on_close was called does not run, unless that call is still going on.
Ended ==
    /\ \A i \in 1..Len(closed) :
          /\ closed[i] \in Known
          /\ connections[closed[i]].m_running => callback = Callback("on_close", closed[i])
    /\ \A i, j \in 1..Len(closed) : closed[i] = closed[j] => i = j

\* A connection that is introduced is the sender's, and has shown nothing.
Introducing ==
    callback.name = "on_accept" =>
        /\ connections[callback.conn].endpoint = m_peer_endpoint
        /\ connections[callback.conn].shown = <<>>
        /\ \A r \in rejected : r[1] # callback.conn

\* A stop for an endpoint waits, in front of every datagram.
Closing(q, e) ==
    \E j \in 1..Len(q) :
        /\ q[j].op = "close" /\ q[j].endpoint = e
        /\ \A i \in 1..j : q[i].op # "recv"

\* A connection that was refused and still runs is about to be stopped.
Refusing ==
    /\ \A r \in rejected : r[1] \in Known
    /\ \A r \in rejected :
          connections[r[1]].m_running =>
              Closing(queue, connections[r[1]].endpoint) \/ callback = Callback("on_close", r[1])
    /\ RefusedIsLast

\* The datagram in hand is the last that arrived, of the peer that m_peer_endpoint
\* says, and nobody has shown it; or it is none, of a receive that failed.
Handed ==
    /\ m_recv_data \in {Nothing, Len(arrived)}
    /\ InHand(m_recv_data) /\ m_recv_data # Nothing =>
          /\ arrived[m_recv_data] = m_peer_endpoint
          /\ \A c \in Known : ~Shows(c, m_recv_data)
    /\ \A c \in Known : \A i \in 1..Len(connections[c].shown) :
          connections[c].shown[i] \in 0..Len(arrived)
    /\ Demultiplexed

\* A pack that was filled, with the endpoint of the connection it was given to.
Filled(x) ==
    /\ x.pack \in 1..Len(posted)
    /\ x.endpoint = connections[posted[x.pack]].endpoint

\* Packs keep their order in the queue, in the buffer and on the network.
Numbered ==
    /\ \A p \in 1..Len(posted) : posted[p] \in Known
    /\ \A i \in 1..Len(queue) : queue[i].op = "push" => Filled(queue[i])
    /\ \A i \in 1..Len(m_send_buffer) : Filled(m_send_buffer[i])
    /\ \A i \in 1..Len(delivered) : Filled(delivered[i])

Ordered ==
    /\ \A i, j \in 1..Len(queue) :
          queue[i].op = "push" /\ queue[j].op = "push" /\ i < j => queue[i].pack < queue[j].pack
    /\ \A i, j \in 1..Len(m_send_buffer) : i < j => m_send_buffer[i].pack < m_send_buffer[j].pack
    /\ \A i, j \in 1..Len(delivered) : i < j => delivered[i].pack < delivered[j].pack
    /\ \A i \in 1..Len(m_send_buffer), j \in 1..Len(queue) :
          queue[j].op = "push" => m_send_buffer[i].pack < queue[j].pack
    /\ \A i \in 1..Len(delivered), j \in 1..Len(queue) :
          queue[j].op = "push" => delivered[i].pack < queue[j].pack
    /\ \A i \in 1..Len(delivered), j \in 1..Len(m_send_buffer) :
          j > 1 \/ writing # <<>> => delivered[i].pack < m_send_buffer[j].pack

IInv ==
    /\ TypeOK /\ ReadToken /\ WriteToken /\ Addressed /\ Table /\ Ended /\ Introducing
    /\ Refusing /\ Handed /\ Numbered /\ Ordered

-----------------------------------------------------------------------------
(* What the steps do to the queue and to the connections.                  *)

\* A handler is what it was built from.
LEMMA HandlerType ==
    ASSUME NEW op \in Ops, NEW e \in Endpoints \cup {NoEndpoint}, NEW p \in Nat
    PROVE  /\ Handler(op, e, p) \in Handlers
           /\ Handler(op, e, p).op = op
           /\ Handler(op, e, p).endpoint = e
           /\ Handler(op, e, p).pack = p
BY DEF Handler, Handlers

\* The queue when a handler is posted: the others keep their places.
LEMMA Posting ==
    ASSUME TypeOK, NEW op \in Ops, NEW e \in Endpoints \cup {NoEndpoint}, NEW p \in Nat,
           queue' = Append(queue, Handler(op, e, p))
    PROVE  /\ queue' \in Seq(Handlers) /\ Len(queue) \in Nat /\ Len(queue') = Len(queue) + 1
           /\ \A i \in 1..Len(queue) : queue'[i] = queue[i]
           /\ queue'[Len(queue) + 1] = Handler(op, e, p)
           /\ Handler(op, e, p).op = op /\ Handler(op, e, p).endpoint = e
           /\ Handler(op, e, p).pack = p
           /\ \A ops : NoneIn(queue', ops) <=> NoneIn(queue, ops) /\ op \notin ops
           /\ \A ops : OneIn(queue, ops) /\ (op \notin ops \/ NoneIn(queue, ops))
                            => OneIn(queue', ops)
<1> DEFINE h == Handler(op, e, p)
<1>1. queue \in Seq(Handlers)
  BY DEF TypeOK
<1>2. h \in Handlers /\ h.op = op /\ h.endpoint = e /\ h.pack = p
  BY HandlerType
<1> HIDE DEF h
<1>3. queue' = Append(queue, h)
  BY DEF h
<1>4. /\ queue' \in Seq(Handlers) /\ Len(queue) \in Nat /\ Len(queue') = Len(queue) + 1
      /\ \A i \in 1..Len(queue) : queue'[i] = queue[i]
      /\ queue'[Len(queue) + 1] = h
  BY <1>1, <1>2, <1>3, AppendType, AppendAt
<1>5. /\ \A ops : NoneIn(queue', ops) <=> NoneIn(queue, ops) /\ op \notin ops
      /\ \A ops : OneIn(queue, ops) /\ (op \notin ops \/ NoneIn(queue, ops))
                       => OneIn(queue', ops)
  BY <1>1, <1>2, <1>3, PostTokens
<1> QED
  BY <1>2, <1>4, <1>5 DEF h

\* The queue when the io thread takes a handler: the others move up.
LEMMA Running ==
    ASSUME TypeOK, NEW op, Runs(op), queue' = Tail(queue)
    PROVE  /\ queue' \in Seq(Handlers) /\ Len(queue) \in Nat /\ Len(queue) > 0
           /\ Len(queue') = Len(queue) - 1
           /\ \A i \in 1..Len(queue') : i + 1 \in 1..Len(queue) /\ queue'[i] = queue[i + 1]
           /\ 1 \in 1..Len(queue) /\ Head(queue) = queue[1] /\ queue[1] \in Handlers
           /\ queue[1].op = op
           /\ \A ops : op \in ops => ~NoneIn(queue, ops)
           /\ \A ops : NoneIn(queue, ops) => NoneIn(queue', ops)
           /\ \A ops : op \notin ops => (NoneIn(queue', ops) => NoneIn(queue, ops))
           /\ \A ops : OneIn(queue, ops) => OneIn(queue', ops)
           /\ \A ops : OneIn(queue, ops) /\ op \in ops => NoneIn(queue', ops)
<1>1. queue \in Seq(Handlers) /\ queue # <<>> /\ Head(queue).op = op
  BY DEF TypeOK, Runs
<1>2. /\ queue' \in Seq(Handlers) /\ Len(queue) \in Nat /\ Len(queue) > 0
      /\ Len(queue') = Len(queue) - 1
      /\ \A i \in 1..Len(queue') : queue'[i] = queue[i + 1]
      /\ Head(queue) = queue[1] /\ queue[1] \in Handlers
  BY <1>1, TailType, TailAt
<1>3. /\ \A i \in 1..Len(queue') : i + 1 \in 1..Len(queue)
      /\ 1 \in 1..Len(queue)
  BY <1>2
<1>4. \A ops : op \in ops => ~NoneIn(queue, ops)
  BY <1>1, <1>2, <1>3 DEF NoneIn
<1>5. /\ \A ops : NoneIn(queue, ops) => NoneIn(queue', ops)
      /\ \A ops : op \notin ops => (NoneIn(queue', ops) => NoneIn(queue, ops))
      /\ \A ops : OneIn(queue, ops) => OneIn(queue', ops)
      /\ \A ops : OneIn(queue, ops) /\ op \in ops => NoneIn(queue', ops)
  BY <1>1, RunTokens
<1> QED
  BY <1>1, <1>2, <1>3, <1>4, <1>5

\* One connection changes, and the others stay.
LEMMA Updating ==
    ASSUME TypeOK, NEW c \in Known, NEW x \in Connections,
           connections' = [connections EXCEPT ![c] = x]
    PROVE  /\ connections' \in Seq(Connections) /\ Known' = Known
           /\ \A b \in Known : connections'[b] = IF b = c THEN x ELSE connections[b]
<1>1. connections \in Seq(Connections) /\ c \in 1..Len(connections)
  BY DEF TypeOK, Known
<1>2. /\ connections' \in Seq(Connections) /\ Len(connections') = Len(connections)
      /\ \A b \in 1..Len(connections) : connections'[b] = IF b = c THEN x ELSE connections[b]
  BY <1>1, ExceptSeq
<1> QED
  BY <1>2 DEF Known

\* A connection that shows a datagram is the same in all else.
LEMMA Showing ==
    ASSUME TypeOK, NEW c \in Known, Show(c)
    PROVE  /\ connections' \in Seq(Connections) /\ Known' = Known
           /\ \A b \in Known :
                 /\ connections'[b].endpoint = connections[b].endpoint
                 /\ connections'[b].m_running = connections[b].m_running
                 /\ b # c => connections'[b].shown = connections[b].shown
           /\ connections'[c].shown = Append(connections[c].shown, m_recv_data)
           /\ callback' = Callback("on_recv", c)
<1> DEFINE x == Received(connections[c])
           s == Append(connections[c].shown, m_recv_data)
<1>1. connections[c] \in Connections /\ m_recv_data \in Nat
  BY DEF TypeOK, Known
<1>2. /\ x \in Connections
      /\ x.endpoint = connections[c].endpoint /\ x.m_running = connections[c].m_running
      /\ x.shown = s
  <2> DEFINE y == connections[c]
             n == y.m_recv_buffer + 1
  <2>1. s \in Seq(Nat) /\ n \in Nat
    BY <1>1, AppendType DEF Connections
  <2>2. x = [[y EXCEPT !.shown = s] EXCEPT !.m_recv_buffer = n]
    BY <1>1 DEF Received, Connections
  <2> HIDE DEF s, x, n
  <2>3. y \in Connections
    BY <1>1
  <2> HIDE DEF y
  <2>4. x \in Connections /\ x.endpoint = y.endpoint /\ x.m_running = y.m_running /\ x.shown = s
    BY <2>1, <2>2, <2>3 DEF Connections
  <2> QED
    BY <2>4 DEF y
<1>3. connections' = [connections EXCEPT ![c] = x]
  BY DEF Show
<1> HIDE DEF x
<1>4. /\ connections' \in Seq(Connections) /\ Known' = Known
      /\ \A b \in Known : connections'[b] = IF b = c THEN x ELSE connections[b]
  BY <1>2, <1>3, Updating
<1> QED
  BY <1>2, <1>4 DEF Show

\* A connection that ends, too.
LEMMA Stopping ==
    ASSUME TypeOK, NEW c \in Known, connections' = [connections EXCEPT ![c].m_running = FALSE]
    PROVE  /\ connections' \in Seq(Connections) /\ Known' = Known
           /\ \A b \in Known :
                 /\ connections'[b].endpoint = connections[b].endpoint
                 /\ connections'[b].shown = connections[b].shown
                 /\ b # c => connections'[b].m_running = connections[b].m_running
           /\ ~connections'[c].m_running
<1> DEFINE x == [connections[c] EXCEPT !.m_running = FALSE]
<1>1. connections[c] \in Connections
  BY DEF TypeOK, Known
<1>2. /\ x \in Connections
      /\ x.endpoint = connections[c].endpoint /\ x.shown = connections[c].shown
      /\ ~x.m_running
  BY <1>1 DEF Connections
<1>3. connections' = [connections EXCEPT ![c] = x]
  OBVIOUS
<1> HIDE DEF x
<1>4. /\ connections' \in Seq(Connections) /\ Known' = Known
      /\ \A b \in Known : connections'[b] = IF b = c THEN x ELSE connections[b]
  BY <1>2, <1>3, Updating
<1> QED
  BY <1>2, <1>4

\* And one whose user drops what it has read.
LEMMA Dropping ==
    ASSUME TypeOK, NEW c \in Known, recv_buffer_drop(c)
    PROVE  /\ connections' \in Seq(Connections) /\ Known' = Known
           /\ \A b \in Known :
                 /\ connections'[b].endpoint = connections[b].endpoint
                 /\ connections'[b].m_running = connections[b].m_running
                 /\ connections'[b].shown = connections[b].shown
<1> DEFINE x == [connections[c] EXCEPT !.m_recv_buffer = @ - 1]
<1>1. connections[c] \in Connections /\ connections[c].m_recv_buffer > 0
  BY DEF TypeOK, Known, recv_buffer_drop, recv_buffer_has_data
<1>2. /\ x \in Connections
      /\ x.endpoint = connections[c].endpoint /\ x.shown = connections[c].shown
      /\ x.m_running = connections[c].m_running
  BY <1>1 DEF Connections
<1>3. connections' = [connections EXCEPT ![c] = x]
  BY DEF recv_buffer_drop
<1> HIDE DEF x
<1>4. /\ connections' \in Seq(Connections) /\ Known' = Known
      /\ \A b \in Known : connections'[b] = IF b = c THEN x ELSE connections[b]
  BY <1>2, <1>3, Updating
<1> QED
  BY <1>2, <1>4

\* The connection of a new peer.
New == [endpoint |-> m_peer_endpoint, m_running |-> TRUE, shown |-> <<>>, m_recv_buffer |-> 0]

\* It comes after the others.
LEMMA Making ==
    ASSUME TypeOK, m_peer_endpoint \in Endpoints, connections' = Append(connections, New)
    PROVE  /\ connections' \in Seq(Connections)
           /\ Len(connections) + 1 \notin Known /\ Len(connections) + 1 # None
           /\ \A b : b \in Known' <=> b \in Known \/ b = Len(connections) + 1
           /\ \A b \in Known : connections'[b] = connections[b]
           /\ connections'[Len(connections) + 1] = New
           /\ New.endpoint = m_peer_endpoint /\ New.m_running /\ New.shown = <<>>
<1>1. connections \in Seq(Connections)
  BY DEF TypeOK
<1>2. New \in Connections /\ New.endpoint = m_peer_endpoint /\ New.m_running /\ New.shown = <<>>
  BY DEF New, Connections
<1>3. /\ connections' \in Seq(Connections)
      /\ Len(connections') = Len(connections) + 1 /\ Len(connections) \in Nat
      /\ \A b \in 1..Len(connections) : connections'[b] = connections[b]
      /\ connections'[Len(connections) + 1] = New
  BY <1>1, <1>2, AppendType, AppendAt
<1> QED
  BY <1>2, <1>3 DEF Known, None

-----------------------------------------------------------------------------
(* Types.  That a handler finds an endpoint, and handle_send a pack, are   *)
(* not for granted.                                                        *)

\* Who runs handle_recv knows the peer, and who handles a push or a close has
\* an endpoint.
LEMMA AddressedRuns ==
    ASSUME TypeOK, Addressed, NEW op, Runs(op)
    PROVE  /\ op = "recv" => m_peer_endpoint \in Endpoints
           /\ op \in {"push", "close"} => Head(queue).endpoint \in Endpoints
           /\ Head(queue) \in Handlers
<1>1. queue \in Seq(Handlers) /\ queue # <<>> /\ Head(queue).op = op
  BY DEF TypeOK, Runs
<1>2. 1 \in 1..Len(queue) /\ Head(queue) = queue[1] /\ Head(queue) \in Handlers
  BY <1>1, TailAt, TailType
<1>3. op = "recv" => ~NoneIn(queue, {"recv"})
  BY <1>1, <1>2 DEF NoneIn
<1> QED
  BY <1>1, <1>2, <1>3 DEF Addressed, TypeOK

\* The steps of the acceptor that make or show a connection.
LEMMA TypeConnections ==
    ASSUME TypeOK, Addressed, Table,
           handle_recv \/ Return \/ \E c \in Known : recv_buffer_drop(c)
    PROVE  connections' \in Seq(Connections) /\ m_connection_map' \in [Endpoints -> Nat]
<1> USE DEF tableVars
<1>1. /\ connections \in Seq(Connections) /\ Len(connections) \in Nat
      /\ m_connection_map \in [Endpoints -> Nat]
  BY DEF TypeOK
<1>2. CASE handle_recv
  <2>1. m_peer_endpoint \in Endpoints
    BY <1>2, AddressedRuns DEF handle_recv
  <2>2. CASE m_connection_map[m_peer_endpoint] = None
    <3>1. connections' = Append(connections, New)
      BY <1>2, <2>2 DEF handle_recv, New
    <3>2. m_connection_map' = [m_connection_map EXCEPT ![m_peer_endpoint] = Len(connections) + 1]
      BY <1>2, <2>2 DEF handle_recv, insert
    <3> QED
      BY <1>1, <2>1, <3>1, <3>2, Making
  <2>3. CASE m_connection_map[m_peer_endpoint] # None
    <3>1. /\ m_connection_map[m_peer_endpoint] \in Known
          /\ Show(m_connection_map[m_peer_endpoint]) /\ UNCHANGED m_connection_map
      BY <1>2, <2>1, <2>3 DEF handle_recv, Table
    <3> QED
      BY <1>1, <3>1, Showing
  <2> QED
    BY <2>2, <2>3
<1>3. CASE Return
  <2>1. PICK c \in Known :
           \/ Show(c) /\ UNCHANGED m_connection_map
           \/ UNCHANGED tableVars
           \/ /\ connections' = [connections EXCEPT ![c].m_running = FALSE]
              /\ m_connection_map' = [m_connection_map EXCEPT ![connections[c].endpoint] = None]
    BY <1>3 DEF Return, ReturnFromAccept, ReturnFromRecv, ReturnFromClose, erase, Known
  <2>2. [m_connection_map EXCEPT ![connections[c].endpoint] = None] \in [Endpoints -> Nat]
    BY <1>1 DEF None
  <2> QED
    BY <1>1, <2>1, <2>2, Showing, Stopping
<1>4. CASE \E c \in Known : recv_buffer_drop(c)
  BY <1>1, <1>4, Dropping DEF recv_buffer_drop
<1> QED
  BY <1>2, <1>3, <1>4

\* A handler that is posted, and one that is taken.
LEMMA TypeQueue ==
    ASSUME TypeOK,
           \/ queue' = queue
           \/ \E op \in Ops, e \in Endpoints \cup {NoEndpoint}, p \in Nat :
                 queue' = Append(queue, Handler(op, e, p))
           \/ \E op : Runs(op) /\ queue' = Tail(queue)
    PROVE  queue' \in Seq(Handlers)
BY Posting, Running DEF TypeOK

\* Whose connection is known has an endpoint.
LEMMA KnownEndpoint ==
    ASSUME TypeOK, NEW c \in Known
    PROVE  connections[c] \in Connections /\ connections[c].endpoint \in Endpoints /\ c \in Nat
<1>1. connections \in Seq(Connections) /\ c \in 1..Len(connections)
  BY DEF TypeOK, Known
<1>2. connections[c] \in Connections
  BY <1>1
<1> QED
  BY <1>1, <1>2 DEF Connections

\* handle_recv.
LEMMA TypeRecv ==
    ASSUME TypeOK, Addressed, Table, handle_recv
    PROVE  TypeOK'
<1> USE DEF acceptorVars, datagramVars, sendVars, reports, userVars
<1>1. connections' \in Seq(Connections) /\ m_connection_map' \in [Endpoints -> Nat]
  BY TypeConnections
<1>2. queue' \in Seq(Handlers)
  BY TypeQueue DEF handle_recv
<1>3. callback' \in [name : {"none", "on_accept", "on_recv", "on_close"}, conn : Nat]
  <2>1. Len(connections) + 1 \in Nat /\ m_peer_endpoint \in Endpoints
    BY AddressedRuns DEF handle_recv, TypeOK
  <2>2. m_connection_map[m_peer_endpoint] \in Nat
    BY <2>1 DEF TypeOK
  <2> QED
    BY <2>1, <2>2 DEF handle_recv, Show, Callback
<1> QED
  BY <1>1, <1>2, <1>3 DEF handle_recv, TypeOK

\* The handlers of the send buffer.
LEMMA TypeSending ==
    ASSUME TypeOK, Addressed, WriteToken, push_send_data \/ handle_send
    PROVE  TypeOK'
<1> USE DEF acceptorVars, tableVars, datagramVars, reports, userVars
<1>1. queue' \in Seq(Handlers)
  BY TypeQueue DEF push_send_data, handle_send
<1>2. CASE push_send_data
  <2> DEFINE x == [endpoint |-> Head(queue).endpoint, pack |-> Head(queue).pack]
  <2>1. Runs("push") /\ m_send_buffer \in Seq(Packs) /\ writing \in Seq(Packs)
    BY <1>2 DEF push_send_data, TypeOK
  <2>2. Head(queue).endpoint \in Endpoints /\ Head(queue) \in Handlers
    BY <2>1, AddressedRuns
  <2>3. x \in Packs
    BY <2>2 DEF Packs, Handlers
  <2> HIDE DEF x
  <2>4. m_send_buffer' = Append(m_send_buffer, x)
    BY <1>2 DEF push_send_data, x
  <2>5. m_send_buffer' \in Seq(Packs) /\ m_send_buffer' # <<>>
    BY <2>1, <2>3, <2>4, AppendType, AppendSome
  <2>6. Head(m_send_buffer') \in Packs
    BY <2>5, TailType
  <2>7. writing' \in Seq(Packs)
    BY <1>2, <2>1, <2>6, AppendType DEF push_send_data, send
  <2> QED
    BY <1>1, <1>2, <2>5, <2>7 DEF push_send_data, TypeOK
<1>3. CASE handle_send
  <2>1. Runs("send") /\ m_send_buffer \in Seq(Packs) /\ writing \in Seq(Packs)
    BY <1>3 DEF handle_send, TypeOK
  <2>2. ~NoneIn(queue, {"send"})
    BY <1>3, Running DEF handle_send
  <2>3. m_send_buffer' = Tail(m_send_buffer) /\ m_send_buffer' \in Seq(Packs)
    BY <1>3, <2>1, <2>2, TailType DEF handle_send, WriteToken
  <2>4. m_send_buffer' # <<>> => Head(m_send_buffer') \in Packs
    BY <2>3, TailType
  <2>5. writing' \in Seq(Packs)
    BY <1>3, <2>1, <2>4, AppendType DEF handle_send, send
  <2> QED
    BY <1>1, <1>3, <2>3, <2>5 DEF handle_send, TypeOK
<1> QED
  BY <1>2, <1>3

\* handle_close.
LEMMA TypeClose ==
    ASSUME TypeOK, Addressed, handle_close
    PROVE  TypeOK'
<1> USE DEF acceptorVars, datagramVars, sendVars, userVars
<1> DEFINE e == Head(queue).endpoint
           c == m_connection_map[e]
<1>1. e \in Endpoints /\ c \in Nat
  BY AddressedRuns DEF handle_close, TypeOK
<1>2. queue' \in Seq(Handlers)
  BY TypeQueue DEF handle_close
<1>3. callback' \in {Callback("on_close", c), Quiet} /\ closed' \in {Append(closed, c), closed}
      /\ m_connection_map' \in {m_connection_map, [m_connection_map EXCEPT ![e] = None]}
  BY DEF handle_close, erase
<1> HIDE DEF c, e
<1>4. callback' \in [name : {"none", "on_accept", "on_recv", "on_close"}, conn : Nat]
  <2>1. Callback("on_close", c) \in [name : {"none", "on_accept", "on_recv", "on_close"}, conn : Nat]
    BY <1>1 DEF Callback
  <2>2. Quiet \in [name : {"none", "on_accept", "on_recv", "on_close"}, conn : Nat]
    BY DEF Quiet, None
  <2> QED
    BY <1>3, <2>1, <2>2
<1>5. closed' \in Seq(Nat)
  <2>1. closed \in Seq(Nat)
    BY DEF TypeOK
  <2> QED
    BY <1>1, <1>3, <2>1, AppendType
<1>6. m_connection_map' \in [Endpoints -> Nat]
  <2>1. m_connection_map \in [Endpoints -> Nat]
    BY DEF TypeOK
  <2>2. [m_connection_map EXCEPT ![e] = None] \in [Endpoints -> Nat]
    BY <1>1, <2>1 DEF None
  <2> QED
    BY <1>3, <2>1, <2>2
<1> QED
  BY <1>2, <1>4, <1>5, <1>6 DEF handle_close, TypeOK

\* The end of a callback.
LEMMA TypeReturn ==
    ASSUME TypeOK, Addressed, Table, Return
    PROVE  TypeOK'
<1> USE DEF acceptorVars, datagramVars, sendVars, userVars, tableVars
<1>1. connections' \in Seq(Connections) /\ m_connection_map' \in [Endpoints -> Nat]
  BY TypeConnections
<1>2. PICK c \in Known :
         \/ \E kept \in BOOLEAN : ReturnFromAccept(c, kept) \/ ReturnFromRecv(c, kept)
         \/ ReturnFromClose(c)
  BY DEF Return, Known
<1>3. connections[c].endpoint \in Endpoints /\ c \in Nat
  BY KnownEndpoint
<1>4. queue' \in Seq(Handlers)
  <2>1. queue' = queue \/ queue' = Append(queue, Handler("close", connections[c].endpoint, 0))
    BY <1>2 DEF ReturnFromAccept, ReturnFromRecv, ReturnFromClose, Answer, close
  <2> QED
    BY <1>3, <2>1, TypeQueue DEF Ops
<1>5. callback' \in [name : {"none", "on_accept", "on_recv", "on_close"}, conn : Nat]
  <2>1. callback' \in {Quiet, Callback("on_recv", c)}
    BY <1>2 DEF ReturnFromAccept, ReturnFromRecv, ReturnFromClose, Show
  <2> QED
    BY <1>3, <2>1 DEF Quiet, Callback, None
<1>6. rejected' \subseteq Nat \X {"on_accept", "on_recv"}
  <2>1. rejected' = rejected \/ rejected' = rejected \cup {<<c, "on_accept">>}
          \/ rejected' = rejected \cup {<<c, "on_recv">>}
    BY <1>2 DEF ReturnFromAccept, ReturnFromRecv, ReturnFromClose, Answer, Callback
  <2> QED
    BY <1>3, <2>1 DEF TypeOK
<1>7. reading' \in Nat /\ closed' = closed
  BY <1>2 DEF ReturnFromAccept, ReturnFromRecv, ReturnFromClose, recv, TypeOK
<1> QED
  BY <1>1, <1>4, <1>5, <1>6, <1>7 DEF Return, TypeOK

\* The user.
LEMMA TypeUser ==
    ASSUME TypeOK, Addressed, Table, User
    PROVE  TypeOK'
<1> USE DEF acceptorVars, datagramVars, sendVars, userVars, tableVars, reports
<1> PICK c \in Known : send_buffer_fill(c) \/ UserCloses(c) \/ recv_buffer_drop(c)
  BY DEF User, Known
<1>1. connections[c].endpoint \in Endpoints /\ c \in Nat /\ Len(posted) + 1 \in Nat
  BY KnownEndpoint DEF TypeOK
<1>2. CASE recv_buffer_drop(c)
  <2>1. connections' \in Seq(Connections)
    BY <1>2, Dropping
  <2> QED
    BY <1>2, <2>1 DEF recv_buffer_drop, TypeOK
<1>3. CASE send_buffer_fill(c)
  <2>1. queue' \in Seq(Handlers)
    BY <1>1, <1>3, TypeQueue DEF send_buffer_fill, Ops
  <2>2. posted' \in Seq(Nat)
    BY <1>1, <1>3, AppendType DEF send_buffer_fill, TypeOK
  <2> QED
    BY <1>3, <2>1, <2>2 DEF send_buffer_fill, TypeOK
<1>4. CASE UserCloses(c)
  <2>1. queue' \in Seq(Handlers)
    BY <1>1, <1>4, TypeQueue DEF UserCloses, close, Ops
  <2>2. asked' \in Seq(Nat)
    BY <1>1, <1>4, AppendType DEF UserCloses, TypeOK
  <2> QED
    BY <1>4, <2>1, <2>2 DEF UserCloses, TypeOK
<1> QED
  BY <1>2, <1>3, <1>4

\* The network and the kernel.
LEMMA TypeKernel ==
    ASSUME TypeOK, start \/ DatagramArrives \/ ReceiveFails \/ SendCompletes
    PROVE  TypeOK'
<1> USE DEF acceptorVars, datagramVars, sendVars, userVars, tableVars, reports
<1>1. CASE start
  BY <1>1 DEF start, recv, TypeOK
<1>2. CASE DatagramArrives \/ ReceiveFails \/ SendCompletes
  <2>1. queue' \in Seq(Handlers)
    BY <1>2, TypeQueue DEF DatagramArrives, ReceiveFails, SendCompletes, Post, Ops
  <2>2. arrived' \in Seq(Endpoints) /\ Len(arrived) + 1 \in Nat
    <3>1. arrived \in Seq(Endpoints)
      BY DEF TypeOK
    <3>2. arrived' = arrived \/ \E e \in Endpoints : arrived' = Append(arrived, e)
      BY <1>2 DEF DatagramArrives, ReceiveFails, SendCompletes
    <3> QED
      BY <3>1, <3>2, AppendType
  <2>3. writing' \in Seq(Packs) /\ delivered' \in Seq(Packs)
    <3>1. writing \in Seq(Packs) /\ delivered \in Seq(Packs)
      BY DEF TypeOK
    <3>2. CASE DatagramArrives \/ ReceiveFails
      BY <3>1, <3>2 DEF DatagramArrives, ReceiveFails
    <3>3. CASE SendCompletes
      <4>1. Tail(writing) \in Seq(Packs) /\ Head(writing) \in Packs
        BY <3>1, <3>3, TailType DEF SendCompletes
      <4>2. Append(delivered, Head(writing)) \in Seq(Packs)
        BY <3>1, <4>1, AppendType
      <4> QED
        BY <3>1, <3>3, <4>1, <4>2 DEF SendCompletes
    <3> QED
      BY <1>2, <3>2, <3>3
  <2>4. /\ m_peer_endpoint' \in Endpoints \cup {NoEndpoint} /\ m_recv_data' \in Nat
        /\ reading' \in Nat /\ errors' \in Nat
    <3>1. /\ m_peer_endpoint \in Endpoints \cup {NoEndpoint} /\ m_recv_data \in Nat
          /\ reading \in Nat /\ errors \in Nat
      BY DEF TypeOK
    <3>2. CASE DatagramArrives
      <4>1. m_peer_endpoint' \in Endpoints
        BY <3>2 DEF DatagramArrives
      <4> QED
        BY <2>2, <3>1, <3>2, <4>1 DEF DatagramArrives
    <3>3. CASE ReceiveFails \/ SendCompletes
      BY <3>1, <3>3 DEF ReceiveFails, SendCompletes, Nothing
    <3> QED
      BY <1>2, <3>2, <3>3
  <2> QED
    BY <1>2, <2>1, <2>2, <2>3, <2>4 DEF DatagramArrives, ReceiveFails, SendCompletes, TypeOK
<1> QED
  BY <1>1, <1>2

\* Every step keeps the types.
LEMMA TypeStep ==
    TypeOK /\ Addressed /\ WriteToken /\ Table /\ [Next]_vars => TypeOK'
<1>1. ASSUME TypeOK, UNCHANGED vars PROVE TypeOK'
  BY <1>1 DEF TypeOK, vars, acceptorVars, tableVars, datagramVars, sendVars, reports, userVars
<1> QED
  BY <1>1, TypeRecv, TypeSending, TypeClose, TypeReturn, TypeUser, TypeKernel
     DEF Next, IoThread

-----------------------------------------------------------------------------
(* The receive and the send.                                               *)

\* The queue changes by handlers of these kinds only.
QueueMoves(ops) ==
    \/ queue' = queue
    \/ \E op \in ops, e \in Endpoints \cup {NoEndpoint}, p \in Nat :
          queue' = Append(queue, Handler(op, e, p))
    \/ \E op \in ops : Runs(op) /\ queue' = Tail(queue)

\* The handlers of any other kind are then as many as they were.
LEMMA QueueMovesOn ==
    ASSUME TypeOK, NEW ops, ops \subseteq Ops, QueueMoves(ops), NEW o, o \notin ops
    PROVE  /\ NoneIn(queue', {o}) <=> NoneIn(queue, {o})
           /\ OneIn(queue, {o}) => OneIn(queue', {o})
<1>1. ASSUME NEW op \in ops, NEW e \in Endpoints \cup {NoEndpoint}, NEW p \in Nat,
             queue' = Append(queue, Handler(op, e, p))
      PROVE  /\ NoneIn(queue', {o}) <=> NoneIn(queue, {o})
             /\ OneIn(queue, {o}) => OneIn(queue', {o})
  <2>1. op \in Ops /\ op \notin {o}
    OBVIOUS
  <2>2. /\ \A k : NoneIn(queue', k) <=> NoneIn(queue, k) /\ op \notin k
        /\ \A k : OneIn(queue, k) /\ (op \notin k \/ NoneIn(queue, k)) => OneIn(queue', k)
    BY <1>1, <2>1, Posting
  <2> QED
    BY <2>1, <2>2
<1>2. ASSUME NEW op \in ops, Runs(op), queue' = Tail(queue)
      PROVE  /\ NoneIn(queue', {o}) <=> NoneIn(queue, {o})
             /\ OneIn(queue, {o}) => OneIn(queue', {o})
  <2>1. op \notin {o}
    OBVIOUS
  <2>2. /\ \A k : NoneIn(queue, k) => NoneIn(queue', k)
        /\ \A k : op \notin k => (NoneIn(queue', k) => NoneIn(queue, k))
        /\ \A k : OneIn(queue, k) => OneIn(queue', k)
    BY <1>2, Running
  <2> QED
    BY <2>1, <2>2
<1>3. ASSUME queue' = queue
      PROVE  /\ NoneIn(queue', {o}) <=> NoneIn(queue, {o})
             /\ OneIn(queue, {o}) => OneIn(queue', {o})
  BY <1>3
<1> QED
  BY <1>1, <1>2, <1>3 DEF QueueMoves

\* What the steps post and run.
LEMMA QueueSteps ==
    ASSUME TypeOK, [Next]_vars
    PROVE  /\ UNCHANGED vars \/ start => QueueMoves({})
           /\ handle_recv => QueueMoves({"recv"})
           /\ push_send_data => QueueMoves({"push"})
           /\ handle_send => QueueMoves({"send"})
           /\ handle_close => QueueMoves({"close"})
           /\ Return => QueueMoves({"close"})
           /\ User => QueueMoves({"push", "close"})
           /\ DatagramArrives \/ ReceiveFails => QueueMoves({"recv"})
           /\ SendCompletes => QueueMoves({"send"})
<1>1. UNCHANGED vars \/ start => QueueMoves({})
  BY DEF vars, start, QueueMoves
<1>2. /\ handle_recv => QueueMoves({"recv"})
      /\ push_send_data => QueueMoves({"push"})
      /\ handle_send => QueueMoves({"send"})
      /\ handle_close => QueueMoves({"close"})
  BY DEF handle_recv, push_send_data, handle_send, handle_close, QueueMoves
<1>3. ASSUME Return PROVE QueueMoves({"close"})
  <2>1. PICK c \in Known : queue' = queue \/ close(c)
    BY <1>3 DEF Return, ReturnFromAccept, ReturnFromRecv, ReturnFromClose, Answer, Known
  <2> QED
    BY <2>1, KnownEndpoint DEF close, QueueMoves
<1>4. ASSUME User PROVE QueueMoves({"push", "close"})
  <2>1. PICK c \in Known : send_buffer_fill(c) \/ UserCloses(c) \/ recv_buffer_drop(c)
    BY <1>4 DEF User, Known
  <2>2. Len(posted) + 1 \in Nat
    BY DEF TypeOK
  <2> QED
    BY <2>1, <2>2, KnownEndpoint DEF send_buffer_fill, UserCloses, recv_buffer_drop, close,
                                     QueueMoves
<1>5. /\ DatagramArrives \/ ReceiveFails => QueueMoves({"recv"})
      /\ SendCompletes => QueueMoves({"send"})
  BY DEF DatagramArrives, ReceiveFails, SendCompletes, Post, QueueMoves
<1> QED
  BY <1>1, <1>2, <1>3, <1>4, <1>5

\* The receive's token goes from the kernel to the queue, from there to the
\* callbacks, and back to the kernel when on_recv has returned.
LEMMA ReadStep == TypeOK /\ ReadToken /\ [Next]_vars => ReadToken'
<1> SUFFICES ASSUME TypeOK, ReadToken, [Next]_vars PROVE ReadToken'
  OBVIOUS
<1> USE DEF acceptorVars, datagramVars, sendVars, userVars, tableVars, reports
<1>0. reading \in Nat
  BY DEF TypeOK
<1>1. ASSUME UNCHANGED <<m_running, reading>>, Holding' <=> Holding,
             NoneIn(queue', {"recv"}) <=> NoneIn(queue, {"recv"}),
             OneIn(queue, {"recv"}) => OneIn(queue', {"recv"})
      PROVE  ReadToken'
  BY <1>1 DEF ReadToken
<1>2. CASE \/ UNCHANGED vars \/ push_send_data \/ handle_send \/ handle_close
           \/ User \/ SendCompletes
  <2>1. UNCHANGED <<m_running, reading>>
    BY <1>2 DEF vars, push_send_data, handle_send, handle_close, User, send_buffer_fill,
                UserCloses, recv_buffer_drop, SendCompletes
  <2>2. Holding' <=> Holding
    BY <1>2 DEF vars, push_send_data, handle_send, handle_close, User, send_buffer_fill,
                UserCloses, recv_buffer_drop, SendCompletes, Holding, Runs, Quiet, Callback
  <2>3. \E ops : ops \subseteq Ops /\ "recv" \notin ops /\ QueueMoves(ops)
    BY <1>2, QueueSteps DEF Ops
  <2> QED
    BY <1>1, <2>1, <2>2, <2>3, QueueMovesOn
<1>3. CASE start
  BY <1>0, <1>3 DEF start, recv, ReadToken, Holding
<1>4. CASE handle_recv
  <2>1. Runs("recv") /\ queue' = Tail(queue) /\ UNCHANGED <<m_running, reading>>
    BY <1>4 DEF handle_recv
  <2>2. ~NoneIn(queue, {"recv"}) /\ NoneIn(queue', {"recv"})
    BY <2>1, Running DEF ReadToken
  <2>3. OneIn(queue', {"recv"})
    BY <2>2 DEF NoneIn, OneIn
  <2>4. Holding'
    BY <1>4 DEF handle_recv, Show, Callback, Holding
  <2>5. m_running /\ reading = 0
    BY <1>0, <2>2 DEF ReadToken
  <2> QED
    BY <2>1, <2>2, <2>3, <2>4, <2>5 DEF ReadToken
<1>5. CASE Return
  <2>1. /\ NoneIn(queue', {"recv"}) <=> NoneIn(queue, {"recv"})
        /\ OneIn(queue, {"recv"}) => OneIn(queue', {"recv"})
    BY <1>5, QueueSteps, QueueMovesOn DEF Ops
  <2>2. \/ Holding /\ Holding' /\ UNCHANGED <<m_running, reading>>
        \/ Holding /\ ~Holding' /\ m_running' = m_running /\ reading' = reading + 1
        \/ ~Holding /\ ~Holding' /\ UNCHANGED <<m_running, reading>>
    BY <1>5 DEF Return, ReturnFromAccept, ReturnFromRecv, ReturnFromClose, Show, recv,
                Holding, Callback, Quiet
  <2>3. CASE Holding /\ ~Holding' /\ m_running' = m_running /\ reading' = reading + 1
    <3>1. reading' = 1 /\ NoneIn(queue', {"recv"}) /\ m_running'
      BY <2>1, <2>3 DEF ReadToken
    <3> QED
      BY <2>1, <2>3, <3>1 DEF ReadToken
  <2> QED
    BY <1>1, <2>1, <2>2, <2>3
<1>6. CASE DatagramArrives \/ ReceiveFails
  <2>1. /\ queue' = Append(queue, Handler("recv", NoEndpoint, 0))
        /\ reading > 0 /\ reading' = reading - 1 /\ UNCHANGED <<m_running, callback>>
    BY <1>6 DEF DatagramArrives, ReceiveFails, Post
  <2>2. reading = 1 /\ NoneIn(queue, {"recv"}) /\ ~Holding /\ m_running
    BY <1>0, <2>1 DEF ReadToken
  <2>3. /\ \A ops : NoneIn(queue', ops) <=> NoneIn(queue, ops) /\ "recv" \notin ops
        /\ \A ops : OneIn(queue, ops) /\ ("recv" \notin ops \/ NoneIn(queue, ops))
                         => OneIn(queue', ops)
    BY <2>1, Posting DEF Ops
  <2>4. ~NoneIn(queue', {"recv"}) /\ OneIn(queue', {"recv"})
    BY <2>2, <2>3 DEF ReadToken
  <2> QED
    BY <2>1, <2>2, <2>4 DEF ReadToken, Holding
<1> QED
  BY <1>2, <1>3, <1>4, <1>5, <1>6 DEF Next, IoThread

\* A pack that is added to a buffer leaves the front where it is.
LEMMA HeadOfAppend ==
    ASSUME NEW q \in Seq(Packs), NEW x \in Packs
    PROVE  /\ Append(q, x) # <<>>
           /\ q # <<>> => Head(Append(q, x)) = Head(q)
           /\ q = <<>> => Head(Append(q, x)) = x
OBVIOUS

\* The send's token goes from the kernel to the queue, and from there with the
\* next pack to the kernel, or is given up with the last.
LEMMA WriteStep == TypeOK /\ Addressed /\ WriteToken /\ [Next]_vars => WriteToken'
<1> SUFFICES ASSUME TypeOK, Addressed, WriteToken, [Next]_vars PROVE WriteToken'
  OBVIOUS
<1> USE DEF acceptorVars, datagramVars, sendVars, userVars, tableVars, reports
<1>1. CASE \/ UNCHANGED vars \/ start \/ handle_recv \/ handle_close
           \/ Return \/ User \/ DatagramArrives \/ ReceiveFails
  <2>1. UNCHANGED <<writing, m_send_buffer>>
    BY <1>1 DEF vars, start, handle_recv, handle_close, Return, User, send_buffer_fill,
                UserCloses, recv_buffer_drop, DatagramArrives, ReceiveFails
  <2>2. \E ops : ops \subseteq Ops /\ "send" \notin ops /\ QueueMoves(ops)
    BY <1>1, QueueSteps DEF Ops
  <2> QED
    BY <2>1, <2>2, QueueMovesOn DEF WriteToken
<1>2. CASE push_send_data
  <2> DEFINE x == [endpoint |-> Head(queue).endpoint, pack |-> Head(queue).pack]
  <2>1. /\ NoneIn(queue', {"send"}) <=> NoneIn(queue, {"send"})
        /\ OneIn(queue, {"send"}) => OneIn(queue', {"send"})
    BY <1>2, QueueSteps, QueueMovesOn DEF Ops
  <2>2. m_send_buffer \in Seq(Packs) /\ x \in Packs
    <3>1. Head(queue).endpoint \in Endpoints /\ Head(queue) \in Handlers
      BY <1>2, AddressedRuns DEF push_send_data
    <3> QED
      BY <3>1 DEF Packs, Handlers, TypeOK
  <2> HIDE DEF x
  <2>3. m_send_buffer' = Append(m_send_buffer, x)
    BY <1>2 DEF push_send_data, x
  <2>4. /\ m_send_buffer' # <<>>
        /\ m_send_buffer # <<>> => Head(m_send_buffer') = Head(m_send_buffer)
    BY <2>2, <2>3, HeadOfAppend
  <2>5. CASE m_send_buffer = <<>>
    <3>1. writing = <<>> /\ NoneIn(queue, {"send"})
      BY <2>5 DEF WriteToken
    <3>2. writing' = Append(<<>>, Head(m_send_buffer'))
      BY <1>2, <2>5, <3>1 DEF push_send_data, need_send, send
    <3>3. Len(writing') = 1 /\ writing'[1] = Head(m_send_buffer')
      BY <3>2
    <3> QED
      BY <2>1, <2>4, <3>1, <3>3 DEF WriteToken
  <2>6. CASE m_send_buffer # <<>>
    <3>1. writing' = writing
      BY <1>2, <2>6 DEF push_send_data, need_send
    <3> QED
      BY <2>1, <2>4, <2>6, <3>1 DEF WriteToken
  <2> QED
    BY <2>5, <2>6
<1>3. CASE handle_send
  <2>1. Runs("send") /\ queue' = Tail(queue)
    BY <1>3 DEF handle_send
  <2>2. ~NoneIn(queue, {"send"}) /\ NoneIn(queue', {"send"})
    BY <2>1, Running DEF WriteToken
  <2>3. OneIn(queue', {"send"}) /\ writing = <<>>
    BY <2>2 DEF NoneIn, OneIn, WriteToken
  <2>4. CASE m_send_buffer' = <<>>
    <3>1. writing' = <<>>
      BY <1>3, <2>3, <2>4 DEF handle_send
    <3> QED
      BY <2>2, <2>3, <3>1 DEF WriteToken
  <2>5. CASE m_send_buffer' # <<>>
    <3>1. writing' = Append(<<>>, Head(m_send_buffer'))
      BY <1>3, <2>3, <2>5 DEF handle_send, send
    <3>2. Len(writing') = 1 /\ writing'[1] = Head(m_send_buffer')
      BY <3>1
    <3> QED
      BY <2>2, <2>3, <2>5, <3>2 DEF WriteToken
  <2> QED
    BY <2>4, <2>5
<1>4. CASE SendCompletes
  <2>1. /\ queue' = Append(queue, Handler("send", NoEndpoint, 0))
        /\ writing # <<>> /\ writing' = Tail(writing) /\ UNCHANGED m_send_buffer
        /\ writing \in Seq(Packs)
    BY <1>4 DEF SendCompletes, Post, TypeOK
  <2>2. NoneIn(queue, {"send"}) /\ m_send_buffer # <<>> /\ Len(writing) <= 1
    BY <2>1 DEF WriteToken
  <2>3. writing' = <<>> /\ Len(writing') = 0
    <3>1. writing' \in Seq(Packs) /\ Len(writing') = Len(writing) - 1 /\ Len(writing) > 0
      BY <2>1, TailType, TailAt
    <3>2. Len(writing') = 0
      BY <2>1, <2>2, <3>1
    <3> QED
      BY <3>1, <3>2
  <2>4. \A ops : OneIn(queue, ops) /\ ("send" \notin ops \/ NoneIn(queue, ops))
                     => OneIn(queue', ops)
    BY <2>1, Posting DEF Ops
  <2>5. OneIn(queue', {"send"})
    BY <2>2, <2>4 DEF WriteToken
  <2>6. m_send_buffer' # <<>>
    BY <2>1, <2>2
  <2> QED
    BY <2>3, <2>5, <2>6 DEF WriteToken
<1> QED
  BY <1>1, <1>2, <1>3, <1>4 DEF Next, IoThread

-----------------------------------------------------------------------------
(* Where handlers come from.                                               *)

\* What a step may post: an end of the kernel's, or something for the endpoint
\* of a connection that is known, and then a push of the pack that is next.
Fresh(h) ==
    \/ h.op \in {"recv", "send"}
    \/ \E c \in Known :
          /\ h.endpoint = connections[c].endpoint
          /\ \/ h.op = "close"
             \/ h.op = "push" /\ h.pack = Len(posted) + 1 /\ posted' = Append(posted, c)

\* The queue stays, loses its first handler, or gains a fresh one.
LEMMA QueueChange ==
    ASSUME TypeOK, [Next]_vars
    PROVE  \/ queue' = queue
           \/ \E op : Runs(op) /\ queue' = Tail(queue) /\ (op = "close" => handle_close)
           \/ \E h \in Handlers : Fresh(h) /\ queue' = Append(queue, h)
<1>1. CASE UNCHANGED vars \/ start \/ IoThread
  <2>1. CASE UNCHANGED vars \/ start
    BY <2>1 DEF vars, start
  <2>2. CASE handle_close
    BY <2>2 DEF handle_close
  <2>3. CASE handle_recv \/ push_send_data \/ handle_send
    BY <2>3 DEF handle_recv, push_send_data, handle_send
  <2> QED
    BY <1>1, <2>1, <2>2, <2>3 DEF IoThread
<1>2. CASE DatagramArrives \/ ReceiveFails \/ SendCompletes
  <2>1. Post("recv") \in Handlers /\ Fresh(Post("recv")) /\ Post("send") \in Handlers /\ Fresh(Post("send"))
    BY DEF Post, Handler, Handlers, Ops, Fresh
  <2> QED
    BY <1>2, <2>1 DEF DatagramArrives, ReceiveFails, SendCompletes
<1>3. ASSUME NEW c \in Known, close(c)
      PROVE  \E h \in Handlers : Fresh(h) /\ queue' = Append(queue, h)
  <2> DEFINE h == Handler("close", connections[c].endpoint, 0)
  <2>1. h \in Handlers /\ h.op = "close" /\ h.endpoint = connections[c].endpoint
    BY KnownEndpoint, HandlerType DEF Ops
  <2>2. queue' = Append(queue, h)
    BY <1>3 DEF close
  <2> HIDE DEF h
  <2> QED
    BY <2>1, <2>2 DEF Fresh
<1>4. CASE Return
  <2>1. PICK c \in Known : queue' = queue \/ close(c)
    BY <1>4 DEF Return, ReturnFromAccept, ReturnFromRecv, ReturnFromClose, Answer, Known
  <2> QED
    BY <1>3, <2>1
<1>5. CASE User
  <2>1. PICK c \in Known : send_buffer_fill(c) \/ UserCloses(c) \/ recv_buffer_drop(c)
    BY <1>5 DEF User, Known
  <2>2. CASE UserCloses(c) \/ recv_buffer_drop(c)
    BY <1>3, <2>2 DEF UserCloses, recv_buffer_drop
  <2>3. CASE send_buffer_fill(c)
    <3> DEFINE h == Handler("push", connections[c].endpoint, Len(posted) + 1)
    <3>1. Len(posted) + 1 \in Nat
      BY DEF TypeOK
    <3>2. /\ h \in Handlers /\ h.op = "push" /\ h.endpoint = connections[c].endpoint
          /\ h.pack = Len(posted) + 1
      BY <3>1, KnownEndpoint, HandlerType DEF Ops
    <3>3. queue' = Append(queue, h) /\ posted' = Append(posted, c)
      BY <2>3 DEF send_buffer_fill
    <3> HIDE DEF h
    <3> QED
      BY <3>2, <3>3 DEF Fresh
  <2> QED
    BY <2>1, <2>2, <2>3
<1> QED
  BY <1>1, <1>2, <1>4, <1>5 DEF Next

\* So whatever waits after a step waited before, or is fresh.
LEMMA OldOrFresh ==
    ASSUME TypeOK, [Next]_vars
    PROVE  \A i \in 1..Len(queue') :
              (\E j \in 1..Len(queue) : queue'[i] = queue[j]) \/ Fresh(queue'[i])
<1>1. CASE queue' = queue
  BY <1>1
<1>2. ASSUME NEW op, Runs(op), queue' = Tail(queue)
      PROVE  \A i \in 1..Len(queue') : \E j \in 1..Len(queue) : queue'[i] = queue[j]
  BY <1>2, Running
<1>3. ASSUME NEW h \in Handlers, Fresh(h), queue' = Append(queue, h)
      PROVE  \A i \in 1..Len(queue') :
                (\E j \in 1..Len(queue) : queue'[i] = queue[j]) \/ Fresh(queue'[i])
  <2>1. queue \in Seq(Handlers) /\ Len(queue) \in Nat
    BY DEF TypeOK
  <2>2. /\ Len(queue') = Len(queue) + 1
        /\ \A i \in 1..Len(queue) : queue'[i] = queue[i]
        /\ queue'[Len(queue) + 1] = h
    BY <1>3, <2>1, AppendAt
  <2>3. \A i \in 1..Len(queue') : i \in 1..Len(queue) \/ i = Len(queue) + 1
    BY <2>1, <2>2
  <2> QED
    BY <1>3, <2>2, <2>3
<1> QED
  BY <1>1, <1>2, <1>3, QueueChange

\* Nobody posts for an endpoint that is none, and nothing is sent or made
\* before the first datagram.
LEMMA AddressedStep ==
    ASSUME TypeOK, WriteToken, Addressed, Numbered, [Next]_vars
    PROVE  Addressed'
<1> USE DEF acceptorVars, datagramVars, sendVars, userVars, tableVars, reports
<1>1. ASSUME NEW i \in 1..Len(queue'), queue'[i].op \in {"push", "close"}
      PROVE  queue'[i].endpoint \in Endpoints
  <2>1. CASE \E j \in 1..Len(queue) : queue'[i] = queue[j]
    BY <1>1, <2>1 DEF Addressed
  <2>2. CASE Fresh(queue'[i])
    BY <1>1, <2>2, KnownEndpoint DEF Fresh
  <2> QED
    BY <2>1, <2>2, OldOrFresh
<1>2. ASSUME m_peer_endpoint' = NoEndpoint
      PROVE  connections' = <<>> /\ delivered' = <<>> /\ writing' = <<>> /\ NoneIn(queue', {"recv"})
  <2>1. ~DatagramArrives
    BY <1>2, EndpointsAssumption DEF DatagramArrives
  <2>2. m_peer_endpoint = NoEndpoint
    BY <1>2, <2>1 DEF Next, vars, start, IoThread, handle_recv, push_send_data, handle_send,
       handle_close, Return, User, send_buffer_fill, UserCloses, recv_buffer_drop, ReceiveFails,
       SendCompletes
  <2>3. connections = <<>> /\ delivered = <<>> /\ writing = <<>> /\ NoneIn(queue, {"recv"})
    BY <2>2 DEF Addressed
  <2>4. Known = {} /\ ~Return /\ ~User
    BY <2>3 DEF Known, Return, User
  <2>5. ~handle_recv
    BY <2>3, Running DEF handle_recv
  <2>6. \A x : ~Filled(x)
    BY <2>4 DEF Filled, Numbered
  <2>7. ~push_send_data
    <3>1. ASSUME push_send_data PROVE FALSE
      <4>1. 1 \in 1..Len(queue) /\ queue[1].op = "push"
        BY <3>1, Running DEF push_send_data
      <4> QED
        BY <2>6, <4>1 DEF Numbered
    <3> QED
      BY <3>1
  <2>8. ~handle_send
    <3>1. ASSUME handle_send PROVE FALSE
      <4>1. ~NoneIn(queue, {"send"})
        BY <3>1, Running DEF handle_send
      <4>2. m_send_buffer # <<>> /\ m_send_buffer \in Seq(Packs)
        BY <4>1 DEF WriteToken, TypeOK
      <4>3. 1 \in 1..Len(m_send_buffer)
        BY <4>2
      <4> QED
        BY <2>6, <4>3 DEF Numbered
    <3> QED
      BY <3>1
  <2>9. UNCHANGED vars \/ start \/ handle_close
    BY <2>1, <2>3, <2>4, <2>5, <2>7, <2>8 DEF Next, IoThread, ReceiveFails, SendCompletes
  <2>10. NoneIn(queue', {"recv"})
    BY <2>3, <2>9, QueueSteps, QueueMovesOn DEF Ops
  <2> QED
    BY <2>3, <2>9, <2>10 DEF vars, start, handle_close
<1> QED
  BY <1>1, <1>2 DEF Addressed

-----------------------------------------------------------------------------
(* The table.                                                              *)

\* The connections are who they were, and run as they did.
SameConnections ==
    /\ Known' = Known
    /\ \A b \in Known :
          /\ connections'[b].endpoint = connections[b].endpoint
          /\ connections'[b].m_running = connections[b].m_running

\* The steps that neither make a connection, nor show or end one.
Elsewhere ==
    \/ UNCHANGED vars \/ start \/ push_send_data \/ handle_send \/ User
    \/ DatagramArrives \/ ReceiveFails \/ SendCompletes

\* They leave the connections, what these have shown, and the callback.
LEMMA ElsewhereSame ==
    ASSUME TypeOK, Elsewhere
    PROVE  /\ SameConnections /\ UNCHANGED <<m_connection_map, callback, closed, rejected>>
           /\ \A b \in Known : connections'[b].shown = connections[b].shown
<1> USE DEF acceptorVars, datagramVars, sendVars, userVars, tableVars, reports
<1>1. CASE connections' = connections
  <2>1. UNCHANGED <<m_connection_map, callback, closed, rejected>>
    BY DEF Elsewhere, vars, start, push_send_data, handle_send, User, send_buffer_fill,
           UserCloses, recv_buffer_drop, DatagramArrives, ReceiveFails, SendCompletes
  <2> QED
    BY <1>1, <2>1 DEF SameConnections, Known
<1>2. CASE connections' # connections
  <2>1. PICK c \in Known : recv_buffer_drop(c)
    BY <1>2 DEF Elsewhere, vars, start, push_send_data, handle_send, User, send_buffer_fill,
           UserCloses, recv_buffer_drop, DatagramArrives, ReceiveFails, SendCompletes, Known
  <2> QED
    BY <2>1, Dropping DEF recv_buffer_drop, SameConnections
<1> QED
  BY <1>1, <1>2

\* Then the table is as good as it was, if the callback is.
LEMMA TableSame ==
    ASSUME TypeOK, Table, SameConnections, UNCHANGED m_connection_map,
           \/ callback' = Quiet
           \/ /\ callback'.name # "none" /\ callback'.conn \in Known
              /\ connections[callback'.conn].m_running
    PROVE  Table'
<1>1. \A e \in Endpoints : m_connection_map'[e] # None =>
          m_connection_map'[e] \in Known' /\ connections'[m_connection_map'[e]].endpoint = e
  BY DEF Table, SameConnections
<1>2. MapExact'
  <2>1. SUFFICES ASSUME NEW c \in Known'
                 PROVE  connections'[c].m_running <=> m_connection_map'[connections'[c].endpoint] = c
    BY DEF MapExact
  <2>2. c \in Known /\ connections'[c].endpoint = connections[c].endpoint
        /\ connections'[c].m_running = connections[c].m_running
    BY DEF SameConnections
  <2> QED
    BY <2>2 DEF Table, MapExact
<1>3. \/ callback' = Quiet
      \/ callback'.name # "none" /\ callback'.conn \in Known' /\ connections'[callback'.conn].m_running
  BY DEF SameConnections
<1> QED
  BY <1>1, <1>2, <1>3 DEF Table, Quiet

\* A datagram makes the connection of its peer, which had none, or finds it.
LEMMA TableRecv ==
    ASSUME TypeOK, Addressed, Table, handle_recv
    PROVE  Table'
<1> DEFINE p == m_peer_endpoint
           n == Len(connections) + 1
<1>1. p \in Endpoints /\ m_connection_map \in [Endpoints -> Nat]
  BY AddressedRuns DEF handle_recv, TypeOK
<1>2. CASE m_connection_map[p] # None
  <2> DEFINE c == m_connection_map[p]
  <2>1. c \in Known /\ Show(c) /\ UNCHANGED m_connection_map /\ connections[c].m_running
    BY <1>1, <1>2 DEF handle_recv, Table, MapExact
  <2> HIDE DEF c
  <2>2. SameConnections /\ callback' = Callback("on_recv", c)
    BY <2>1, Showing DEF SameConnections
  <2> QED
    BY <2>1, <2>2, TableSame DEF Callback
<1>3. CASE m_connection_map[p] = None
  <2>1. /\ connections' = Append(connections, New)
        /\ m_connection_map' = [m_connection_map EXCEPT ![p] = n]
        /\ callback' = Callback("on_accept", n)
    BY <1>3 DEF handle_recv, insert, New
  <2>2. /\ n \notin Known /\ n # None
        /\ \A b : b \in Known' <=> b \in Known \/ b = n
        /\ \A b \in Known : connections'[b] = connections[b]
        /\ connections'[n] = New /\ New.endpoint = p /\ New.m_running
    BY <1>1, <2>1, Making
  <2>3. m_connection_map'[p] = n /\ \A e \in Endpoints : e # p => m_connection_map'[e] = m_connection_map[e]
    BY <1>1, <2>1
  <2> HIDE DEF n, p
  <2>4. \A e \in Endpoints : m_connection_map'[e] # None =>
           m_connection_map'[e] \in Known' /\ connections'[m_connection_map'[e]].endpoint = e
    BY <2>2, <2>3 DEF Table
  <2>5. ASSUME NEW c \in Known'
        PROVE  connections'[c].m_running <=> m_connection_map'[connections'[c].endpoint] = c
    <3>1. CASE c = n
      BY <1>1, <2>2, <2>3, <3>1
    <3>2. CASE c \in Known
      <4>1. connections[c].endpoint \in Endpoints /\ c # n /\ c # None
        BY <2>2, <3>2, KnownEndpoint DEF Known, None
      <4> QED
        BY <1>3, <2>2, <2>3, <3>2, <4>1 DEF Table, MapExact
    <3> QED
      BY <2>2, <3>1, <3>2
  <2> QED
    BY <2>1, <2>2, <2>4, <2>5 DEF Table, MapExact, Callback
<1> QED
  BY <1>2, <1>3

\* A connection that has returned from on_close leaves the table.
LEMMA TableErase ==
    ASSUME TypeOK, Table, NEW c \in Known, ReturnFromClose(c)
    PROVE  Table'
<1> DEFINE p == connections[c].endpoint
<1>1. /\ p \in Endpoints /\ c # None /\ m_connection_map \in [Endpoints -> Nat]
      /\ connections[c].m_running
  BY KnownEndpoint DEF Table, ReturnFromClose, Callback, Quiet, TypeOK, Known, None
<1>2. m_connection_map[p] = c
  BY <1>1 DEF Table, MapExact
<1>3. /\ connections' = [connections EXCEPT ![c].m_running = FALSE]
      /\ m_connection_map' = [m_connection_map EXCEPT ![p] = None]
      /\ callback' = Quiet
  BY DEF ReturnFromClose, erase
<1>4. /\ Known' = Known /\ ~connections'[c].m_running
      /\ \A b \in Known :
            /\ connections'[b].endpoint = connections[b].endpoint
            /\ b # c => connections'[b].m_running = connections[b].m_running
  BY <1>3, Stopping
<1>5. m_connection_map'[p] = None /\ \A e \in Endpoints : e # p => m_connection_map'[e] = m_connection_map[e]
  BY <1>1, <1>3
<1> HIDE DEF p
<1>6. \A e \in Endpoints : m_connection_map'[e] # None =>
         m_connection_map'[e] \in Known' /\ connections'[m_connection_map'[e]].endpoint = e
  BY <1>4, <1>5 DEF Table
<1>7. ASSUME NEW b \in Known'
      PROVE  connections'[b].m_running <=> m_connection_map'[connections'[b].endpoint] = b
  <2>1. b \in Known /\ connections'[b].endpoint = connections[b].endpoint
        /\ connections[b].endpoint \in Endpoints /\ b # None
    BY <1>4, KnownEndpoint DEF Known, None
  <2>2. CASE b = c
    BY <1>4, <1>5, <2>1, <2>2 DEF p
  <2>3. CASE b # c
    <3>1. connections'[b].m_running = connections[b].m_running
      BY <1>4, <2>1, <2>3
    <3>2. connections[b].m_running <=> m_connection_map[connections[b].endpoint] = b
      BY <2>1 DEF Table, MapExact
    <3> QED
      BY <1>2, <1>5, <2>1, <2>3, <3>1, <3>2
  <2> QED
    BY <2>2, <2>3
<1> QED
  BY <1>3, <1>6, <1>7 DEF Table, MapExact, Quiet

\* The callback is that of a connection that runs, whichever callback it is.
LEMMA InCallback ==
    ASSUME Table, NEW c, NEW name, callback = Callback(name, c), name # "none"
    PROVE  c \in Known /\ connections[c].m_running /\ callback.name = name /\ callback.conn = c
BY DEF Table, Callback, Quiet

\* Every step keeps the table.
LEMMA TableStep ==
    ASSUME TypeOK, Addressed, Table, [Next]_vars
    PROVE  Table'
<1>1. CASE Elsewhere
  <2>1. SameConnections /\ UNCHANGED <<m_connection_map, callback>>
    BY <1>1, ElsewhereSame
  <2> QED
    BY <2>1, TableSame DEF Table
<1>2. CASE handle_recv
  BY <1>2, TableRecv
<1>3. CASE handle_close
  <2> DEFINE e == Head(queue).endpoint
             c == m_connection_map[e]
  <2>1. e \in Endpoints /\ UNCHANGED connections
    BY <1>3, AddressedRuns DEF handle_close
  <2>2. c # None => c \in Known /\ connections[c].m_running
    BY <2>1 DEF Table, MapExact
  <2>3. UNCHANGED m_connection_map /\ callback' = IF c # None THEN Callback("on_close", c) ELSE Quiet
    BY <1>3, <2>2 DEF handle_close
  <2>4. SameConnections
    BY <2>1 DEF SameConnections, Known
  <2> HIDE DEF c
  <2> QED
    BY <2>2, <2>3, <2>4, TableSame DEF Callback
<1>4. CASE Return
  <2>1. PICK c \in Known :
           \/ \E kept \in BOOLEAN : ReturnFromAccept(c, kept) \/ ReturnFromRecv(c, kept)
           \/ ReturnFromClose(c)
    BY <1>4 DEF Return, Known
  <2>2. ASSUME NEW kept \in BOOLEAN, ReturnFromAccept(c, kept) PROVE Table'
    <3>1. Show(c) /\ UNCHANGED m_connection_map /\ connections[c].m_running
      BY <2>2, InCallback DEF ReturnFromAccept
    <3>2. SameConnections /\ callback' = Callback("on_recv", c)
      BY <3>1, Showing DEF SameConnections
    <3> QED
      BY <3>1, <3>2, TableSame DEF Callback
  <2>3. ASSUME NEW kept \in BOOLEAN, ReturnFromRecv(c, kept) PROVE Table'
    <3>1. SameConnections /\ UNCHANGED m_connection_map /\ callback' = Quiet
      BY <2>3 DEF ReturnFromRecv, tableVars, SameConnections, Known
    <3> QED
      BY <3>1, TableSame
  <2> QED
    BY <2>1, <2>2, <2>3, TableErase
<1> QED
  BY <1>1, <1>2, <1>3, <1>4 DEF Next, IoThread, Elsewhere

\* handle_recv makes a connection, or shows one the datagram.
LEMMA RecvMoves ==
    ASSUME TypeOK, Addressed, Table, handle_recv
    PROVE  /\ callback = Quiet /\ UNCHANGED <<rejected, closed, datagramVars>>
           /\ m_peer_endpoint \in Endpoints
           /\ \/ /\ m_connection_map[m_peer_endpoint] = None
                 /\ connections' = Append(connections, New)
                 /\ callback' = Callback("on_accept", Len(connections) + 1)
              \/ \E c \in Known :
                    /\ Show(c) /\ c = m_connection_map[m_peer_endpoint]
                    /\ connections[c].m_running /\ connections[c].endpoint = m_peer_endpoint
<1>1. m_peer_endpoint \in Endpoints
  BY AddressedRuns DEF handle_recv
<1>2. callback = Quiet /\ UNCHANGED <<rejected, closed, datagramVars>>
  BY DEF handle_recv, reports, Runs
<1>3. CASE m_connection_map[m_peer_endpoint] = None
  BY <1>1, <1>2, <1>3 DEF handle_recv, New
<1>4. CASE m_connection_map[m_peer_endpoint] # None
  <2> DEFINE c == m_connection_map[m_peer_endpoint]
  <2>1. c \in Known /\ Show(c) /\ connections[c].m_running /\ connections[c].endpoint = m_peer_endpoint
    BY <1>1, <1>4 DEF handle_recv, Table, MapExact
  <2> QED
    BY <1>1, <1>2, <2>1
<1> QED
  BY <1>3, <1>4

\* handle_close calls on_close of the connection that the endpoint leads to.
LEMMA CloseMoves ==
    ASSUME TypeOK, Addressed, Table, handle_close
    PROVE  /\ callback = Quiet /\ UNCHANGED <<connections, rejected, datagramVars>>
           /\ Head(queue).endpoint \in Endpoints
           /\ \/ /\ m_connection_map[Head(queue).endpoint] = None
                 /\ callback' = Quiet /\ closed' = closed
              \/ \E c \in Known :
                    /\ c = m_connection_map[Head(queue).endpoint]
                    /\ connections[c].m_running /\ closed' = Append(closed, c)
                    /\ callback' = Callback("on_close", c)
<1> DEFINE e == Head(queue).endpoint
           c == m_connection_map[e]
<1>1. /\ e \in Endpoints /\ callback = Quiet
      /\ UNCHANGED <<connections, rejected, datagramVars>>
  BY AddressedRuns DEF handle_close, Runs
<1>2. c # None => c \in Known /\ connections[c].m_running
  BY <1>1 DEF Table, MapExact
<1>3. CASE c # None
  BY <1>1, <1>2, <1>3 DEF handle_close
<1>4. CASE c = None
  BY <1>1, <1>4 DEF handle_close
<1> QED
  BY <1>3, <1>4

\* The steps that move the table and the callback.
LEMMA TableMoves ==
    ASSUME TypeOK, [Next]_vars
    PROVE  \/ Elsewhere \/ handle_recv \/ handle_close
           \/ \E c \in Known :
                 /\ Return /\ UNCHANGED datagramVars
                 /\ \/ \E kept \in BOOLEAN : ReturnFromAccept(c, kept) \/ ReturnFromRecv(c, kept)
                    \/ ReturnFromClose(c)
BY DEF Next, IoThread, Elsewhere, Return, Known

\* on_close is called for a connection that runs, and none that was closed does.
LEMMA EndedStep ==
    ASSUME TypeOK, Addressed, Table, Ended, [Next]_vars
    PROVE  Ended'
<1>0. closed \in Seq(Nat) /\ Len(closed) \in Nat
  BY DEF TypeOK
<1>1. ASSUME closed' = closed,
             \A b \in Known : b \in Known' /\ (connections'[b].m_running => connections[b].m_running),
             \A b \in Known : connections'[b].m_running /\ callback = Callback("on_close", b)
                                 => callback' = callback
      PROVE  Ended'
  BY <1>1 DEF Ended
<1>2. CASE Elsewhere
  BY <1>1, <1>2, ElsewhereSame DEF SameConnections
<1>3. ASSUME handle_recv, connections' = Append(connections, New), UNCHANGED closed PROVE Ended'
  <2>1. \A b \in Known : b \in Known' /\ connections'[b] = connections[b]
    BY <1>3, RecvMoves, Making
  <2>2. callback = Quiet /\ \A b : callback # Callback("on_close", b)
    BY <1>3 DEF handle_recv, Runs, Quiet, Callback
  <2> QED
    BY <1>1, <1>3, <2>1, <2>2
<1>4. ASSUME NEW c \in Known, Show(c), UNCHANGED closed, callback.name # "on_close" PROVE Ended'
  <2>1. SameConnections
    BY <1>4, Showing DEF SameConnections
  <2>2. \A b : callback # Callback("on_close", b)
    BY <1>4 DEF Callback
  <2> QED
    BY <1>1, <1>4, <2>1, <2>2 DEF SameConnections
<1>5. ASSUME handle_close, UNCHANGED connections, NEW c \in Known, connections[c].m_running,
             closed' = Append(closed, c), callback' = Callback("on_close", c)
      PROVE  Ended'
  <2>1. \A b : callback # Callback("on_close", b)
    BY <1>5 DEF handle_close, Runs, Quiet, Callback
  <2>2. \A i \in 1..Len(closed) : closed[i] # c /\ closed[i] \in Known /\ ~connections[closed[i]].m_running
    BY <1>5, <2>1 DEF Ended
  <2>3. c \in Nat
    BY KnownEndpoint
  <2>4. /\ Len(closed') = Len(closed) + 1
        /\ \A i \in 1..Len(closed) : closed'[i] = closed[i]
        /\ closed'[Len(closed) + 1] = c
    BY <1>0, <1>5, <2>3, AppendAt
  <2>5. \A i \in 1..Len(closed') : i \in 1..Len(closed) \/ i = Len(closed) + 1
    BY <1>0, <2>4
  <2>6. Known' = Known
    BY <1>5 DEF Known
  <2>7. \A i \in 1..Len(closed') :
           /\ closed'[i] \in Known'
           /\ connections'[closed'[i]].m_running => callback' = Callback("on_close", closed'[i])
    BY <1>5, <2>2, <2>4, <2>5, <2>6
  <2>8. \A i, j \in 1..Len(closed') : closed'[i] = closed'[j] => i = j
    BY <2>2, <2>4, <2>5 DEF Ended
  <2> QED
    BY <2>7, <2>8 DEF Ended
<1>6. ASSUME handle_close, UNCHANGED <<connections, closed>> PROVE Ended'
  <2>1. \A b : callback # Callback("on_close", b)
    BY <1>6 DEF handle_close, Runs, Quiet, Callback
  <2> QED
    BY <1>1, <1>6, <2>1 DEF Known
<1>7. ASSUME NEW c \in Known, NEW kept \in BOOLEAN, ReturnFromAccept(c, kept) PROVE Ended'
  BY <1>4, <1>7 DEF ReturnFromAccept, Callback
<1>8. ASSUME NEW c \in Known, NEW kept \in BOOLEAN, ReturnFromRecv(c, kept) PROVE Ended'
  <2>1. \A b : callback # Callback("on_close", b)
    BY <1>8 DEF ReturnFromRecv, Callback
  <2> QED
    BY <1>1, <1>8, <2>1 DEF ReturnFromRecv, tableVars, Known
<1>9. ASSUME NEW c \in Known, ReturnFromClose(c) PROVE Ended'
  <2>1. /\ Known' = Known /\ ~connections'[c].m_running
        /\ \A b \in Known : b # c => connections'[b].m_running = connections[b].m_running
    BY <1>9, Stopping DEF ReturnFromClose
  <2>2. \A b : callback = Callback("on_close", b) => b = c
    BY <1>9 DEF ReturnFromClose, Callback
  <2> QED
    BY <1>1, <1>9, <2>1, <2>2 DEF ReturnFromClose
<1>10. ASSUME handle_recv PROVE callback.name # "on_close"
  BY <1>10 DEF handle_recv, Runs, Quiet
<1>11. CASE handle_recv
  BY <1>3, <1>4, <1>10, <1>11, RecvMoves
<1>12. CASE handle_close
  BY <1>5, <1>6, <1>12, CloseMoves
<1> QED
  BY <1>2, <1>7, <1>8, <1>9, <1>11, <1>12, TableMoves

\* While a connection is introduced no datagram arrives, and it is not refused
\* before it answers.
LEMMA IntroducingStep ==
    ASSUME TypeOK, ReadToken, Addressed, Table, Refusing, Introducing, [Next]_vars
    PROVE  Introducing'
<1>1. CASE Elsewhere
  <2> SUFFICES ASSUME callback.name = "on_accept"
               PROVE  /\ connections'[callback.conn].endpoint = m_peer_endpoint'
                      /\ connections'[callback.conn].shown = <<>>
                      /\ \A r \in rejected' : r[1] # callback.conn
    BY <1>1, ElsewhereSame DEF Introducing
  <2>1. callback.conn \in Known
    BY DEF Table, Quiet
  <2>2. reading = 0
    BY DEF ReadToken, Holding
  <2>3. m_peer_endpoint' = m_peer_endpoint
    BY <1>1, <2>2 DEF Elsewhere, vars, start, push_send_data, handle_send, User,
       send_buffer_fill, UserCloses, recv_buffer_drop, DatagramArrives, ReceiveFails,
       SendCompletes, datagramVars
  <2> QED
    BY <1>1, <2>1, <2>3, ElsewhereSame DEF SameConnections, Introducing
<1>2. ASSUME handle_recv, connections' = Append(connections, New), UNCHANGED rejected,
             callback' = Callback("on_accept", Len(connections) + 1)
      PROVE  Introducing'
  <2> DEFINE n == Len(connections) + 1
  <2>1. /\ n \notin Known /\ connections'[n] = New
        /\ New.endpoint = m_peer_endpoint /\ New.shown = <<>>
    BY <1>2, RecvMoves, Making
  <2>2. \A r \in rejected : r[1] # n
    BY <2>1 DEF Refusing
  <2>3. callback'.conn = n /\ m_peer_endpoint' = m_peer_endpoint
    BY <1>2 DEF handle_recv, datagramVars, Callback
  <2> HIDE DEF n
  <2> QED
    BY <1>2, <2>1, <2>2, <2>3 DEF Introducing
<1>3. ASSUME callback'.name # "on_accept" PROVE Introducing'
  BY <1>3 DEF Introducing
<1>4. ASSUME \/ \E c : Show(c) \/ ReturnFromClose(c) \/ callback' = Callback("on_close", c)
             \/ \E c, kept : ReturnFromAccept(c, kept) \/ ReturnFromRecv(c, kept)
             \/ callback' = Quiet
      PROVE  Introducing'
  BY <1>3, <1>4 DEF Show, ReturnFromClose, ReturnFromAccept, ReturnFromRecv, Callback, Quiet
<1>5. CASE handle_recv
  BY <1>2, <1>4, <1>5, RecvMoves
<1>6. CASE handle_close
  BY <1>4, <1>6, CloseMoves
<1> QED
  BY <1>1, <1>4, <1>5, <1>6, TableMoves

-----------------------------------------------------------------------------
(* Refusals.                                                               *)

\* A stop that waits goes on waiting when another handler is posted, and one
\* that is posted while no datagram waits is in front of those to come.
LEMMA ClosingPosted ==
    ASSUME TypeOK, NEW h \in Handlers, queue' = Append(queue, h)
    PROVE  /\ \A e : Closing(queue, e) => Closing(queue', e)
           /\ h.op = "close" /\ NoneIn(queue, {"recv"}) => Closing(queue', h.endpoint)
<1>1. /\ Len(queue) \in Nat /\ Len(queue') = Len(queue) + 1
      /\ \A i \in 1..Len(queue) : queue'[i] = queue[i]
      /\ queue'[Len(queue) + 1] = h
  BY AppendAt DEF TypeOK
<1>2. ASSUME NEW e, Closing(queue, e) PROVE Closing(queue', e)
  <2>1. PICK j \in 1..Len(queue) :
           /\ queue[j].op = "close" /\ queue[j].endpoint = e
           /\ \A i \in 1..j : queue[i].op # "recv"
    BY <1>2 DEF Closing
  <2>2. j \in 1..Len(queue') /\ queue'[j] = queue[j]
        /\ \A i \in 1..j : queue'[i] = queue[i]
    BY <1>1
  <2> QED
    BY <2>1, <2>2 DEF Closing
<1>3. ASSUME h.op = "close", NoneIn(queue, {"recv"}) PROVE Closing(queue', h.endpoint)
  <2>1. Len(queue) + 1 \in 1..Len(queue')
    BY <1>1
  <2>2. \A i \in 1..Len(queue) + 1 : i \in 1..Len(queue) \/ i = Len(queue) + 1
    BY <1>1
  <2>3. \A i \in 1..Len(queue) + 1 : queue'[i].op # "recv"
    BY <1>1, <1>3, <2>2 DEF NoneIn
  <2> QED
    BY <1>1, <1>3, <2>1, <2>3 DEF Closing
<1> QED
  BY <1>2, <1>3

\* No datagram is handled before it, and only a stop for this endpoint ends the
\* wait.
LEMMA ClosingRun ==
    ASSUME TypeOK, NEW op, Runs(op), queue' = Tail(queue), NEW e, Closing(queue, e)
    PROVE  /\ op # "recv"
           /\ Closing(queue', e) \/ (op = "close" /\ queue[1].endpoint = e)
<1>1. /\ Len(queue) \in Nat /\ Len(queue) > 0 /\ Len(queue') = Len(queue) - 1
      /\ \A i \in 1..Len(queue') : queue'[i] = queue[i + 1]
      /\ queue[1].op = op
  BY Running
<1>2. PICK j \in 1..Len(queue) :
         /\ queue[j].op = "close" /\ queue[j].endpoint = e
         /\ \A i \in 1..j : queue[i].op # "recv"
  BY DEF Closing
<1>3. op # "recv"
  BY <1>1, <1>2
<1>4. CASE j = 1
  BY <1>1, <1>2, <1>3, <1>4
<1>5. CASE j # 1
  <2>1. j - 1 \in 1..Len(queue') /\ (j - 1) + 1 = j
    BY <1>1, <1>5
  <2>2. \A i \in 1..j - 1 : i \in 1..Len(queue') /\ i + 1 \in 1..j
    BY <1>1
  <2>3. queue'[j - 1] = queue[j] /\ \A i \in 1..j - 1 : queue'[i].op # "recv"
    BY <1>1, <1>2, <2>1, <2>2
  <2> QED
    BY <1>2, <1>3, <2>1, <2>3 DEF Closing
<1> QED
  BY <1>4, <1>5

\* A stop that waits is not lost, unless it is the one that runs.
LEMMA ClosingStays ==
    ASSUME TypeOK, [Next]_vars, NEW e, Closing(queue, e)
    PROVE  /\ Closing(queue', e) \/ (handle_close /\ Head(queue).endpoint = e)
           /\ ~handle_recv
<1>1. CASE queue' = queue
  <2>1. ~handle_recv
    <3>1. ASSUME handle_recv PROVE FALSE
      BY <1>1, <3>1, Running DEF handle_recv
    <3> QED
      BY <3>1
  <2> QED
    BY <1>1, <2>1
<1>2. ASSUME NEW h \in Handlers, queue' = Append(queue, h)
      PROVE  Closing(queue', e) /\ ~handle_recv
  <2>1. ~handle_recv
    <3>1. ASSUME handle_recv PROVE FALSE
      <4>1. Len(queue') = Len(queue) - 1 /\ Len(queue) \in Nat
        BY <3>1, Running DEF handle_recv
      <4>2. Len(queue') = Len(queue) + 1
        BY <1>2, AppendAt DEF TypeOK
      <4> QED
        BY <4>1, <4>2
    <3> QED
      BY <3>1
  <2> QED
    BY <1>2, <2>1, ClosingPosted
<1>3. ASSUME NEW op, Runs(op), queue' = Tail(queue), op = "close" => handle_close
      PROVE  /\ Closing(queue', e) \/ (handle_close /\ Head(queue).endpoint = e)
             /\ ~handle_recv
  <2>1. op # "recv" /\ (Closing(queue', e) \/ (op = "close" /\ queue[1].endpoint = e))
    BY <1>3, ClosingRun
  <2>2. handle_recv => op = "recv"
    BY <1>3 DEF handle_recv, Runs
  <2>3. Head(queue) = queue[1]
    BY <1>3, Running
  <2> QED
    BY <1>3, <2>1, <2>2, <2>3
<1> QED
  BY <1>1, <1>2, <1>3, QueueChange

\* A refused connection runs until its stop has come to on_close, and shows no
\* further datagram meanwhile.
LEMMA RefusingStep ==
    ASSUME TypeOK, ReadToken, Addressed, Table, Introducing, Refusing, [Next]_vars
    PROVE  Refusing'
<1>0. /\ \A r \in rejected : r[1] \in Known
      /\ \A r \in rejected : connections[r[1]].m_running =>
            Closing(queue, connections[r[1]].endpoint) \/ callback = Callback("on_close", r[1])
      /\ RefusedIsLast
  BY DEF Refusing
<1>1. CASE handle_recv
  <2>1. callback = Quiet /\ rejected' = rejected
    BY <1>1, RecvMoves
  <2>2. \A r \in rejected : ~connections[r[1]].m_running
    <3>1. \A c : callback # Callback("on_close", c)
      BY <2>1 DEF Quiet, Callback
    <3> QED
      BY <1>0, <1>1, <3>1, ClosingStays
  <2>3. ASSUME connections' = Append(connections, New),
               callback' = Callback("on_accept", Len(connections) + 1)
        PROVE  Refusing'
    <3>1. /\ Len(connections) + 1 \notin Known
          /\ \A b : b \in Known' <=> b \in Known \/ b = Len(connections) + 1
          /\ \A b \in Known : connections'[b] = connections[b]
      BY <1>1, <2>3, RecvMoves, Making
    <3>2. RefusedIsLast'
      <4>1. \A c : callback' # Callback("on_recv", c)
        BY <2>3 DEF Callback
      <4>2. \A w : \A c \in Known' : <<c, w>> \in rejected => c \in Known
        BY <1>0
      <4> QED
        BY <1>0, <2>1, <3>1, <4>1, <4>2 DEF RefusedIsLast
    <3> QED
      BY <1>0, <2>1, <2>2, <3>1, <3>2 DEF Refusing
  <2>4. ASSUME NEW c \in Known, Show(c), connections[c].m_running PROVE Refusing'
    <3>1. /\ Known' = Known /\ callback' = Callback("on_recv", c)
          /\ \A b \in Known : connections'[b].m_running = connections[b].m_running
          /\ \A b \in Known : b # c => connections'[b].shown = connections[b].shown
      BY <2>4, Showing
    <3>2. \A w : <<c, w>> \notin rejected
      BY <2>2, <2>4
    <3>3. RefusedIsLast'
      <4>1. \A b : callback' = Callback("on_recv", b) => b = c
        BY <3>1 DEF Callback
      <4> QED
        BY <1>0, <2>1, <3>1, <3>2, <4>1 DEF RefusedIsLast
    <3> QED
      BY <1>0, <2>1, <2>2, <3>1, <3>3 DEF Refusing
  <2> QED
    BY <1>1, <2>3, <2>4, RecvMoves
<1>2. CASE handle_close
  <2>1. callback = Quiet /\ UNCHANGED <<connections, rejected>> /\ Known' = Known
    BY <1>2, CloseMoves DEF Known
  <2>2. \A c : callback' # Callback("on_recv", c)
    BY <1>2, CloseMoves DEF Callback, Quiet
  <2>3. ASSUME NEW r \in rejected, connections[r[1]].m_running
        PROVE  \/ Closing(queue', connections[r[1]].endpoint)
               \/ callback' = Callback("on_close", r[1])
    <3>1. callback # Callback("on_close", r[1])
      BY <2>1 DEF Quiet, Callback
    <3>2. r[1] \in Known /\ r[1] # None /\ Closing(queue, connections[r[1]].endpoint)
      BY <1>0, <2>3, <3>1 DEF Known, None
    <3>3. ASSUME Head(queue).endpoint = connections[r[1]].endpoint
          PROVE  callback' = Callback("on_close", r[1])
      <4>1. m_connection_map[Head(queue).endpoint] = r[1]
        BY <2>3, <3>2, <3>3 DEF Table, MapExact
      <4> QED
        BY <1>2, <3>2, <4>1, CloseMoves
    <3> QED
      BY <3>2, <3>3, ClosingStays
  <2>4. RefusedIsLast'
    BY <1>0, <2>1, <2>2 DEF RefusedIsLast
  <2> QED
    BY <1>0, <2>1, <2>3, <2>4 DEF Refusing
<1>3. ASSUME ~handle_close, NEW r \in rejected, connections[r[1]].m_running,
             callback # Callback("on_close", r[1])
      PROVE  Closing(queue', connections[r[1]].endpoint)
  BY <1>0, <1>3, ClosingStays
<1>4. CASE Elsewhere /\ ~handle_close
  <2>1. /\ SameConnections /\ callback' = callback /\ rejected' = rejected
        /\ \A b \in Known : connections'[b].shown = connections[b].shown
    BY <1>4, ElsewhereSame
  <2>2. RefusedIsLast'
    BY <1>0, <2>1 DEF RefusedIsLast, SameConnections
  <2> QED
    BY <1>0, <1>3, <1>4, <2>1, <2>2 DEF Refusing, SameConnections
<1>5. ASSUME NEW c \in Known, NEW h \in Handlers, queue' = Append(queue, h),
             h.op = "close", h.endpoint = connections[c].endpoint, Holding
      PROVE  Closing(queue', connections[c].endpoint)
  BY <1>5, ClosingPosted DEF ReadToken
<1>6. ASSUME NEW c \in Known, NEW kept \in BOOLEAN, Holding, Answer(c, kept)
      PROVE  /\ kept => rejected' = rejected
             /\ ~kept => /\ Closing(queue', connections[c].endpoint)
                         /\ rejected' = rejected \cup {<<c, callback.name>>}
  <2>1. CASE kept
    BY <1>6, <2>1 DEF Answer
  <2>2. CASE ~kept
    <3> DEFINE h == Handler("close", connections[c].endpoint, 0)
    <3>1. h \in Handlers /\ h.op = "close" /\ h.endpoint = connections[c].endpoint
      BY KnownEndpoint, HandlerType DEF Ops
    <3>2. queue' = Append(queue, h) /\ rejected' = rejected \cup {<<c, callback.name>>}
      BY <1>6, <2>2 DEF Answer, close
    <3> HIDE DEF h
    <3> QED
      BY <1>5, <1>6, <2>2, <3>1, <3>2
  <2> QED
    BY <2>1, <2>2
<1>7. ASSUME NEW c \in Known, NEW kept \in BOOLEAN, ~handle_close, SameConnections,
             callback = Callback("on_accept", c) \/ callback = Callback("on_recv", c),
             Answer(c, kept)
      PROVE  /\ \A r \in rejected' : r[1] \in Known'
             /\ \A r \in rejected' : connections'[r[1]].m_running =>
                   Closing(queue', connections'[r[1]].endpoint)
             /\ \A r \in rejected' : r \in rejected \/ r = <<c, callback.name>>
  <2>1. Holding /\ \A b : callback # Callback("on_close", b)
    BY <1>7 DEF Holding, Callback
  <2>2. /\ \A r \in rejected' : r \in rejected \/ r = <<c, callback.name>>
        /\ \A r \in rejected' : r \notin rejected => Closing(queue', connections[c].endpoint)
    BY <1>6, <1>7, <2>1
  <2>3. \A r \in rejected' : r \in rejected \/ r[1] = c
    BY <2>2
  <2>4. \A r \in rejected' : r[1] \in Known
    BY <1>0, <2>3
  <2>5. ASSUME NEW r \in rejected', connections[r[1]].m_running
        PROVE  Closing(queue', connections[r[1]].endpoint)
    BY <1>3, <1>7, <2>1, <2>2, <2>3, <2>5
  <2> QED
    BY <1>7, <2>2, <2>4, <2>5 DEF SameConnections
<1>8. ASSUME NEW c \in Known, NEW kept \in BOOLEAN, ~handle_close, ReturnFromAccept(c, kept)
      PROVE  Refusing'
  <2>1. /\ callback = Callback("on_accept", c) /\ Answer(c, kept) /\ Show(c)
        /\ callback.name = "on_accept" /\ callback.conn = c
    BY <1>8 DEF ReturnFromAccept, Callback
  <2>2. /\ SameConnections /\ callback' = Callback("on_recv", c)
        /\ \A b \in Known : b # c => connections'[b].shown = connections[b].shown
        /\ connections'[c].shown = Append(connections[c].shown, m_recv_data)
    BY <2>1, Showing DEF SameConnections
  <2>3. connections[c].shown = <<>> /\ \A r \in rejected : r[1] # c
    BY <2>1 DEF Introducing
  <2>4. Len(connections'[c].shown) = 1
    BY <2>2, <2>3
  <2>5. RefusedIsLast'
    <3>1. \A b \in Known' : <<b, "on_recv">> \in rejected' => <<b, "on_recv">> \in rejected /\ b # c
      <4>1. \A b : <<b, "on_recv">> # <<c, callback.name>>
        BY <2>1
      <4>2. \A r \in rejected' : r \in rejected \/ r = <<c, callback.name>>
        BY <1>7, <1>8, <2>1, <2>2
      <4>3. \A b : <<b, "on_recv">> \in rejected => b # c
        BY <2>3
      <4> QED
        BY <4>1, <4>2, <4>3
    <3>2. \A b \in Known' : b = c \/ (<<b, "on_accept">> \in rejected' => <<b, "on_accept">> \in rejected)
      BY <1>7, <1>8, <2>1, <2>2
    <3>3. \A b : callback' = Callback("on_recv", b) => b = c
      BY <2>2 DEF Callback
    <3>4. ASSUME NEW b \in Known', <<b, "on_recv">> \in rejected'
          PROVE  callback' # Callback("on_recv", b)
      BY <3>1, <3>3, <3>4
    <3>5. ASSUME NEW b \in Known', <<b, "on_accept">> \in rejected'
          PROVE  Len(connections'[b].shown) <= 1
      <4>1. CASE b = c
        <5>1. Len(connections'[b].shown) = 1
          BY <2>4, <4>1
        <5> QED
          BY <5>1
      <4>2. CASE b # c
        <5>1. b \in Known /\ connections'[b].shown = connections[b].shown
          BY <2>2, <4>2 DEF SameConnections
        <5>2. <<b, "on_accept">> \in rejected
          BY <3>2, <3>5, <4>2
        <5> QED
          BY <1>0, <5>1, <5>2 DEF RefusedIsLast
      <4> QED
        BY <4>1, <4>2
    <3> QED
      BY <3>4, <3>5 DEF RefusedIsLast
  <2> QED
    BY <1>7, <1>8, <2>1, <2>2, <2>5 DEF Refusing
<1>9. ASSUME NEW c \in Known, NEW kept \in BOOLEAN, ~handle_close, ReturnFromRecv(c, kept)
      PROVE  Refusing'
  <2>1. /\ callback = Callback("on_recv", c) /\ Answer(c, kept) /\ callback.name = "on_recv"
        /\ UNCHANGED connections /\ callback' = Quiet
    BY <1>9 DEF ReturnFromRecv, tableVars, Callback
  <2>2. SameConnections
    BY <2>1 DEF SameConnections, Known
  <2>3. RefusedIsLast'
    <3>1. \A b : callback' # Callback("on_recv", b)
      BY <2>1 DEF Quiet, Callback
    <3>2. \A b : <<b, "on_accept">> \in rejected' => <<b, "on_accept">> \in rejected
      BY <1>7, <1>9, <2>1, <2>2
    <3> QED
      BY <1>0, <2>1, <2>2, <3>1, <3>2 DEF RefusedIsLast, SameConnections
  <2> QED
    BY <1>7, <1>9, <2>1, <2>2, <2>3 DEF Refusing
<1>10. ASSUME NEW c \in Known, ~handle_close, ReturnFromClose(c) PROVE Refusing'
  <2>1. /\ callback = Callback("on_close", c) /\ callback' = Quiet
        /\ rejected' = rejected
        /\ connections' = [connections EXCEPT ![c].m_running = FALSE]
    BY <1>10 DEF ReturnFromClose
  <2>2. /\ Known' = Known /\ ~connections'[c].m_running
        /\ \A b \in Known :
              /\ connections'[b].endpoint = connections[b].endpoint
              /\ connections'[b].shown = connections[b].shown
              /\ b # c => connections'[b].m_running = connections[b].m_running
    BY <2>1, Stopping
  <2>3. \A b : b # c => callback # Callback("on_close", b)
    BY <2>1 DEF Callback
  <2>4. RefusedIsLast'
    <3>1. \A b : callback' # Callback("on_recv", b)
      BY <2>1 DEF Quiet, Callback
    <3> QED
      BY <1>0, <2>1, <2>2, <3>1 DEF RefusedIsLast
  <2> QED
    BY <1>0, <1>3, <1>10, <2>1, <2>2, <2>3, <2>4 DEF Refusing
<1> QED
  BY <1>1, <1>2, <1>4, <1>8, <1>9, <1>10, TableMoves

-----------------------------------------------------------------------------
(* The packs.                                                              *)

\* The connections keep their peers, and there are never fewer.
LEMMA PeersStay ==
    ASSUME TypeOK, Addressed, Table, [Next]_vars
    PROVE  \A b \in Known : b \in Known' /\ connections'[b].endpoint = connections[b].endpoint
<1>1. CASE Elsewhere
  BY <1>1, ElsewhereSame DEF SameConnections
<1>2. CASE handle_recv
  BY <1>2, RecvMoves, Making, Showing
<1>3. CASE handle_close
  BY <1>3, CloseMoves DEF Known
<1>4. ASSUME NEW c \in Known, NEW kept \in BOOLEAN, ReturnFromAccept(c, kept)
      PROVE  \A b \in Known : b \in Known' /\ connections'[b].endpoint = connections[b].endpoint
  BY <1>4, Showing DEF ReturnFromAccept
<1>5. ASSUME NEW c \in Known, NEW kept \in BOOLEAN, ReturnFromRecv(c, kept)
      PROVE  \A b \in Known : b \in Known' /\ connections'[b].endpoint = connections[b].endpoint
  BY <1>5 DEF ReturnFromRecv, tableVars, Known
<1>6. ASSUME NEW c \in Known, ReturnFromClose(c)
      PROVE  \A b \in Known : b \in Known' /\ connections'[b].endpoint = connections[b].endpoint
  BY <1>6, Stopping DEF ReturnFromClose
<1> QED
  BY <1>1, <1>2, <1>3, <1>4, <1>5, <1>6, TableMoves

\* The user's calls are remembered in their order.
LEMMA PostedStays ==
    ASSUME TypeOK, [Next]_vars
    PROVE  /\ Len(posted) \in Nat /\ Len(posted') \in Nat /\ Len(posted) <= Len(posted')
           /\ \A p \in 1..Len(posted) : p \in 1..Len(posted') /\ posted'[p] = posted[p]
           /\ \A p \in 1..Len(posted') : p \in 1..Len(posted) \/ posted'[p] \in Known
<1> USE DEF acceptorVars, datagramVars, sendVars, userVars, tableVars, reports
<1>0. posted \in Seq(Nat) /\ Len(posted) \in Nat
  BY DEF TypeOK
<1>1. CASE posted' = posted
  BY <1>0, <1>1
<1>2. ASSUME NEW c \in Known, send_buffer_fill(c)
      PROVE  /\ Len(posted) \in Nat /\ Len(posted') \in Nat /\ Len(posted) <= Len(posted')
             /\ \A p \in 1..Len(posted) : p \in 1..Len(posted') /\ posted'[p] = posted[p]
             /\ \A p \in 1..Len(posted') : p \in 1..Len(posted) \/ posted'[p] \in Known
  <2>1. c \in Nat /\ posted' = Append(posted, c)
    BY <1>2, KnownEndpoint DEF send_buffer_fill
  <2>2. /\ Len(posted') = Len(posted) + 1
        /\ \A p \in 1..Len(posted) : posted'[p] = posted[p]
        /\ posted'[Len(posted) + 1] = c
    BY <1>0, <2>1, AppendAt
  <2>3. /\ \A p \in 1..Len(posted) : p \in 1..Len(posted')
        /\ \A p \in 1..Len(posted') : p \in 1..Len(posted) \/ p = Len(posted) + 1
    BY <1>0, <2>2
  <2> QED
    BY <1>0, <2>2, <2>3
<1>3. posted' = posted \/ \E c \in Known : send_buffer_fill(c)
  BY DEF Next, vars, start, IoThread, handle_recv, push_send_data, handle_send, handle_close,
     Return, User, UserCloses, recv_buffer_drop, DatagramArrives, ReceiveFails, SendCompletes,
     Known
<1> QED
  BY <1>1, <1>2, <1>3

\* A pack that was filled stays filled, with the same endpoint.
LEMMA FilledStays ==
    ASSUME TypeOK, Addressed, Table, Numbered, [Next]_vars
    PROVE  /\ \A p \in 1..Len(posted') : posted'[p] \in Known'
           /\ \A x : Filled(x) => /\ x.pack \in 1..Len(posted')
                                  /\ x.endpoint = connections'[posted'[x.pack]].endpoint
<1>1. /\ \A p \in 1..Len(posted) : p \in 1..Len(posted') /\ posted'[p] = posted[p]
      /\ \A p \in 1..Len(posted') : p \in 1..Len(posted) \/ posted'[p] \in Known
  BY PostedStays
<1>2. \A b \in Known : b \in Known' /\ connections'[b].endpoint = connections[b].endpoint
  BY PeersStay
<1>3. \A p \in 1..Len(posted) : posted[p] \in Known
  BY DEF Numbered
<1>4. \A p \in 1..Len(posted') : posted'[p] \in Known'
  BY <1>1, <1>2, <1>3
<1>5. ASSUME NEW x, Filled(x)
      PROVE  /\ x.pack \in 1..Len(posted')
             /\ x.endpoint = connections'[posted'[x.pack]].endpoint
  <2>1. /\ x.pack \in 1..Len(posted) /\ posted[x.pack] \in Known
        /\ x.endpoint = connections[posted[x.pack]].endpoint
    BY <1>3, <1>5 DEF Filled
  <2> QED
    BY <1>1, <1>2, <2>1
<1> QED
  BY <1>4, <1>5

\* The send buffer gains the pack that is pushed, and loses the one in front.
LEMMA BufferMoves ==
    ASSUME TypeOK, WriteToken, Addressed, [Next]_vars
    PROVE  \/ ~push_send_data /\ ~handle_send /\ m_send_buffer' = m_send_buffer
           \/ \E x \in Packs :
                 /\ push_send_data /\ m_send_buffer' = Append(m_send_buffer, x)
                 /\ x.pack = queue[1].pack /\ x.endpoint = queue[1].endpoint
           \/ handle_send /\ m_send_buffer # <<>> /\ m_send_buffer' = Tail(m_send_buffer)
<1> USE DEF acceptorVars, datagramVars, sendVars, userVars, tableVars, reports
<1>1. ASSUME push_send_data
      PROVE  \E x \in Packs :
                 /\ push_send_data /\ m_send_buffer' = Append(m_send_buffer, x)
                 /\ x.pack = queue[1].pack /\ x.endpoint = queue[1].endpoint
  <2> DEFINE x == [endpoint |-> Head(queue).endpoint, pack |-> Head(queue).pack]
  <2>1. Runs("push") /\ Head(queue) = queue[1] /\ queue[1] \in Handlers
    BY <1>1, Running DEF push_send_data
  <2>2. Head(queue).endpoint \in Endpoints
    BY <2>1, AddressedRuns
  <2>3. x \in Packs /\ x.pack = queue[1].pack /\ x.endpoint = queue[1].endpoint
    BY <2>1, <2>2 DEF Packs, Handlers
  <2>4. m_send_buffer' = Append(m_send_buffer, x)
    BY <1>1 DEF push_send_data
  <2> HIDE DEF x
  <2> QED
    BY <1>1, <2>3, <2>4
<1>2. ASSUME handle_send
      PROVE  handle_send /\ m_send_buffer # <<>> /\ m_send_buffer' = Tail(m_send_buffer)
  <2>1. ~NoneIn(queue, {"send"})
    BY <1>2, Running DEF handle_send
  <2> QED
    BY <1>2, <2>1 DEF handle_send, WriteToken
<1>3. ASSUME ~push_send_data, ~handle_send PROVE m_send_buffer' = m_send_buffer
  BY <1>3 DEF Next, vars, start, IoThread, handle_recv, handle_close,
     Return, User, send_buffer_fill, UserCloses, recv_buffer_drop, DatagramArrives,
     ReceiveFails, SendCompletes
<1> QED
  BY <1>1, <1>2, <1>3

\* The network gains the pack in front.
LEMMA DeliveredMoves ==
    ASSUME TypeOK, WriteToken, [Next]_vars
    PROVE  \/ delivered' = delivered
           \/ /\ SendCompletes /\ m_send_buffer # <<>> /\ m_send_buffer' = m_send_buffer
              /\ writing # <<>> /\ writing' = <<>>
              /\ delivered' = Append(delivered, m_send_buffer[1]) /\ m_send_buffer[1] \in Packs
<1> USE DEF acceptorVars, datagramVars, sendVars, userVars, tableVars, reports
<1>1. ASSUME SendCompletes, delivered' # delivered
      PROVE  /\ m_send_buffer # <<>> /\ m_send_buffer' = m_send_buffer
             /\ writing # <<>> /\ writing' = <<>>
             /\ delivered' = Append(delivered, m_send_buffer[1]) /\ m_send_buffer[1] \in Packs
  <2>1. /\ writing # <<>> /\ m_send_buffer' = m_send_buffer /\ writing \in Seq(Packs)
        /\ delivered' = Append(delivered, Head(writing)) /\ m_send_buffer \in Seq(Packs)
        /\ writing' = Tail(writing)
    BY <1>1 DEF SendCompletes, TypeOK
  <2>2. m_send_buffer # <<>> /\ writing[1] = Head(m_send_buffer) /\ Len(writing) <= 1
    BY <2>1 DEF WriteToken
  <2>3. /\ Head(writing) = writing[1] /\ Head(m_send_buffer) = m_send_buffer[1]
        /\ Head(m_send_buffer) \in Packs
    BY <2>1, <2>2, TailAt, TailType
  <2>4. writing' = <<>>
    <3>1. writing' \in Seq(Packs) /\ Len(writing') = Len(writing) - 1 /\ Len(writing) > 0
      BY <2>1, TailType, TailAt
    <3>2. Len(writing') = 0
      BY <2>1, <2>2, <3>1
    <3> QED
      BY <3>1, <3>2
  <2> QED
    BY <2>1, <2>2, <2>3, <2>4
<1>2. ASSUME ~SendCompletes PROVE delivered' = delivered
  BY <1>2 DEF Next, vars, start, IoThread, handle_recv, handle_close, push_send_data,
     handle_send, Return, User, send_buffer_fill, UserCloses, recv_buffer_drop,
     DatagramArrives, ReceiveFails
<1> QED
  BY <1>1, <1>2

\* Every step keeps the packs with the peers of their connections.
LEMMA NumberedStep ==
    ASSUME TypeOK, WriteToken, Addressed, Table, Numbered, [Next]_vars
    PROVE  Numbered'
<1> DEFINE Still(x) == /\ x.pack \in 1..Len(posted')
                       /\ x.endpoint = connections'[posted'[x.pack]].endpoint
<1>1. /\ \A p \in 1..Len(posted') : posted'[p] \in Known'
      /\ \A x : Filled(x) => Still(x)
  BY FilledStays
<1>2. ASSUME NEW i \in 1..Len(queue'), queue'[i].op = "push" PROVE Still(queue'[i])
  <2>1. CASE \E j \in 1..Len(queue) : queue'[i] = queue[j]
    BY <1>1, <1>2, <2>1 DEF Numbered
  <2>2. CASE Fresh(queue'[i])
    <3>1. PICK c \in Known :
             /\ queue'[i].endpoint = connections[c].endpoint
             /\ queue'[i].pack = Len(posted) + 1 /\ posted' = Append(posted, c)
      BY <1>2, <2>2 DEF Fresh
    <3>2. c \in Nat /\ posted \in Seq(Nat) /\ Len(posted) \in Nat
      BY KnownEndpoint DEF TypeOK
    <3>3. Len(posted') = Len(posted) + 1 /\ posted'[Len(posted) + 1] = c
      BY <3>1, <3>2, AppendAt
    <3>4. c \in Known' /\ connections'[c].endpoint = connections[c].endpoint
      BY PeersStay
    <3> QED
      BY <3>1, <3>2, <3>3, <3>4
  <2> QED
    BY <2>1, <2>2, OldOrFresh
<1>3. ASSUME NEW i \in 1..Len(m_send_buffer') PROVE Still(m_send_buffer'[i])
  <2> HIDE DEF Still
  <2>0. m_send_buffer \in Seq(Packs) /\ \A j \in 1..Len(m_send_buffer) : Filled(m_send_buffer[j])
    BY DEF TypeOK, Numbered
  <2>1. CASE m_send_buffer' = m_send_buffer
    BY <1>1, <2>0, <2>1
  <2>2. ASSUME NEW x \in Packs, push_send_data, m_send_buffer' = Append(m_send_buffer, x),
               x.pack = queue[1].pack, x.endpoint = queue[1].endpoint
        PROVE  Still(m_send_buffer'[i])
    <3>1. 1 \in 1..Len(queue) /\ queue[1].op = "push"
      BY <2>2, Running DEF push_send_data
    <3>2. Filled(x)
      BY <2>2, <3>1 DEF Numbered, Filled
    <3>3. (i \in 1..Len(m_send_buffer) /\ m_send_buffer'[i] = m_send_buffer[i]) \/ m_send_buffer'[i] = x
      BY <2>0, <2>2, AppendAt
    <3> QED
      BY <1>1, <2>0, <3>2, <3>3
  <2>3. ASSUME m_send_buffer # <<>>, m_send_buffer' = Tail(m_send_buffer)
        PROVE  Still(m_send_buffer'[i])
    <3>1. i + 1 \in 1..Len(m_send_buffer) /\ m_send_buffer'[i] = m_send_buffer[i + 1]
      BY <2>0, <2>3, TailAt
    <3> QED
      BY <1>1, <2>0, <3>1
  <2> QED
    BY <2>1, <2>2, <2>3, BufferMoves
<1>4. ASSUME NEW i \in 1..Len(delivered') PROVE Still(delivered'[i])
  <2> HIDE DEF Still
  <2>0. /\ m_send_buffer \in Seq(Packs) /\ \A j \in 1..Len(m_send_buffer) : Filled(m_send_buffer[j])
        /\ delivered \in Seq(Packs) /\ \A j \in 1..Len(delivered) : Filled(delivered[j])
    BY DEF TypeOK, Numbered
  <2>1. CASE delivered' = delivered
    BY <1>1, <2>0, <2>1
  <2>2. ASSUME m_send_buffer # <<>>, m_send_buffer[1] \in Packs,
               delivered' = Append(delivered, m_send_buffer[1])
        PROVE  Still(delivered'[i])
    <3>1. 1 \in 1..Len(m_send_buffer)
      BY <2>0, <2>2
    <3>2. (i \in 1..Len(delivered) /\ delivered'[i] = delivered[i]) \/ delivered'[i] = m_send_buffer[1]
      BY <2>0, <2>2, AppendAt
    <3> QED
      BY <1>1, <2>0, <3>1, <3>2
  <2> QED
    BY <2>1, <2>2, DeliveredMoves
<1> QED
  BY <1>1, <1>2, <1>3, <1>4 DEF Numbered, Filled

\* The numbers of the packs that wait, and of those that were sent.
LEMMA PackTypes ==
    ASSUME TypeOK, Numbered
    PROVE  /\ Len(posted) \in Nat
           /\ queue \in Seq(Handlers) /\ m_send_buffer \in Seq(Packs) /\ delivered \in Seq(Packs)
           /\ \A i \in 1..Len(queue) : queue[i].pack \in Nat
           /\ \A i \in 1..Len(m_send_buffer) :
                 m_send_buffer[i].pack \in Nat /\ m_send_buffer[i].pack <= Len(posted)
           /\ \A i \in 1..Len(delivered) :
                 delivered[i].pack \in Nat /\ delivered[i].pack <= Len(posted)
           /\ \A i \in 1..Len(queue) : queue[i].op = "push" => queue[i].pack <= Len(posted)
<1>1. /\ Len(posted) \in Nat
      /\ queue \in Seq(Handlers) /\ m_send_buffer \in Seq(Packs) /\ delivered \in Seq(Packs)
  BY DEF TypeOK
<1>2. \A i \in 1..Len(queue) : queue[i].pack \in Nat
  <2>1. \A i \in 1..Len(queue) : queue[i] \in Handlers
    BY <1>1
  <2> QED
    BY <2>1 DEF Handlers
<1>3. \A x : Filled(x) => x.pack \in Nat /\ x.pack <= Len(posted)
  BY <1>1 DEF Filled
<1> QED
  BY <1>1, <1>2, <1>3 DEF Numbered

\* Packs are pushed in the order of their numbers.
LEMMA PushesOrdered ==
    ASSUME TypeOK, Numbered, Ordered, [Next]_vars
    PROVE  \A i, j \in 1..Len(queue') :
              queue'[i].op = "push" /\ queue'[j].op = "push" /\ i < j
                 => queue'[i].pack < queue'[j].pack
<1> SUFFICES ASSUME NEW i \in 1..Len(queue'), NEW j \in 1..Len(queue'),
                    queue'[i].op = "push", queue'[j].op = "push", i < j
             PROVE  queue'[i].pack < queue'[j].pack
  OBVIOUS
<1>0. \A a, b \in 1..Len(queue) :
         queue[a].op = "push" /\ queue[b].op = "push" /\ a < b => queue[a].pack < queue[b].pack
  BY DEF Ordered
<1>1. CASE queue' = queue
  BY <1>0, <1>1
<1>2. ASSUME NEW op, Runs(op), queue' = Tail(queue)
      PROVE  queue'[i].pack < queue'[j].pack
  <2>1. /\ i + 1 \in 1..Len(queue) /\ queue'[i] = queue[i + 1]
        /\ j + 1 \in 1..Len(queue) /\ queue'[j] = queue[j + 1]
    BY <1>2, Running
  <2> QED
    BY <1>0, <2>1
<1>3. ASSUME NEW h \in Handlers, Fresh(h), queue' = Append(queue, h)
      PROVE  queue'[i].pack < queue'[j].pack
  <2>1. /\ Len(queue) \in Nat /\ Len(queue') = Len(queue) + 1
        /\ \A k \in 1..Len(queue) : queue'[k] = queue[k]
        /\ queue'[Len(queue) + 1] = h
    BY <1>3, AppendAt DEF TypeOK
  <2>2. i \in 1..Len(queue) /\ queue'[i] = queue[i]
    BY <2>1
  <2>3. CASE j \in 1..Len(queue)
    BY <1>0, <2>1, <2>2, <2>3
  <2>4. CASE j = Len(queue) + 1
    <3>1. queue'[j].pack = Len(posted) + 1
      BY <1>3, <2>1, <2>4 DEF Fresh
    <3>2. queue[i].pack \in Nat /\ queue[i].pack <= Len(posted) /\ Len(posted) \in Nat
      BY <2>2, PackTypes
    <3> QED
      BY <2>2, <3>1, <3>2
  <2> QED
    BY <2>1, <2>3, <2>4
<1> QED
  BY <1>1, <1>2, <1>3, QueueChange

\* A pack that is pushed was pushed before, or is the newest.
LEMMA PushesOld ==
    ASSUME TypeOK, [Next]_vars, NEW j \in 1..Len(queue'), queue'[j].op = "push"
    PROVE  \/ \E k \in 1..Len(queue) : queue'[j] = queue[k]
           \/ queue'[j].pack = Len(posted) + 1
BY OldOrFresh DEF Fresh

\* While the buffer stays, no send begins.
LEMMA WritingMoves ==
    ASSUME TypeOK, [Next]_vars, writing = <<>>, writing' # <<>>
    PROVE  push_send_data \/ handle_send
<1> USE DEF acceptorVars, datagramVars, sendVars, userVars, tableVars, reports
<1> QED
  BY DEF Next, vars, start, IoThread, handle_recv, handle_close,
     Return, User, send_buffer_fill, UserCloses, recv_buffer_drop, DatagramArrives,
     ReceiveFails, SendCompletes

\* The send buffer is in order, and before what is still pushed.
LEMMA BufferOrdered ==
    ASSUME TypeOK, WriteToken, Addressed, Numbered, Ordered, [Next]_vars
    PROVE  /\ \A i, j \in 1..Len(m_send_buffer') :
                 i < j => m_send_buffer'[i].pack < m_send_buffer'[j].pack
           /\ \A i \in 1..Len(m_send_buffer'), j \in 1..Len(queue') :
                 queue'[j].op = "push" => m_send_buffer'[i].pack < queue'[j].pack
<1>0. /\ m_send_buffer \in Seq(Packs) /\ Len(m_send_buffer) \in Nat /\ Len(posted) \in Nat
      /\ \A i \in 1..Len(m_send_buffer) :
            m_send_buffer[i].pack \in Nat /\ m_send_buffer[i].pack <= Len(posted)
      /\ \A i, j \in 1..Len(m_send_buffer) : i < j => m_send_buffer[i].pack < m_send_buffer[j].pack
      /\ \A i \in 1..Len(m_send_buffer), j \in 1..Len(queue) :
            queue[j].op = "push" => m_send_buffer[i].pack < queue[j].pack
  BY PackTypes DEF TypeOK, Ordered
<1>1. ASSUME NEW i \in 1..Len(m_send_buffer), NEW j \in 1..Len(queue'), queue'[j].op = "push"
      PROVE  m_send_buffer[i].pack < queue'[j].pack
  BY <1>0, <1>1, PushesOld
<1>2. CASE m_send_buffer' = m_send_buffer
  BY <1>0, <1>1, <1>2
<1>3. ASSUME NEW x \in Packs, push_send_data, m_send_buffer' = Append(m_send_buffer, x),
             x.pack = queue[1].pack
      PROVE  /\ \A i, j \in 1..Len(m_send_buffer') :
                   i < j => m_send_buffer'[i].pack < m_send_buffer'[j].pack
             /\ \A i \in 1..Len(m_send_buffer'), j \in 1..Len(queue') :
                   queue'[j].op = "push" => m_send_buffer'[i].pack < queue'[j].pack
  <2>1. /\ Len(m_send_buffer') = Len(m_send_buffer) + 1
        /\ \A k \in 1..Len(m_send_buffer) : m_send_buffer'[k] = m_send_buffer[k]
        /\ m_send_buffer'[Len(m_send_buffer) + 1] = x
    BY <1>0, <1>3, AppendAt
  <2>2. \A i \in 1..Len(m_send_buffer') : i \in 1..Len(m_send_buffer) \/ i = Len(m_send_buffer) + 1
    BY <1>0, <2>1
  <2>3. /\ 1 \in 1..Len(queue) /\ queue[1].op = "push" /\ Len(queue) \in Nat
        /\ \A j \in 1..Len(queue') : j + 1 \in 1..Len(queue) /\ queue'[j] = queue[j + 1]
    BY <1>3, Running DEF push_send_data
  <2>4. ASSUME NEW i \in 1..Len(m_send_buffer'), NEW j \in 1..Len(m_send_buffer'), i < j
        PROVE  m_send_buffer'[i].pack < m_send_buffer'[j].pack
    <3>1. i \in 1..Len(m_send_buffer) /\ m_send_buffer'[i] = m_send_buffer[i]
      BY <1>0, <2>1, <2>4
    <3>2. CASE j \in 1..Len(m_send_buffer)
      BY <1>0, <2>1, <2>4, <3>1, <3>2
    <3>3. CASE j = Len(m_send_buffer) + 1
      BY <1>0, <1>3, <2>1, <2>3, <3>1, <3>3
    <3> QED
      BY <2>2, <3>2, <3>3
  <2>5. ASSUME NEW i \in 1..Len(m_send_buffer'), NEW j \in 1..Len(queue'), queue'[j].op = "push"
        PROVE  m_send_buffer'[i].pack < queue'[j].pack
    <3>1. CASE i \in 1..Len(m_send_buffer)
      BY <1>1, <2>1, <2>5, <3>1
    <3>2. CASE i = Len(m_send_buffer) + 1
      <4>1. j + 1 \in 1..Len(queue) /\ queue'[j] = queue[j + 1] /\ 1 < j + 1
        BY <2>3
      <4>2. queue[1].pack < queue[j + 1].pack
        BY <2>3, <2>5, <4>1 DEF Ordered
      <4> QED
        BY <1>3, <2>1, <3>2, <4>1, <4>2
    <3> QED
      BY <2>2, <3>1, <3>2
  <2> QED
    BY <2>4, <2>5
<1>4. ASSUME m_send_buffer # <<>>, m_send_buffer' = Tail(m_send_buffer)
      PROVE  /\ \A i, j \in 1..Len(m_send_buffer') :
                   i < j => m_send_buffer'[i].pack < m_send_buffer'[j].pack
             /\ \A i \in 1..Len(m_send_buffer'), j \in 1..Len(queue') :
                   queue'[j].op = "push" => m_send_buffer'[i].pack < queue'[j].pack
  <2>1. /\ Len(m_send_buffer') = Len(m_send_buffer) - 1
        /\ \A i \in 1..Len(m_send_buffer') : m_send_buffer'[i] = m_send_buffer[i + 1]
    BY <1>0, <1>4, TailAt
  <2>2. \A i \in 1..Len(m_send_buffer') : i + 1 \in 1..Len(m_send_buffer)
    BY <1>0, <2>1
  <2>3. ASSUME NEW i \in 1..Len(m_send_buffer'), NEW j \in 1..Len(m_send_buffer'), i < j
        PROVE  m_send_buffer'[i].pack < m_send_buffer'[j].pack
    <3>1. i + 1 < j + 1
      BY <2>3
    <3> QED
      BY <1>0, <2>1, <2>2, <3>1
  <2>4. ASSUME NEW i \in 1..Len(m_send_buffer'), NEW j \in 1..Len(queue'), queue'[j].op = "push"
        PROVE  m_send_buffer'[i].pack < queue'[j].pack
    BY <1>1, <2>1, <2>2, <2>4
  <2> QED
    BY <2>3, <2>4
<1> QED
  BY <1>2, <1>3, <1>4, BufferMoves

\* The packs that were sent are in order, and before those that wait.
LEMMA DeliveredOrdered ==
    ASSUME TypeOK, WriteToken, Addressed, Numbered, Ordered, [Next]_vars
    PROVE  /\ \A i, j \in 1..Len(delivered') :
                 i < j => delivered'[i].pack < delivered'[j].pack
           /\ \A i \in 1..Len(delivered'), j \in 1..Len(queue') :
                 queue'[j].op = "push" => delivered'[i].pack < queue'[j].pack
           /\ \A i \in 1..Len(delivered'), j \in 1..Len(m_send_buffer') :
                 j > 1 \/ writing' # <<>> => delivered'[i].pack < m_send_buffer'[j].pack
<1>0. /\ m_send_buffer \in Seq(Packs) /\ Len(m_send_buffer) \in Nat /\ Len(posted) \in Nat
      /\ delivered \in Seq(Packs) /\ Len(delivered) \in Nat
      /\ \A i \in 1..Len(delivered) : delivered[i].pack \in Nat /\ delivered[i].pack <= Len(posted)
      /\ \A i, j \in 1..Len(m_send_buffer) : i < j => m_send_buffer[i].pack < m_send_buffer[j].pack
      /\ \A i, j \in 1..Len(delivered) : i < j => delivered[i].pack < delivered[j].pack
      /\ \A i \in 1..Len(delivered), j \in 1..Len(queue) :
            queue[j].op = "push" => delivered[i].pack < queue[j].pack
      /\ \A i \in 1..Len(delivered), j \in 1..Len(m_send_buffer) :
            j > 1 \/ writing # <<>> => delivered[i].pack < m_send_buffer[j].pack
  BY PackTypes DEF TypeOK, Ordered
<1>1. ASSUME NEW i \in 1..Len(delivered), NEW j \in 1..Len(queue'), queue'[j].op = "push"
      PROVE  delivered[i].pack < queue'[j].pack
  <2>1. CASE \E k \in 1..Len(queue) : queue'[j] = queue[k]
    <3>1. PICK k \in 1..Len(queue) : queue'[j] = queue[k]
      BY <2>1
    <3>2. queue[k].op = "push"
      BY <1>1, <3>1
    <3>3. delivered[i].pack < queue[k].pack
      BY <1>0, <3>2
    <3> QED
      BY <3>1, <3>3
  <2>2. CASE queue'[j].pack = Len(posted) + 1
    <3>1. delivered[i].pack \in Nat /\ delivered[i].pack <= Len(posted) /\ Len(posted) \in Nat
      BY <1>0
    <3> QED
      BY <2>2, <3>1
  <2> QED
    BY <1>1, <2>1, <2>2, PushesOld
<1>2. CASE delivered' = delivered
  <2> SUFFICES ASSUME NEW i \in 1..Len(delivered), NEW j \in 1..Len(m_send_buffer'),
                      j > 1 \/ writing' # <<>>
               PROVE  delivered[i].pack < m_send_buffer'[j].pack
    BY <1>0, <1>1, <1>2
  <2>1. CASE ~push_send_data /\ ~handle_send
    <3>1. m_send_buffer' = m_send_buffer /\ (writing' # <<>> => writing # <<>>)
      BY <2>1, WritingMoves, BufferMoves
    <3> QED
      BY <1>0, <3>1
  <2>2. ASSUME NEW x \in Packs, push_send_data, m_send_buffer' = Append(m_send_buffer, x),
               x.pack = queue[1].pack
        PROVE  delivered[i].pack < m_send_buffer'[j].pack
    <3>1. /\ Len(m_send_buffer') = Len(m_send_buffer) + 1
          /\ \A k \in 1..Len(m_send_buffer) : m_send_buffer'[k] = m_send_buffer[k]
          /\ m_send_buffer'[Len(m_send_buffer) + 1] = x
      BY <1>0, <2>2, AppendAt
    <3>2. 1 \in 1..Len(queue) /\ queue[1].op = "push"
      BY <2>2, Running DEF push_send_data
    <3>3. CASE j = Len(m_send_buffer) + 1
      BY <1>0, <2>2, <3>1, <3>2, <3>3
    <3>4. CASE j \in 1..Len(m_send_buffer)
      <4>1. m_send_buffer # <<>>
        BY <3>4
      <4>2. writing' = writing
        BY <2>2, <4>1 DEF push_send_data, need_send
      <4> QED
        BY <1>0, <3>1, <3>4, <4>2
    <3> QED
      BY <1>0, <3>1, <3>3, <3>4
  <2>3. ASSUME m_send_buffer # <<>>, m_send_buffer' = Tail(m_send_buffer)
        PROVE  delivered[i].pack < m_send_buffer'[j].pack
    <3>1. Len(m_send_buffer') = Len(m_send_buffer) - 1 /\ m_send_buffer'[j] = m_send_buffer[j + 1]
      BY <1>0, <2>3, TailAt
    <3>2. j + 1 \in 1..Len(m_send_buffer) /\ j + 1 > 1
      BY <1>0, <3>1
    <3> QED
      BY <1>0, <3>1, <3>2
  <2> QED
    BY <2>1, <2>2, <2>3, BufferMoves
<1>3. ASSUME m_send_buffer # <<>>, m_send_buffer' = m_send_buffer,
             writing # <<>>, writing' = <<>>,
             delivered' = Append(delivered, m_send_buffer[1]), m_send_buffer[1] \in Packs
      PROVE  /\ \A i, j \in 1..Len(delivered') :
                   i < j => delivered'[i].pack < delivered'[j].pack
             /\ \A i \in 1..Len(delivered'), j \in 1..Len(queue') :
                   queue'[j].op = "push" => delivered'[i].pack < queue'[j].pack
             /\ \A i \in 1..Len(delivered'), j \in 1..Len(m_send_buffer') :
                   j > 1 \/ writing' # <<>> => delivered'[i].pack < m_send_buffer'[j].pack
  <2>1. 1 \in 1..Len(m_send_buffer)
    BY <1>0, <1>3
  <2>2. /\ Len(delivered') = Len(delivered) + 1
        /\ \A k \in 1..Len(delivered) : delivered'[k] = delivered[k]
        /\ delivered'[Len(delivered) + 1] = m_send_buffer[1]
    BY <1>0, <1>3, AppendAt
  <2>3. \A i \in 1..Len(delivered') : i \in 1..Len(delivered) \/ i = Len(delivered) + 1
    BY <1>0, <2>2
  <2>4. ASSUME NEW i \in 1..Len(delivered'), NEW j \in 1..Len(delivered'), i < j
        PROVE  delivered'[i].pack < delivered'[j].pack
    <3>1. i \in 1..Len(delivered) /\ delivered'[i] = delivered[i]
      BY <1>0, <2>2, <2>4
    <3>2. CASE j \in 1..Len(delivered)
      BY <1>0, <2>2, <2>4, <3>1, <3>2
    <3>3. CASE j = Len(delivered) + 1
      BY <1>0, <1>3, <2>1, <2>2, <3>1, <3>3
    <3> QED
      BY <2>3, <3>2, <3>3
  <2>5. ASSUME NEW i \in 1..Len(delivered'), NEW j \in 1..Len(queue'), queue'[j].op = "push"
        PROVE  delivered'[i].pack < queue'[j].pack
    <3>1. CASE i \in 1..Len(delivered)
      BY <1>1, <2>2, <2>5, <3>1
    <3>2. CASE i = Len(delivered) + 1
      BY <1>3, <2>1, <2>2, <2>5, <3>2, BufferOrdered
    <3> QED
      BY <2>3, <3>1, <3>2
  <2>6. ASSUME NEW i \in 1..Len(delivered'), NEW j \in 1..Len(m_send_buffer), j > 1
        PROVE  delivered'[i].pack < m_send_buffer[j].pack
    BY <1>0, <2>1, <2>2, <2>3, <2>6
  <2> QED
    BY <1>3, <2>4, <2>5, <2>6
<1> QED
  BY <1>2, <1>3, DeliveredMoves

\* Every step keeps the packs in order.
LEMMA OrderedStep ==
    ASSUME TypeOK, WriteToken, Addressed, Numbered, Ordered, [Next]_vars
    PROVE  Ordered'
BY PushesOrdered, BufferOrdered, DeliveredOrdered DEF Ordered

-----------------------------------------------------------------------------
(* The datagrams.                                                          *)

\* The last datagram is still in hand.
Unshown == ~NoneIn(queue, {"recv"}) \/ callback.name = "on_accept"

\* That is what InHand says, before and after a step.
LEMMA InHandIs ==
    /\ \A d : InHand(d) <=> d = m_recv_data /\ Unshown
    /\ \A d : InHand(d)' <=> d = m_recv_data' /\ Unshown'
<1>1. Waiting("recv") <=> ~NoneIn(queue, {"recv"})
  BY DEF Waiting, Places, NoneIn
<1>2. Waiting("recv")' <=> ~NoneIn(queue', {"recv"})
  BY DEF Waiting, Places, NoneIn
<1> QED
  BY <1>1, <1>2 DEF InHand, Unshown

\* What Handed says, in parts.
LEMMA HandedParts ==
    ASSUME TypeOK, Handed
    PROVE  /\ m_recv_data \in {Nothing, Len(arrived)} /\ Len(arrived) \in Nat
           /\ Unshown /\ m_recv_data # Nothing =>
                 /\ arrived[m_recv_data] = m_peer_endpoint
                 /\ \A c \in Known : ~Shows(c, m_recv_data)
           /\ \A c \in Known : \A i \in 1..Len(connections[c].shown) :
                 connections[c].shown[i] \in 0..Len(arrived)
           /\ \A c \in Known : \A i \in 1..Len(connections[c].shown) :
                 connections[c].shown[i] # Nothing =>
                    arrived[connections[c].shown[i]] = connections[c].endpoint
           /\ \A c \in Known : \A i, j \in 1..Len(connections[c].shown) :
                 connections[c].shown[i] # Nothing /\ j < i =>
                    connections[c].shown[j] < connections[c].shown[i]
           /\ \A d \in 1..Len(arrived) :
                 /\ (d = m_recv_data /\ Unshown) \/ \E c \in Known : Shows(c, d)
                 /\ \A b, c \in Known : Shows(b, d) /\ Shows(c, d) => b = c
           /\ \A c \in Known : connections[c].shown \in Seq(Nat) /\ Len(connections[c].shown) \in Nat
<1>1. \A c \in Known : connections[c].shown \in Seq(Nat) /\ Len(connections[c].shown) \in Nat
  BY KnownEndpoint DEF Connections
<1>2. Len(arrived) \in Nat
  BY DEF TypeOK
<1> QED
  BY <1>1, <1>2, InHandIs DEF Handed, Demultiplexed

\* And what has to be shown of a step.
LEMMA HandedAgain ==
    ASSUME m_recv_data' \in {Nothing, Len(arrived')},
           Unshown' /\ m_recv_data' # Nothing =>
                 /\ arrived'[m_recv_data'] = m_peer_endpoint'
                 /\ \A c \in Known' : ~Shows(c, m_recv_data)',
           \A c \in Known' : \A i \in 1..Len(connections'[c].shown) :
                 connections'[c].shown[i] \in 0..Len(arrived'),
           \A c \in Known' : \A i \in 1..Len(connections'[c].shown) :
                 connections'[c].shown[i] # Nothing =>
                    arrived'[connections'[c].shown[i]] = connections'[c].endpoint,
           \A c \in Known' : \A i, j \in 1..Len(connections'[c].shown) :
                 connections'[c].shown[i] # Nothing /\ j < i =>
                    connections'[c].shown[j] < connections'[c].shown[i],
           \A d \in 1..Len(arrived') :
                 /\ (d = m_recv_data' /\ Unshown') \/ \E c \in Known' : Shows(c, d)'
                 /\ \A b, c \in Known' : Shows(b, d)' /\ Shows(c, d)' => b = c
    PROVE  Handed'
BY InHandIs DEF Handed, Demultiplexed

\* Nothing arrives and nothing is shown: connections may be made and end.
LEMMA HandedSame ==
    ASSUME TypeOK, Handed, UNCHANGED <<arrived, m_recv_data, m_peer_endpoint>>,
           Unshown' <=> Unshown,
           \A c \in Known :
              /\ c \in Known' /\ connections'[c].endpoint = connections[c].endpoint
              /\ connections'[c].shown = connections[c].shown,
           \A c \in Known' : c \in Known \/ connections'[c].shown = <<>>
    PROVE  Handed'
<1>1. \A d : \A c \in Known' : Shows(c, d)' => c \in Known /\ Shows(c, d)
  BY DEF Shows
<1>2. \A d : \A c \in Known : Shows(c, d) => c \in Known' /\ Shows(c, d)'
  BY DEF Shows
<1>3. \A c \in Known' : \A i \in 1..Len(connections'[c].shown) : c \in Known
  OBVIOUS
<1>4. \A c \in Known' : ~Shows(c, m_recv_data)' <=> (c \in Known => ~Shows(c, m_recv_data))
  BY <1>1, <1>2 DEF Shows
<1> QED
  BY <1>1, <1>2, <1>3, <1>4, HandedParts, HandedAgain

\* A receive that completes finds nothing in hand.
LEMMA NothingInHand ==
    ASSUME TypeOK, ReadToken, DatagramArrives \/ ReceiveFails
    PROVE  ~Unshown
<1>1. reading > 0
  BY DEF DatagramArrives, ReceiveFails
<1> QED
  BY <1>1 DEF ReadToken, Holding, Unshown, TypeOK

\* The datagram that arrives is in hand, and no connection has shown it.
LEMMA HandedArrives ==
    ASSUME TypeOK, ReadToken, Handed, DatagramArrives
    PROVE  Handed'
<1> DEFINE n == Len(arrived) + 1
<1>0. /\ Len(arrived) \in Nat /\ arrived \in Seq(Endpoints) /\ ~Unshown
      /\ UNCHANGED connections /\ Known' = Known
  BY NothingInHand DEF TypeOK, DatagramArrives, tableVars, Known
<1>1. PICK e \in Endpoints : arrived' = Append(arrived, e) /\ m_peer_endpoint' = e
  BY DEF DatagramArrives
<1>2. /\ Len(arrived') = n /\ arrived'[n] = e
      /\ \A i \in 1..Len(arrived) : arrived'[i] = arrived[i]
  BY <1>0, <1>1, AppendAt
<1>3. m_recv_data' = n /\ n # Nothing
  BY <1>0 DEF DatagramArrives, Nothing
<1>4. Unshown'
  <2>1. queue' = Append(queue, Handler("recv", NoEndpoint, 0))
    BY DEF DatagramArrives, Post
  <2>2. ~NoneIn(queue', {"recv"})
    BY <2>1, Posting DEF Ops
  <2> QED
    BY <2>2 DEF Unshown
<1>5. \A d : \A c \in Known : Shows(c, d)' <=> Shows(c, d)
  BY <1>0 DEF Shows
<1>6. \A d : \A c \in Known : Shows(c, d) => d \in 0..Len(arrived)
  BY HandedParts DEF Shows
<1>7. \A c \in Known : ~Shows(c, n)
  BY <1>0, <1>6
<1>8. ASSUME NEW d \in 1..Len(arrived')
      PROVE  /\ (d = m_recv_data' /\ Unshown') \/ \E c \in Known' : Shows(c, d)'
             /\ \A b, c \in Known' : Shows(b, d)' /\ Shows(c, d)' => b = c
  <2>1. CASE d = n
    BY <1>0, <1>3, <1>4, <1>5, <1>7, <2>1
  <2>2. CASE d # n
    <3>1. d \in 1..Len(arrived)
      BY <1>0, <1>2, <2>2
    <3>2. /\ \E c \in Known : Shows(c, d)
          /\ \A b, c \in Known : Shows(b, d) /\ Shows(c, d) => b = c
      BY <1>0, <3>1, HandedParts
    <3> QED
      BY <1>0, <1>5, <3>2
  <2> QED
    BY <2>1, <2>2
<1>9. \A c \in Known : \A i \in 1..Len(connections[c].shown) :
         /\ connections[c].shown[i] \in 0..Len(arrived')
         /\ connections[c].shown[i] # Nothing =>
               arrived'[connections[c].shown[i]] = connections[c].endpoint
  <2> SUFFICES ASSUME NEW c \in Known, NEW i \in 1..Len(connections[c].shown)
               PROVE  /\ connections[c].shown[i] \in 0..Len(arrived')
                      /\ connections[c].shown[i] # Nothing =>
                            arrived'[connections[c].shown[i]] = connections[c].endpoint
    OBVIOUS
  <2>1. /\ connections[c].shown[i] \in 0..Len(arrived)
        /\ connections[c].shown[i] # Nothing =>
              arrived[connections[c].shown[i]] = connections[c].endpoint
    BY HandedParts
  <2>2. connections[c].shown[i] # Nothing => connections[c].shown[i] \in 1..Len(arrived)
    BY <1>0, <2>1 DEF Nothing
  <2> QED
    BY <1>0, <1>2, <2>1, <2>2
<1>10. \A c \in Known : \A i, j \in 1..Len(connections[c].shown) :
          connections[c].shown[i] # Nothing /\ j < i =>
             connections[c].shown[j] < connections[c].shown[i]
  BY HandedParts
<1> HIDE DEF n
<1>11. arrived'[m_recv_data'] = m_peer_endpoint' /\ \A c \in Known' : ~Shows(c, m_recv_data)'
  BY <1>0, <1>1, <1>2, <1>3, <1>5, <1>7
<1>12. m_recv_data' \in {Nothing, Len(arrived')}
  BY <1>2, <1>3
<1> QED
  BY <1>0, <1>8, <1>9, <1>10, <1>11, <1>12, HandedAgain

\* A receive that fails brings nothing.
LEMMA HandedFails ==
    ASSUME TypeOK, ReadToken, Handed, ReceiveFails
    PROVE  Handed'
<1>0. /\ ~Unshown /\ UNCHANGED <<connections, arrived>> /\ Known' = Known
      /\ m_recv_data' = Nothing
  BY NothingInHand DEF ReceiveFails, tableVars, Known
<1>1. \A d : \A c \in Known : Shows(c, d)' <=> Shows(c, d)
  BY <1>0 DEF Shows
<1>2. \A d \in 1..Len(arrived') :
         /\ (d = m_recv_data' /\ Unshown') \/ \E c \in Known' : Shows(c, d)'
         /\ \A b, c \in Known' : Shows(b, d)' /\ Shows(c, d)' => b = c
  BY <1>0, <1>1, HandedParts
<1> QED
  BY <1>0, <1>2, HandedParts, HandedAgain

\* The datagram in hand is shown by a connection of the peer it came from.
LEMMA HandedShown ==
    ASSUME TypeOK, Handed, NEW c \in Known, Show(c), connections[c].endpoint = m_peer_endpoint,
           UNCHANGED <<arrived, m_recv_data, m_peer_endpoint>>, Unshown, ~Unshown'
    PROVE  Handed'
<1> DEFINE s == connections[c].shown
           d0 == m_recv_data
<1>0. /\ Len(arrived) \in Nat /\ d0 \in Nat /\ s \in Seq(Nat) /\ Len(s) \in Nat
      /\ d0 \in {Nothing, Len(arrived)}
  BY HandedParts DEF TypeOK
<1>1. /\ Known' = Known
      /\ \A b \in Known :
            /\ connections'[b].endpoint = connections[b].endpoint
            /\ b # c => connections'[b].shown = connections[b].shown
      /\ connections'[c].shown = Append(s, d0)
  BY Showing
<1>2. /\ Len(connections'[c].shown) = Len(s) + 1
      /\ \A i \in 1..Len(s) : connections'[c].shown[i] = s[i]
      /\ connections'[c].shown[Len(s) + 1] = d0
  <2> HIDE DEF s, d0
  <2> QED
    BY <1>0, <1>1, AppendAt
<1>3. \A i \in 1..Len(connections'[c].shown) : i \in 1..Len(s) \/ i = Len(s) + 1
  BY <1>0, <1>2
<1>4. Len(s) + 1 \in 1..Len(connections'[c].shown) /\ \A i \in 1..Len(s) : i \in 1..Len(connections'[c].shown)
  BY <1>0, <1>2
<1>5. ASSUME NEW b \in Known, NEW d PROVE Shows(b, d)' <=> Shows(b, d) \/ (b = c /\ d = d0)
  <2>1. CASE b = c
    BY <1>2, <1>3, <1>4, <2>1 DEF Shows
  <2>2. CASE b # c
    BY <1>1, <2>2 DEF Shows
  <2> QED
    BY <2>1, <2>2
<1>6. ASSUME NEW b \in Known, NEW i \in 1..Len(connections'[b].shown)
      PROVE  \/ b = c /\ i = Len(s) + 1 /\ connections'[b].shown[i] = d0
             \/ i \in 1..Len(connections[b].shown) /\ connections'[b].shown[i] = connections[b].shown[i]
  BY <1>1, <1>2, <1>3
<1>7. /\ d0 # Nothing => arrived[d0] = m_peer_endpoint /\ \A b \in Known : ~Shows(b, d0)
      /\ d0 \in 0..Len(arrived)
  BY <1>0, HandedParts DEF Nothing
<1>8. ASSUME NEW d \in 1..Len(arrived)
      PROVE  /\ \E b \in Known : Shows(b, d)'
             /\ \A a, b \in Known : Shows(a, d)' /\ Shows(b, d)' => a = b
  <2>1. CASE d = d0
    <3>1. d0 # Nothing
      BY <2>1 DEF Nothing
    <3> QED
      BY <1>5, <1>7, <2>1, <3>1
  <2>2. CASE d # d0
    <3>1. /\ \E b \in Known : Shows(b, d)
          /\ \A a, b \in Known : Shows(a, d) /\ Shows(b, d) => a = b
      BY <2>2, HandedParts
    <3> QED
      BY <1>5, <2>2, <3>1
  <2> QED
    BY <2>1, <2>2
<1>9. ASSUME NEW b \in Known, NEW i \in 1..Len(connections'[b].shown)
      PROVE  /\ connections'[b].shown[i] \in 0..Len(arrived)
             /\ connections'[b].shown[i] # Nothing =>
                   arrived[connections'[b].shown[i]] = connections'[b].endpoint
  <2>1. connections'[b].endpoint = connections[b].endpoint
    BY <1>1
  <2>2. CASE b = c /\ i = Len(s) + 1 /\ connections'[b].shown[i] = d0
    BY <1>7, <2>1, <2>2
  <2>3. CASE i \in 1..Len(connections[b].shown) /\ connections'[b].shown[i] = connections[b].shown[i]
    BY <2>1, <2>3, HandedParts
  <2> QED
    BY <1>6, <2>2, <2>3
<1>10. ASSUME NEW b \in Known, NEW i \in 1..Len(connections'[b].shown),
              NEW j \in 1..Len(connections'[b].shown),
              connections'[b].shown[i] # Nothing, j < i
       PROVE  connections'[b].shown[j] < connections'[b].shown[i]
  <2>1. CASE b = c /\ i = Len(s) + 1
    <3>1. j \in 1..Len(s) /\ connections'[c].shown[j] = s[j]
      BY <1>0, <1>2, <1>10, <2>1
    <3>2. s[j] \in 0..Len(arrived)
      BY <3>1, HandedParts
    <3>3. d0 = Len(arrived) /\ d0 # Nothing /\ ~Shows(c, d0) /\ connections'[c].shown[i] = d0
      BY <1>0, <1>2, <1>7, <1>10, <2>1
    <3>4. s[j] # d0
      BY <3>1, <3>3 DEF Shows
    <3> HIDE DEF s, d0
    <3>5. s[j] < d0
      BY <1>0, <3>2, <3>3, <3>4
    <3> QED
      BY <2>1, <3>1, <3>3, <3>5
  <2>2. CASE ~(b = c /\ i = Len(s) + 1)
    <3>1. i \in 1..Len(connections[b].shown) /\ connections'[b].shown[i] = connections[b].shown[i]
      BY <1>6, <2>2
    <3>2. Len(connections[b].shown) \in Nat
      BY HandedParts
    <3>3. j \in 1..Len(connections[b].shown) /\ connections'[b].shown[j] = connections[b].shown[j]
      BY <1>6, <1>10, <3>1, <3>2
    <3> QED
      BY <1>10, <3>1, <3>3, HandedParts
  <2> QED
    BY <2>1, <2>2
<1> HIDE DEF s, d0
<1> QED
  BY <1>0, <1>1, <1>8, <1>9, <1>10, HandedAgain DEF d0

\* Every step keeps the datagrams.
LEMMA HandedStep ==
    ASSUME TypeOK, ReadToken, Addressed, Table, Introducing, Handed, [Next]_vars
    PROVE  Handed'
<1> USE DEF acceptorVars, datagramVars, sendVars, userVars, tableVars, reports
<1>1. CASE DatagramArrives
  BY <1>1, HandedArrives
<1>2. CASE ReceiveFails
  BY <1>2, HandedFails
<1>3. CASE Elsewhere /\ ~DatagramArrives /\ ~ReceiveFails
  <2>1. UNCHANGED <<arrived, m_recv_data, m_peer_endpoint>>
    BY <1>3 DEF Elsewhere, vars, start, push_send_data, handle_send, User,
       send_buffer_fill, UserCloses, recv_buffer_drop, SendCompletes
  <2>2. NoneIn(queue', {"recv"}) <=> NoneIn(queue, {"recv"})
    <3>1. \E ops : ops \subseteq Ops /\ "recv" \notin ops /\ QueueMoves(ops)
      BY <1>3, QueueSteps DEF Ops, Elsewhere
    <3> QED
      BY <3>1, QueueMovesOn
  <2>3. /\ SameConnections /\ callback' = callback
        /\ \A b \in Known : connections'[b].shown = connections[b].shown
    BY <1>3, ElsewhereSame
  <2> QED
    BY <2>1, <2>2, <2>3, HandedSame DEF SameConnections, Unshown
<1>4. CASE handle_recv
  <2>1. /\ UNCHANGED <<arrived, m_recv_data, m_peer_endpoint>> /\ Unshown
        /\ NoneIn(queue', {"recv"})
    BY <1>4, RecvMoves, Running DEF handle_recv, Unshown, ReadToken
  <2>2. ASSUME connections' = Append(connections, New),
               callback' = Callback("on_accept", Len(connections) + 1)
        PROVE  Handed'
    <3>1. Unshown'
      BY <2>2 DEF Unshown, Callback
    <3>2. /\ \A b \in Known : b \in Known' /\ connections'[b] = connections[b]
          /\ \A b \in Known' : b \in Known \/ connections'[b].shown = <<>>
      BY <1>4, <2>2, RecvMoves, Making
    <3> QED
      BY <2>1, <3>1, <3>2, HandedSame
  <2>3. ASSUME NEW c \in Known, Show(c), connections[c].endpoint = m_peer_endpoint
        PROVE  Handed'
    <3>1. ~Unshown'
      BY <2>1, <2>3 DEF Show, Unshown, Callback
    <3> QED
      BY <2>1, <2>3, <3>1, HandedShown
  <2> QED
    BY <1>4, <2>2, <2>3, RecvMoves
<1>5. CASE handle_close
  <2>1. NoneIn(queue', {"recv"}) <=> NoneIn(queue, {"recv"})
    BY <1>5, QueueSteps, QueueMovesOn DEF Ops
  <2>2. UNCHANGED <<connections, arrived, m_recv_data, m_peer_endpoint>> /\ Known' = Known
    BY <1>5, CloseMoves DEF Known
  <2>3. callback.name # "on_accept" /\ callback'.name # "on_accept"
    BY <1>5, CloseMoves DEF Callback, Quiet
  <2> QED
    BY <2>1, <2>2, <2>3, HandedSame DEF Unshown
<1>6. ASSUME NEW c \in Known, Return, UNCHANGED datagramVars
      PROVE  NoneIn(queue', {"recv"}) <=> NoneIn(queue, {"recv"})
  BY <1>6, QueueSteps, QueueMovesOn DEF Ops
<1>7. ASSUME NEW c \in Known, NEW kept \in BOOLEAN, ReturnFromAccept(c, kept), Return,
             UNCHANGED datagramVars
      PROVE  Handed'
  <2>1. Show(c) /\ callback.name = "on_accept" /\ callback.conn = c
    BY <1>7 DEF ReturnFromAccept, Callback
  <2>2. Unshown /\ connections[c].endpoint = m_peer_endpoint /\ NoneIn(queue, {"recv"})
    BY <2>1 DEF Unshown, Introducing, ReadToken, Holding
  <2>3. ~Unshown'
    BY <1>6, <1>7, <2>1, <2>2 DEF Show, Unshown, Callback
  <2> QED
    BY <1>7, <2>1, <2>2, <2>3, HandedShown
<1>8. ASSUME NEW c \in Known, NEW kept \in BOOLEAN, ReturnFromRecv(c, kept), Return,
             UNCHANGED datagramVars
      PROVE  Handed'
  <2>1. UNCHANGED connections /\ Known' = Known
    BY <1>8 DEF ReturnFromRecv, Known
  <2>2. callback.name # "on_accept" /\ callback'.name # "on_accept"
    BY <1>8 DEF ReturnFromRecv, Callback, Quiet
  <2> QED
    BY <1>6, <1>8, <2>1, <2>2, HandedSame DEF Unshown
<1>9. ASSUME NEW c \in Known, ReturnFromClose(c), Return, UNCHANGED datagramVars
      PROVE  Handed'
  <2>1. /\ Known' = Known
        /\ \A b \in Known :
              /\ connections'[b].endpoint = connections[b].endpoint
              /\ connections'[b].shown = connections[b].shown
    BY <1>9, Stopping DEF ReturnFromClose
  <2>2. callback.name # "on_accept" /\ callback'.name # "on_accept"
    BY <1>9 DEF ReturnFromClose, Callback, Quiet
  <2> QED
    BY <1>6, <1>9, <2>1, <2>2, HandedSame DEF Unshown
<1> QED
  BY <1>1, <1>2, <1>3, <1>4, <1>5, <1>7, <1>8, <1>9, TableMoves

-----------------------------------------------------------------------------
(* The theorems.                                                           *)

\* No peer, nothing outstanding, nothing said: the invariant holds.
LEMMA InitInv == Init => IInv
<1> SUFFICES ASSUME Init PROVE IInv
  OBVIOUS
<1>1. TypeOK
  <2>1. /\ connections \in Seq(Connections) /\ m_send_buffer \in Seq(Packs)
        /\ writing \in Seq(Packs) /\ delivered \in Seq(Packs) /\ queue \in Seq(Handlers)
        /\ arrived \in Seq(Endpoints) /\ posted \in Seq(Nat) /\ asked \in Seq(Nat)
        /\ closed \in Seq(Nat)
    BY DEF Init
  <2>2. m_connection_map \in [Endpoints -> Nat]
    BY DEF Init, None
  <2>3. callback \in [name : {"none", "on_accept", "on_recv", "on_close"}, conn : Nat]
    BY DEF Init, Quiet, None
  <2> QED
    BY <2>1, <2>2, <2>3 DEF Init, TypeOK, Nothing
<1>2. /\ Len(queue) = 0 /\ Len(writing) = 0 /\ Len(delivered) = 0 /\ Len(m_send_buffer) = 0
      /\ Len(closed) = 0 /\ Len(posted) = 0 /\ Len(arrived) = 0 /\ Known = {}
  BY DEF Init, Known
<1>3. \A ops : NoneIn(queue, ops) /\ OneIn(queue, ops)
  BY <1>2 DEF NoneIn, OneIn
<1>4. callback.name = "none"
  BY DEF Init, Quiet
<1>5. ReadToken /\ WriteToken /\ Addressed
  BY <1>2, <1>3, <1>4 DEF Init, ReadToken, WriteToken, Addressed, Holding
<1>6. Table /\ Ended /\ Introducing /\ Refusing
  BY <1>2, <1>4 DEF Init, Table, MapExact, Ended, Introducing, Refusing, RefusedIsLast
<1>7. Handed
  BY <1>2, <1>3, <1>4 DEF Init, Handed, Demultiplexed, InHand, Waiting, Places, Nothing
<1>8. Numbered /\ Ordered
  BY <1>2 DEF Numbered, Ordered
<1> QED
  BY <1>1, <1>5, <1>6, <1>7, <1>8 DEF IInv

\* The inductive invariant holds in every state: the one receive and the one
\* send, the table, what each connection has shown, and the order of the packs.
THEOREM Inductive == Spec => []IInv
<1>1. IInv /\ [Next]_vars => IInv'
  BY TypeStep, ReadStep, WriteStep, AddressedStep, TableStep, EndedStep, IntroducingStep,
     RefusingStep, HandedStep, NumberedStep, OrderedStep
     DEF IInv
<1> QED
  BY <1>1, InitInv, PTL DEF Spec

\* Every variable keeps its type: every handler that needs an endpoint has one,
\* and no handler removes a pack from an empty buffer.
THEOREM TypeCorrect == Spec => []TypeOK
BY Inductive, PTL DEF IInv

\* A connection runs exactly as long as the endpoint of its peer leads to it.
THEOREM AlwaysMapExact == Spec => []MapExact
<1>1. IInv => MapExact
  BY DEF IInv, Table
<1> QED
  BY <1>1, Inductive, PTL

\* A running acceptor has its one receive, unless a callback holds it.
THEOREM AlwaysReceiveToken == Spec => []ReceiveToken
<1>1. ASSUME IInv PROVE ReceiveToken
  <2>1. ReadToken /\ reading \in Nat
    BY <1>1 DEF IInv, TypeOK
  <2>2. Cardinality(Places("recv")) = IF NoneIn(queue, {"recv"}) THEN 0 ELSE 1
    BY <2>1, CountIn DEF ReadToken, Places
  <2> QED
    BY <2>1, <2>2 DEF ReceiveToken, ReadToken, Holding
<1> QED
  BY <1>1, Inductive, PTL

\* Every datagram is shown once, by a connection to its sender, in the order of
\* arrival.
THEOREM AlwaysDemultiplexed == Spec => []Demultiplexed
<1>1. IInv => Demultiplexed
  BY DEF IInv, Handed
<1> QED
  BY <1>1, Inductive, PTL

\* on_close is called once, and no callback follows it.
THEOREM AlwaysOnCloseIsLast == Spec => []OnCloseIsLast
<1>1. ASSUME IInv PROVE OnCloseIsLast
  <2>1. Table /\ Ended /\ TypeOK
    BY <1>1 DEF IInv
  <2>2. ASSUME NEW i \in 1..Len(closed), callback.conn = closed[i]
        PROVE  callback.name = "on_close"
    <3>1. closed[i] \in Known /\ closed[i] # None
      BY <2>1 DEF Ended, Known, None
    <3>2. callback # Quiet
      BY <2>2, <3>1 DEF Quiet
    <3>3. connections[closed[i]].m_running
      BY <2>1, <2>2, <3>2 DEF Table
    <3>4. callback = Callback("on_close", closed[i])
      BY <2>1, <3>3 DEF Ended
    <3> QED
      BY <3>4 DEF Callback
  <2> QED
    BY <2>1, <2>2 DEF Ended, OnCloseIsLast
<1> QED
  BY <1>1, Inductive, PTL

\* A refused connection shows nothing more, however many datagrams of its peer
\* have arrived meanwhile.
THEOREM AlwaysRefusedIsLast == Spec => []RefusedIsLast
<1>1. IInv => RefusedIsLast
  BY DEF IInv, Refusing
<1> QED
  BY <1>1, Inductive, PTL

\* The packs of all connections go out in the order they were filled, each to
\* its connection's peer.
THEOREM AlwaysDeliveredInOrder == Spec => []DeliveredInOrder
<1>1. ASSUME IInv PROVE DeliveredInOrder
  <2>1. Numbered /\ Ordered
    BY <1>1 DEF IInv
  <2>2. ASSUME NEW i \in 1..Len(delivered), i > 1
        PROVE  delivered[i - 1].pack < delivered[i].pack
    <3>1. i - 1 \in 1..Len(delivered) /\ i - 1 < i
      BY <2>2
    <3> QED
      BY <2>1, <3>1 DEF Ordered
  <2>3. \A i \in 1..Len(delivered) :
           delivered[i].endpoint = connections[posted[delivered[i].pack]].endpoint
    BY <2>1 DEF Numbered, Filled
  <2> QED
    BY <2>2, <2>3 DEF DeliveredInOrder
<1> QED
  BY <1>1, Inductive, PTL

=============================================================================
