# A TLA+ model of boost_net

boost_net is a C++11 library that wraps boost.asio's TCP, TLS and UDP sockets
behind callbacks. This directory holds TLA+ modules for its core, TLC
configurations that check them, and proofs that TLAPS checks. Line numbers are
those of the repository (`inc/tcp_connection.h:332` is line 332 of that file).

    tlc -config TcpSafety.cfg MCTcpConnection     # a run (PROJECT.json lists all)
    tlapm TcpConnectionProofs.tla                 # the proofs of a component

The modules with proofs are `TcpConnectionProofs`, `TcpStreamProofs`,
`TcpContractProofs`, `UdpActiveConnectionProofs`, `UdpAcceptorProofs`,
`ManagerProofs` and `ProxyPairProofs`, and `QueueLemmas`, which they share;
each takes one to a few minutes.

## The system

| Component | State | Operations | Module |
|---|---|---|---|
| One TCP connection: `TcpConnection<Derived, SocketType>`, `TcpSession`, `SslSession` | `m_running`, the socket, receive buffer with water mark, deque of packs to send, whether it is plain or SSL | `handle_resolve`, `handle_connect`, `start`, `handle_handshake`, `stop`, `push_send_data`, `handle_recv`, `handle_send`; from the user `send_buffer_fill`, `close`, `recv_buffer_*` | `TcpConnection` |
| Buffers: `TcpSendBuffer`, `TcpRecvBuffer` | a deque; a streambuf | `commit`, `consume`, `prepare` | in `TcpConnection` |
| What a user is promised: `TcpServiceBase`, `UdpServiceBase` | which callbacks have been made | `on_connect`, `on_accept`, `on_recv`, `on_send`, `on_close` | `CallbackContract` |
| UDP listener: `UdpAcceptor` and `UdpPassiveConnection` | one socket, `m_connection_map`, `m_recv_data`, `m_peer_endpoint`, one queue of packs; per connection `m_running` and the frames received | `start`, `handle_recv`, `push_send_data`, `handle_send`, `handle_close`; from the user `send_buffer_fill`, `close`, `recv_buffer_drop` | `UdpAcceptor` |
| UDP connection of this side: `UdpActiveConnection` | as TCP, with the resolver's results and an iterator into them, and frames | as TCP, without handshake and water mark | `UdpActiveConnection` |
| TCP manager: `TcpManager`, `TcpManagerImpl` | the facade's pointer; pool, acceptors, service, ports, certificates | `init`, `exit`, `create_connection`, `start_accept`, `handle_accept` | `Manager`; `create_connection` and an accept, as the connection sees them, in `TcpConnection` |
| UDP manager: `UdpManager`, `UdpManagerImpl` | pointer, pool, service, ports | `init`, `exit`, `create_connection` | `Manager`; `create_connection` in `UdpActiveConnection` |
| Pool of io_contexts: `IOServicePool` | contexts, work guards, threads, `m_next_io_context` | `init`, `exit`, `run`, `get` | in `Manager` |
| Certificates | two flags and two OpenSSL contexts | `set_server_certificate`, `set_client_certificate` | in `Manager`: that loading throws, is passed over, or makes sessions TLS |
| Sample SSL proxy: `SslProxy`, `connection_pair_t` | a pair of connections with a mutex, the user data of both | `on_accept`, `on_connect`, `on_recv`, `on_close` | `ProxyPair` |
| Test client and server | counters in the user data | the callbacks | not modelled: used to see what a user does |

### How they interact

The pool runs one thread for each `io_context`, and gives each connection one
context. Everything that a connection does happens in *handlers*, which are
posted to the context, or arrive there when an asynchronous operation
completes, and which its thread runs one at a time in the order they came. A
handler calls the user (`on_recv` and so on) and, when the callback returns
true, starts the next operation; a false return posts `stop`. The user's calls,
`send_buffer_fill` and `close`, may come from any thread, and only post.
Connections are kept alive by the `shared_ptr` that each handler and each
outstanding operation holds. The passive UDP connections of a port share the
socket, the receive, the queue of packs and the thread of their acceptor.

### What is hard

* Other threads post while a callback runs, and an operation may complete
  before the `stop` that would have cancelled it: handlers run in orders that
  no test produces.
* `stop` can be queued several times over (by the user, by a false return, by
  both a read and a write that failed).
* Exactly one of `push_send_data` and `handle_send` must start the next write,
  and every path through `handle_recv` must start the next read or end the
  connection: a slip is a connection that is silent for ever, with no error.
* Setting up is a chain of asynchronous steps, any of which fails, and one
  answer is due to the user at its end.
* SSL's `shutdown` blocks the thread on the peer.
* In UDP the connection is found by the peer's endpoint, which the kernel
  writes into one shared variable, and which outlives any one connection.
* Listeners accept before `init` has returned, and threads run handlers after
  `exit` has stopped their contexts: the pool joins nobody, and the manager is
  deleted next.
* A user with two connections has callbacks on two threads at once (the proxy),
  and the end of one connection races with the beginning of the other.

PROJECT.json lists the hazards, each at its line and with the properties that
cover it, or why none does yet.

## The modules

A step of a model is a handler from its start to the call of the user, or to
its end. A callback is a state (`callback`) in which the io thread is busy and
all others may move; `Return` ends it, and does what the handler does after the
call. `queue` is the context's FIFO. An outstanding operation is a token
(`reading`, `writing`, `setup`) until the kernel completes it, which puts its
handler at the end of the queue. Only the io thread takes from the queue.

**`CallbackContract`** is the abstract specification: an attempt is answered
with a connection or with a null pointer; an open connection has data callbacks
until `on_close`, which comes once; a user who returned false from an
introduction or from `on_recv` is shown no more data; callbacks do not
overlap. `MaxLate` is the number of `on_recv` and of `on_send` that may begin
after `on_close`.

**`TcpConnection`** is one connection, from `create_connection` (synchronous or
asynchronous) or an accept until nothing holds it. `m_use_ssl` says which of
the derived classes it is. A pack is a number, the buffer of bytes received its
size. `Chunks` is the number of pieces in which the kernel takes a pack
(`async_write` is several writes). `host_endpoint` says whether a local address
was asked for, whose opening or binding may fail. `wire`, `sent`, `answer`,
`closes`, `late` and `rejected` record what happened, for the properties.

**`UdpAcceptor`** is a listener and all of its connections, numbered in the
order they are made; `m_connection_map` gives the number for an endpoint.
`arrived`, `delivered`, `posted`, `asked`, `rejected` and `closed` record what
happened.

**`UdpActiveConnection`** is the UDP counterpart of `TcpConnection`; the two
share their form and their contract. Endpoints are tried one by one by
`handle_connect`. An operation on an open socket may fail at any time.

**`Manager`** is a manager of either kind from `init` to `exit`: the facade, the
implementation with its listeners, and the pool. The user's thread goes through
`init`, `exit` and the deletion in steps (`call`), and the pool's threads move
in between; each thread, which runs one context (contexts and threads have the
same numbers), is waiting in `run`, has taken a handler, is in a callback, or
has left. `m_acceptors[a].accept` is the context of the session that the
outstanding `async_accept` of listener `a` will fill (for UDP its outstanding
receive). `get` may return any context, since its counter is incremented by
several threads without a lock, and `m_acceptors.clear` may destroy the
listeners, and so cancel their accepts, in any order. `peer` follows those who knock until the user
is introduced to them. Using something that was deleted, or asking a pool
without contexts for one, sets `undefined` and ends the behaviour. Of the
connections only what comes before their introduction is here. A plain session
and a datagram of a new peer are introduced by the first handler. `init` loads
two certificates, and with a good one of its kind (the server's for those who
knock, the client's for those whom `create_connection` reaches) the session is
an `SslSession`: its `start` begins a handshake, counted in `handshakes` by
context and peer, and calls nobody. The environment ends a handshake well or
badly (`HandshakeEnds`), or never. After a good end `handle_handshake`
introduces, after a bad one it calls nobody (`HandshakeFailed`).

**`ProxyPair`** is one pair of the sample proxy, over two instances of
`CallbackContract`: the client's connection `src`, and `dst`, which
`create_connection` makes in return. `src` is plain TCP, and the contract allows
more than it does (`TcpLiveness` checks, and `TcpContractProofs` proves, that a
plain `TcpConnection` implements it with one late callback of each kind). `dst`
is always TLS, since the sample loads a client certificate
(`samples/ssl_proxy.cpp:115`), and its late callbacks are not bounded by one:
the run has `MaxLate` = 1 for both, and the invariants are proved for every
`MaxLate`. What the runs say of liveness asks no end of `dst` (see Fairness).
A callback is cut into
steps where it touches the pair or a receive buffer (`at`); `mtx` is the mutex,
which only `on_close` takes. A step that touches a deleted pair, a null pointer
or a `shared_ptr` that the other thread is assigning ends the behaviour with a
`fault`. Bytes are numbers, `recv_buffer_data` takes a snapshot of the buffer;
what two threads in one streambuf do to its memory is left out, and
`RelayExact` is stated of behaviours without that overlap.

`MC*` modules hold the small values that the configurations substitute.
Definitions commented `Slip` before a definition are plausible mistakes in it,
which no specification uses; each property is shown to fail with one of them
(PROJECT.json, "mutants").

### Choices that a reader should know

* A completion that is already queued when `stop` runs is handled after it.
  asio does not take a handler back once its operation has completed.
* `SslSession::shutdown` shuts the stream and does not close the socket (it
  lives until the session does), so in the model operations outstanding on a
  socket that is "shut" may still succeed or fail.
* An exception that leaves a handler leaves `io_context::run`, which
  `io_context_pool.cpp:41` calls bare in the thread: the model's `callback` is
  then "terminated" and nothing moves.
* Branches for a null service are left out: both managers refuse one.
  So are `send_buffer_fill(nullptr, 0)`, which fills nothing, and
  `UdpAcceptor::stop`, which has no caller.
* `exit` and `init` are called by a thread of the user, not in a callback.
* A receive of `UdpAcceptor` fails only after something was sent: unconnected
  datagram sockets report the fate of an earlier pack, and only on some systems
  (Windows).
* Where the readme restricts the user (the receive buffer is touched only in
  callbacks), the model's user keeps to it.

## What is checked

| Run | Instance | Shows |
|---|---|---|
| `TcpSafety` | every way, plain and SSL, 2 endpoints, 2 packs of 2 pieces, 2 bytes | `ReadArmed`, `SendArmed`: a running connection always has its read, and its packs their write, or a stop is coming. `WriteInPlace`: the pack whose address the kernel has stays in front. `WireIsStream`: the peer gets the packs in order, without gap or repetition. `LateCallbacksBounded`, `NoRecvAfterReject` |
| `TcpLiveness` | plain, no local address, 1 endpoint | attempts are answered (an exception to the caller of `create_connection` is an answer), closes reported, bytes shown, packs written and reported, everything released; and `ImplementsContract`: the callbacks are those of `CallbackContract`, with one late one of each kind |
| `Udp` | 2 peers, up to 3 datagrams, 2 packs, a close and an error, 4 of these in all | `MapExact`: a connection runs exactly while its endpoint leads to it. `ReceiveToken`: one receive, whatever the users answer and the kernel reports. `Demultiplexed`: each datagram is shown once, in order, by a connection to its sender. `OnCloseIsLast`, `RefusedIsLast`. `DeliveredInOrder` across connections. `CloseAnswered`; `PacksLeave` although sends fail |
| `UdpActive` | 3 endpoints, 2 datagrams, 2 packs, a close, an error, local address or none | `EveryEndpointTried`, `ReceiveToken`, `DeliveredInOrder`, `ImplementsContract`; attempts answered, but where a local address cannot be bound, closes and packs reported |
| `Manager` | TCP and UDP, 2 threads, 2 inits with any of 7 arguments (two ports, one of three of which the first is 0, a port served with TLS, a bad host, no port, no thread, an unreadable certificate), 1 connect, 1 failing accept | `PortsTold`: between calls `get_ports` tells exactly the listeners there are, and after a failed `init` or an `exit` none. `AcceptArmed`: an open listener has one accept, never none or two. `SafeWhileServing`: nothing is used before it exists, nor after it is gone before the deletion. `Accepted`: who knocks at a plain listener is introduced; at a TLS one he comes to his handshake, and is introduced if it ends well |
| `ProxyPair` | 3 bytes each way, 1 late callback of each kind | `PairKept`: the pair is not used after it was deleted, nor deleted twice, but for two cases it names. `RelayExact`: bytes go to the other side in order and once. `Released`: when `dst` ends or cannot be made the pair is deleted, when `src` ends it is deleted or the close of `dst` was asked for. `BytesMove`: what arrived, also before the server was reached, is relayed |

Each instance is the smallest in which its question bites: two packs so that a
fill meets an outstanding write, with a third where one waits behind both; two
closes, or a close and a refusal, so that one is queued behind the other; two
endpoints, so that a failure has a successor; three datagrams of two peers, so
that one comes back after its connection was closed while another is served.
Three bytes for the proxy let one arrive before `dst` is there, one while it is
relayed and one after. Two threads, so that a listener, its session and its
handlers may be on different ones; one peer and one connection that the user
makes, so that a handshake of one may never end while the other goes on; two
inits, so that one follows a failure or an exit.
Counters are bounded in the guards of the environment only (`MaxFill`,
`MaxClose`, `MaxBytes`, `MaxDatagrams`, `MaxErrors`, `MaxMark`, `MaxResults`,
`MaxInits`, `MaxConnects`), never in a handler; `MaxInputs` of `UdpAcceptor`
bounds its four inputs together, so that each combination of a few is met
without all of them at once. When all are used up the system stops, hence
`CHECK_DEADLOCK FALSE`. No run uses symmetry.

### Fairness

Weak fairness of the io thread's handlers (its thread does nothing but run
them), of `Return` (the readme asks callbacks not to block), of connecting and
resolving (both have time limits in the kernel), and of reads and writes that
can end. Nothing makes the user call, the peer send, close or answer: a read on
an open socket may wait for ever, and an SSL handshake or shutdown ends for
sure only when the peer has gone. Packs are written because a peer that
neither reads nor goes is assumed away; this is the one assumption on peers.

In `Manager` the pool's threads are weakly fair (they do nothing but run
handlers; callbacks return), and an accept is strongly fair for each peer: the
kernel keeps those who connect in a queue and comes to each if accepts go on.
Neither `init`, once called, nor `exit` has to go on, and no peer has to end its
handshake.

In `ProxyPair` the two threads are weakly fair, and so is the `on_close` of
`src` when it was closed or refused its data: this is `CloseAnswered` of
`TcpConnection`, which holds of a plain connection as long as no other
connection's TLS shutdown blocks its io_context for ever (the same is assumed of
the two threads). `dst` is TLS, its
`shutdown` waits for the server (`SslClose`), and so nothing is assumed of its
`on_close`: when `src` has ended, the proxy has closed `dst`, and the pair lives
until the server answers or goes. Nobody has to answer an attempt.

### Where the code and its documentation part

Each of these is a run that TLC ends with a counterexample to a sentence of the
readme; PROJECT.json quotes it under "findings".

| Run | What happens |
|---|---|
| `TcpLateCallback` | `on_close` is not the last callback: a completion queued behind the stop still calls `on_recv` or `on_send`. `ImplementsContract` and `AlwaysLateBounded` show that it is at most one of each |
| `TcpConnectTimes` | `handle_connect` believes it is called once for each endpoint; `async_connect` calls it once. A name with two endpoints that both fail is never answered |
| `SslConnect` | a failed handshake is not reported |
| `SslClose` | `on_close` waits for the peer's close_notify on the io thread |
| `UdpStaleClose` | a close names the endpoint: a second one closes the peer's next connection |
| `ProxyOverlap` | `on_connect` of the server's connection relays for the client's, on its own thread, while the client's `on_recv` runs: callbacks are exclusive for each connection, and this is one connection's callback at work on another |

Others are in the models and have no run of their own:

* The failure to open or bind the local address is thrown as a `system_error`,
  and `handle_resolve` catches `error_code` (`inc/tcp_connection.h:204`,
  `src/udp_active_connection.cpp:104`): the exception ends the io thread, and
  nobody is answered. `TcpLiveness` has no local address (with `Binds` = {TRUE}
  its `ConnectAnswered` fails); `ConnectAnswered` of `UdpActive` names the case.
* A local address that is no address is thrown to the caller of
  `create_connection`, in both forms (`inc/tcp_manager_impl.h:162`,
  `src/udp_manager_impl.cpp:212`). `ConnectAnswered` takes it for an answer: the
  caller knows.
* `UdpActiveConnection`, too, makes a late callback of each kind.
* `UdpAcceptor::handle_recv` does not look at its error: a failed receive is
  shown, empty, to the peer of the datagram before.
* Passive UDP connections never call `on_send` (readme.md:388 says all do).
* `exit` drops connections without their `on_close` (readme.md:249), and deletes
  contexts while their threads may still be in a handler; `init` that fails at
  a later port does the same to the threads it has just started, without
  stopping them. No sentence of the readme says that `exit` waits, so there is
  no run against it: `SafeWhileServing` excuses it, and shows that it is the
  only time: `undefined` comes while the implementation is deleted, or with the
  next item.
* A certificate that cannot be loaded throws out of `init` and leaves an
  implementation without contexts: the next `create_connection` divides by zero
  in `get`. A certificate without a key is passed over, and the port served in
  plain TCP.
* The proxy deletes its pair while the attempt is still to be answered, when the
  client goes first (`early`): `on_connect` then writes into it, and may delete
  it again. A late `on_recv` (as `TcpLateCallback` has it) finds it deleted, too.
  `PairKept` says that these are the only ways.
* `src` and `dst` of a pair are `shared_ptr`s that one thread assigns under the
  mutex while the other copies them without it (`Torn`).

## What is proved

Every invariant that a run checks is also a theorem, for every value of the
constants: every number of packs, bytes, datagrams, peers, threads, listeners
and calls. The proofs assume what the modules say of their constants (that
bounds are natural numbers, that flags and ways are among those there are, and
that `init` gets arguments of the right types), and nothing else.

| Module | Theorems, beside the types |
|---|---|
| `TcpConnectionProofs` | `ReadArmed`, `SendArmed`, `WriteInPlace`, `LateCallbacksBounded`, `NoRecvAfterReject` |
| `TcpStreamProofs` | `WireIsStream` |
| `TcpContractProofs` | `ClosesOnce`; a plain connection implements `CallbackContract` |
| `UdpActiveConnectionProofs` | `EveryEndpointTried`, `ReceiveToken`, `DeliveredInOrder`, and that it implements `CallbackContract` |
| `UdpAcceptorProofs` | `MapExact`, `ReceiveToken`, `Demultiplexed`, `OnCloseIsLast`, `RefusedIsLast`, `DeliveredInOrder` |
| `ManagerProofs` | `PortsTold`, `AcceptArmed`, `SafeWhileServing` |
| `ProxyPairProofs` | `PairKept`, `RelayExact` |

Few of these properties are inductive as they stand. Each module has an
inductive invariant (`IInv`), shows that the initial states have it and that
each action keeps each of its parts, and derives the theorems. Where an action
can disturb several parts, a lemma says once what it does to the queue
(`QueueLemmas`: what posting and taking a handler do to those that wait) and
the steps of the proof cite that.

**`TcpConnection`.** That at most one `on_recv` comes late depends on there never
being two reads; that there are never two depends on who may start one. The
invariant counts tokens:

* `SetupToken`: at most one connecting operation or its handler, and none once
  the user has an answer;
* `Unknown`: before the connection is introduced there is nothing to read,
  write or close;
* `ReadToken`: one read at most, outstanding, or completed, or in the hands of a
  callback that will start the next; a user who returned false has taken it;
* `WriteToken`: one write at most, outstanding or completed, of the front pack,
  and none if there is no pack;
* `LateToken`: after `on_close` of a plain connection the socket is closed, and
  once a late callback has been made no successful completion of its kind is
  left.

`TcpStreamProofs` adds where each pack is: those on the wire, those in
`m_send_queue` and those whose push still waits follow each other without gap,
and a pack is on the wire in as many pieces as its write has put there.
`TcpContractProofs` maps the steps of a plain connection to those of
`CallbackContract` one by one; a step that calls nobody is a stutter. With TLS
late callbacks are not bounded by one, since `shutdown` leaves the socket open,
and so the theorem has `~m_use_ssl` as a condition (`m_use_ssl` never changes).

**`UdpActiveConnection`.** Tokens as for TCP, and in addition how far the
iterator has come: while the attempt goes on, each endpoint before it has been
tried, and the answer is null only at its end.

**`UdpAcceptor`.** One socket serves many connections, so the parts of the
invariant speak of all of them: `ReadToken` and `WriteToken` of the one receive
and the one queue of packs; `Addressed`, `Table`, `Ended` and `Introducing`,
that `m_connection_map` leads to the running connections, each to its own;
`Refusing`, that the stop of a user who returned false waits in front of every
later datagram;
`Handed`, that each frame is with the connection of its sender; `Numbered` and
`Ordered`, that the packs which wait anywhere are in the order of their fills.
That `Demultiplexed` holds across a close and a new connection of the same peer
comes from `Table` and `Handed` together.

**`Manager`.** `Stages` says how far `init` or `exit` has come: with
`port_any_valid` there is no listener as long as ports are tried, without it
one for each port before the present one, and without an implementation
nothing at all is left. `Sane` says that a handler in a queue or in a thread's
hands refers to a listener and to a context that exist, and `Armed` that the
handler of an open listener
is on the thread of its own context and nowhere else, once if its accept is not
outstanding and otherwise not at all. `HandshakesTyped` says that handshakes are
only on contexts that exist, so that the deletion leaves none, and a handler
that ends one refers to no listener. Listeners are closed only in the step
before the deletion, so a thread can meet a closed one only then
(`SafeWhileServing`).

**`ProxyPair`.** Two threads work on one pair, and the mutex guards only the end.
The invariant follows each side through its stages, and says that whoever
deletes the pair is alone: both fields are looked at under the mutex, the other
side has left, and a connection that has left comes back only in a late
callback, which `PairKept` excepts. `Relaying` says that the thread that copies
the buffer has seen all of it until it drops it, without which bytes could be
dropped that were never relayed.

Only model-checked:

* liveness, in all modules (it needs fairness, which the prover does not reason
  about): attempts answered, closes and packs reported, everything released,
  `Accepted`, `Released`, `BytesMove`;
* what the violation runs show, since they are counterexamples.

The proofs use what the code does: with a mistake in a definition (the whole
array of ports told when only one was opened, the proxy's `on_close` without its
lock, a buffer consumed by the wrong count) a step of them fails.

## What is not modelled, and the plan

A composition of two `TcpConnection`s as each other's peer would add little to
`WireIsStream` on one side and `DataShown` on the other: TCP itself, which
nothing in this code implements, is what lies between. What a further proof
could say is more of the same objects: that a TLS connection implements a
contract of its own, in which late callbacks are bounded by what was
outstanding when it was shut.

Left out for good: exceptions for want of memory (one of `start_accept` after
the listener was stored, `src/tcp_manager_impl.cpp:206`, would leave a listener
without an accept); what OpenSSL does with certificates; addresses; logging
through `on_error`; the test programs, which only use the library; `init` and
`exit` of the sample proxy, which forward to `TcpManager`; and the user of a
passive UDP connection who keeps it past `exit`.
