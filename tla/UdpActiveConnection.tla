------------------------ MODULE UdpActiveConnection ------------------------
(***************************************************************************)
(* A UDP connection that this side opens: UdpActiveConnection, from the    *)
(* call of create_connection (UdpManagerImpl's synchronous and             *)
(* asynchronous forms) until nothing refers to it any more.                *)
(*                                                                         *)
(* Steps, callbacks and the queue are those of TcpConnection.  What        *)
(* differs is the transport: a connected UDP socket has no peer that ends  *)
(* it, a datagram is shown as soon as it is handled, whole, and a receive  *)
(* or a send may report, at any time, that an earlier pack found nobody.   *)
(***************************************************************************)
EXTENDS Naturals, Sequences, FiniteSets

CONSTANTS
    Binds,          \* whether create_connection is given a local address
    MaxResults,     \* most endpoints that a name resolves to
    MaxDatagrams,   \* datagrams that arrive
    MaxErrors,      \* operations that fail on an open socket
    MaxFill,        \* calls of send_buffer_fill
    MaxClose        \* calls of close by the user

ASSUME BindsAssumption == Binds \subseteq BOOLEAN
ASSUME BoundsAssumption ==
    /\ MaxResults \in Nat \ {0}
    /\ MaxDatagrams \in Nat
    /\ MaxErrors \in Nat
    /\ MaxFill \in Nat
    /\ MaxClose \in Nat

VARIABLES
    sync_connect, host_endpoint,    \* the arguments of create_connection
    setup,              \* the connecting operation that is outstanding
    m_resolver_results, \* how many endpoints the resolver returned
    m_resolver_iterator, \* the endpoint that is tried, 0 before the first
    m_running,
    socket,             \* "closed" or "open"
    m_recv_buffer,      \* the datagrams that the user has not dropped
    m_send_buffer,      \* the packs, numbered in the order they were filled
    reading,            \* how many async_receives are outstanding
    writing,            \* the packs of the async_sends outstanding
    queue,              \* handlers waiting for the io thread
    callback,           \* the callback the io thread is in
    answer,             \* what the attempt has told the user
    closes,             \* calls of on_close
    late,               \* data callbacks begun after on_close
    rejected,           \* callbacks that have returned false
    tried,              \* endpoints that failed
    arrived, delivered, errors,     \* what the network did
    posted, asked       \* the user's calls of send_buffer_fill and close

arguments  == <<sync_connect, host_endpoint>>
setupVars  == <<setup, m_resolver_results, m_resolver_iterator, tried>>
bufferVars == <<m_recv_buffer, m_send_buffer>>
callVars   == <<callback, answer, closes, late>>
netVars    == <<arrived, delivered, errors>>
userVars   == <<posted, asked, rejected>>

\* What the actions leave alone together.
attempt    == <<arguments, setupVars>>
life       == <<m_running, socket>>
operations == <<reading, writing>>
exchange   == <<bufferVars, operations, netVars, userVars>>

vars == <<attempt, life, queue, callVars, exchange>>

-----------------------------------------------------------------------------
DataCallbacks == {"on_recv", "on_send"}
Callbacks == DataCallbacks \cup {"on_connect", "connect_failed", "on_close"}
Setups == {"idle", "resolve", "connect", "none"}

\* A handler in the io_context: which one, how its operation ended, and the
\* number it was given (the datagram received, or the pack to push).
Ops == {"start", "stop", "push", "resolve", "connect", "recv", "send"}
Handlers == [op : Ops, ok : BOOLEAN, n : Nat]
Handler(op, ok, n) == [op |-> op, ok |-> ok, n |-> n]
Post(op) == Handler(op, TRUE, 0)

Init ==
    /\ sync_connect \in BOOLEAN /\ host_endpoint \in Binds
    /\ setup = "idle"
    /\ m_resolver_results = 0 /\ m_resolver_iterator = 0 /\ tried = 0
    /\ m_running = FALSE /\ socket = "closed"
    /\ m_recv_buffer = <<>> /\ m_send_buffer = <<>>
    /\ reading = 0 /\ writing = <<>> /\ queue = <<>>
    /\ callback = "none" /\ answer = "none" /\ closes = 0
    /\ late = [c \in DataCallbacks |-> 0]
    /\ arrived = 0 /\ delivered = <<>> /\ errors = 0
    /\ posted = 0 /\ asked = 0 /\ rejected = {}

-----------------------------------------------------------------------------
(* Creating the connection, on the caller's thread, and what the resolver  *)
(* and the kernel answer.                                                  *)

\* It throws if it cannot read the local address.
async_create_connection ==
    /\ ~sync_connect /\ setup = "idle"
    /\ \/ setup' = "resolve" /\ UNCHANGED answer
       \/ host_endpoint /\ setup' = "none" /\ answer' = "exception"
    /\ UNCHANGED <<arguments, m_resolver_results, m_resolver_iterator, tried,
                   life, exchange, queue, callback, closes, late>>

\* Endpoints are tried until one connects.  A local address that cannot be
\* bound ends the call, before or between the attempts; the resolver throws.
sync_create_connection ==
    /\ sync_connect /\ setup = "idle"
    /\ setup' = "none"
    /\ \/ /\ answer' = "exception"
          /\ UNCHANGED <<m_resolver_results, tried, socket, queue>>
       \/ /\ m_resolver_results' \in 1..MaxResults
          /\ tried' \in 0..m_resolver_results'
          /\ \/ /\ tried' < m_resolver_results'
                /\ socket' = "open"
                /\ queue' = Append(queue, Post("start"))
                /\ UNCHANGED answer
             \/ /\ host_endpoint \/ tried' = m_resolver_results'
                /\ answer' = "false"
                /\ UNCHANGED <<socket, queue>>
    /\ UNCHANGED <<arguments, m_resolver_iterator, m_running, exchange,
                   callback, closes, late>>

ResolveCompletes ==
    /\ setup = "resolve"
    /\ setup' = "none"
    /\ \E ok \in BOOLEAN :
          /\ queue' = Append(queue, Handler("resolve", ok, 0))
          /\ m_resolver_results' \in IF ok THEN 1..MaxResults ELSE {0}
    /\ UNCHANGED <<arguments, m_resolver_iterator, tried, life, exchange,
                   callVars>>

ConnectCompletes ==
    /\ setup = "connect"
    /\ setup' = "none"
    /\ \E ok \in BOOLEAN :
          /\ queue' = Append(queue, Handler("connect", ok, 0))
          /\ socket' = IF ok THEN "open" ELSE socket
          /\ tried' = IF ok THEN tried ELSE tried + 1
    /\ UNCHANGED <<arguments, m_resolver_results, m_resolver_iterator,
                   m_running, exchange, callVars>>

-----------------------------------------------------------------------------
(* What the handlers are made of.                                          *)

Runs(op) == callback = "none" /\ queue # <<>> /\ Head(queue).op = op
Failed == ~Head(queue).ok

\* The io thread enters the user's callback c.
Calls(c) ==
    /\ callback' = c
    /\ answer' = IF c = "on_connect" THEN "connection"
                 ELSE IF c = "connect_failed" THEN "nullptr" ELSE answer
    /\ closes' = IF c = "on_close" THEN closes + 1 ELSE closes
    /\ late' = IF c \in DataCallbacks /\ closes > 0
               THEN [late EXCEPT ![c] = @ + 1] ELSE late

\* Slip: an error that nobody acts upon.
close_forgotten == queue' = Tail(queue)

\* close(): the handler that runs posts stop behind everything queued.
close == queue' = Append(Tail(queue), Post("stop"))

recv == reading' = reading + 1
send == writing' = Append(writing, Head(m_send_buffer'))

-----------------------------------------------------------------------------
(* The handlers.                                                           *)

\* Slip: the iterator is moved and async_connect not called again.
advance_only(at) == UNCHANGED setup /\ m_resolver_iterator' = at

\* async_connect to the endpoint that m_resolver_iterator is at.
Connect(at) == setup' = "connect" /\ m_resolver_iterator' = at
Stay == UNCHANGED <<setup, m_resolver_iterator>>

\* open, set_option and bind throw a system_error, which the handler for
\* error_code does not catch: it leaves io_context::run and the thread.
handle_resolve ==
    /\ Runs("resolve")
    /\ queue' = Tail(queue)
    /\ \/ Failed /\ Calls("connect_failed") /\ Stay
       \/ ~Failed /\ Connect(1) /\ UNCHANGED callVars
       \/ /\ ~Failed /\ host_endpoint
          /\ callback' = "terminated"
          /\ Stay /\ UNCHANGED <<answer, closes, late>>
    /\ UNCHANGED <<arguments, m_resolver_results, tried, life, exchange>>

\* Slips: the first failure is final; the last is not recognised.
no_more_results == FALSE
end_not_tested == TRUE

more_results == m_resolver_iterator < m_resolver_results

handle_connect ==
    /\ Runs("connect")
    /\ \/ /\ ~Failed
          /\ queue' = Append(Tail(queue), Post("start"))
          /\ Stay /\ UNCHANGED callVars
       \/ /\ Failed /\ more_results
          /\ queue' = Tail(queue)
          /\ Connect(m_resolver_iterator + 1)
          /\ UNCHANGED callVars
       \/ /\ Failed /\ ~more_results
          /\ queue' = Tail(queue)
          /\ Calls("connect_failed") /\ Stay
    /\ UNCHANGED <<arguments, m_resolver_results, tried, life, exchange>>

start ==
    /\ Runs("start")
    /\ queue' = Tail(queue)
    /\ m_running' = TRUE
    /\ Calls("on_connect")
    /\ UNCHANGED <<attempt, socket, exchange>>

\* Slips: every stop runs, also the second; the socket stays open.
always_stop == TRUE
shutdown_only == UNCHANGED socket

may_stop == m_running
CloseSocket == socket' = "closed"

stop ==
    /\ Runs("stop")
    /\ queue' = Tail(queue)
    /\ \/ ~may_stop /\ UNCHANGED <<socket, callVars>>
       \/ may_stop /\ CloseSocket /\ Calls("on_close")
    /\ UNCHANGED <<attempt, m_running, exchange>>

\* Slips: the test comes after the pack is queued; there is no test.
need_send_late == m_send_buffer' = <<>>
need_send_always == TRUE

need_send == m_send_buffer = <<>>

push_send_data ==
    /\ Runs("push")
    /\ queue' = Tail(queue)
    /\ m_send_buffer' = Append(m_send_buffer, Head(queue).n)
    /\ IF need_send THEN send ELSE UNCHANGED writing
    /\ UNCHANGED <<attempt, life, m_recv_buffer, reading, callVars, netVars,
                   userVars>>

handle_recv ==
    /\ Runs("recv")
    /\ \/ Failed /\ close /\ UNCHANGED <<m_recv_buffer, callVars>>
       \/ /\ ~Failed
          /\ queue' = Tail(queue)
          /\ m_recv_buffer' = Append(m_recv_buffer, Head(queue).n)
          /\ Calls("on_recv")
    /\ UNCHANGED <<attempt, life, m_send_buffer, operations, netVars,
                   userVars>>

handle_send ==
    /\ Runs("send")
    /\ \/ Failed /\ close /\ UNCHANGED <<m_send_buffer, writing, callVars>>
       \/ /\ ~Failed
          /\ queue' = Tail(queue)
          /\ m_send_buffer' = Tail(m_send_buffer)
          /\ IF m_send_buffer' = <<>>
             THEN Calls("on_send") /\ UNCHANGED writing
             ELSE send /\ UNCHANGED callVars
    /\ UNCHANGED <<attempt, life, m_recv_buffer, reading, netVars, userVars>>

-----------------------------------------------------------------------------
(* The end of a callback: the rest of the handler that made it.            *)

\* A callback that returns false posts stop.
Answer(kept) ==
    IF kept
    THEN UNCHANGED <<queue, rejected>>
    ELSE queue' = Append(queue, Post("stop")) /\ rejected' = rejected \cup {callback}

\* Slip: close() without the return after it, so that recv() follows.
close_without_return(kept) ==
    callback \in {"on_connect", "on_recv"} /\ Answer(kept) /\ recv /\ UNCHANGED m_running

ReturnToReading(kept) ==
    /\ callback \in {"on_connect", "on_recv"}
    /\ Answer(kept)
    /\ IF kept THEN recv ELSE UNCHANGED reading
    /\ UNCHANGED m_running

ReturnFromSend(kept) ==
    callback = "on_send" /\ Answer(kept) /\ UNCHANGED <<m_running, reading>>

ReturnFromClose ==
    /\ callback = "on_close"
    /\ m_running' = FALSE
    /\ UNCHANGED <<queue, rejected, reading>>

ReturnFromFailure ==
    /\ callback = "connect_failed"
    /\ UNCHANGED <<m_running, queue, rejected, reading>>

Return ==
    /\ \/ \E kept \in BOOLEAN : ReturnToReading(kept) \/ ReturnFromSend(kept)
       \/ ReturnFromClose
       \/ ReturnFromFailure
    /\ callback' = "none"
    /\ UNCHANGED <<attempt, socket, bufferVars, writing, answer, closes, late,
                   netVars, posted, asked>>

-----------------------------------------------------------------------------
(* The user, who has the connection once on_connect introduced it.         *)

send_buffer_fill ==
    /\ answer = "connection" /\ posted < MaxFill
    /\ posted' = posted + 1
    /\ queue' = Append(queue, Handler("push", TRUE, posted + 1))
    /\ UNCHANGED <<attempt, life, bufferVars, operations, callVars, netVars,
                   asked, rejected>>

UserCloses ==
    /\ answer = "connection" /\ asked < MaxClose
    /\ asked' = asked + 1
    /\ queue' = Append(queue, Post("stop"))
    /\ UNCHANGED <<attempt, life, bufferVars, operations, callVars, netVars,
                   posted, rejected>>

\* In a callback, as the readme asks; the first datagram goes.
recv_buffer_drop ==
    /\ callback \in DataCallbacks \cup {"on_close"}
    /\ m_recv_buffer # <<>>
    /\ m_recv_buffer' = Tail(m_recv_buffer)
    /\ UNCHANGED <<attempt, life, m_send_buffer, operations, queue, callVars,
                   netVars, userVars>>

-----------------------------------------------------------------------------
(* The network and the kernel.                                             *)

Completed(op, ok, n) == queue' = Append(queue, Handler(op, ok, n))

\* An operation on an open socket reports that an earlier pack found nobody,
\* or that a datagram was too large.
Fails == socket = "open" /\ errors < MaxErrors /\ errors' = errors + 1

DatagramArrives ==
    /\ reading > 0 /\ socket = "open" /\ arrived < MaxDatagrams
    /\ arrived' = arrived + 1
    /\ reading' = reading - 1
    /\ Completed("recv", TRUE, arrived + 1)
    /\ UNCHANGED <<attempt, life, bufferVars, writing, callVars, delivered,
                   errors, userVars>>

ReceiveFails ==
    /\ reading > 0
    /\ reading' = reading - 1
    /\ Fails
    /\ Completed("recv", FALSE, 0)
    /\ UNCHANGED <<attempt, life, bufferVars, writing, callVars, arrived,
                   delivered, userVars>>

ReceiveAborts ==
    /\ reading > 0 /\ socket = "closed"
    /\ reading' = reading - 1
    /\ Completed("recv", FALSE, 0)
    /\ UNCHANGED <<attempt, life, bufferVars, writing, callVars, netVars,
                   userVars>>

SendCompletes ==
    /\ writing # <<>>
    /\ writing' = Tail(writing)
    /\ \/ /\ socket = "open"
          /\ delivered' = Append(delivered, Head(writing))
          /\ Completed("send", TRUE, 0)
          /\ UNCHANGED errors
       \/ /\ Fails \/ (socket = "closed" /\ UNCHANGED errors)
          /\ Completed("send", FALSE, 0)
          /\ UNCHANGED delivered
    /\ UNCHANGED <<attempt, life, bufferVars, reading, callVars, arrived,
                   userVars>>

-----------------------------------------------------------------------------
IoThread ==
    \/ handle_resolve \/ handle_connect \/ start \/ stop
    \/ push_send_data \/ handle_recv \/ handle_send

\* std::terminate (callback "terminated") leaves nothing that could move.
Next ==
    \/ async_create_connection \/ sync_create_connection
    \/ ResolveCompletes \/ ConnectCompletes
    \/ IoThread \/ Return
    \/ send_buffer_fill \/ UserCloses \/ recv_buffer_drop
    \/ DatagramArrives \/ ReceiveFails \/ ReceiveAborts \/ SendCompletes

\* The io thread runs handlers as long as there are any, callbacks return, and
\* the kernel ends every operation but a receive on an open socket, for which
\* somebody would have to send a datagram.
Fairness ==
    /\ WF_vars(IoThread)
    /\ WF_vars(Return)
    /\ WF_vars(ResolveCompletes \/ ConnectCompletes)
    /\ WF_vars(ReceiveAborts)
    /\ WF_vars(SendCompletes)

Spec == Init /\ [][Next]_vars /\ Fairness

-----------------------------------------------------------------------------
\* The places of a handler in the queue.
Places(op) == {i \in 1..Len(queue) : queue[i].op = op}
Waiting(op) == Places(op) # {}

\* The type of every variable.
TypeOK ==
    /\ sync_connect \in BOOLEAN /\ host_endpoint \in BOOLEAN
    /\ setup \in Setups
    /\ m_resolver_results \in Nat /\ m_resolver_iterator \in 0..m_resolver_results
    /\ tried \in 0..m_resolver_results
    /\ m_running \in BOOLEAN /\ socket \in {"closed", "open"}
    /\ m_recv_buffer \in Seq(Nat) /\ m_send_buffer \in Seq(Nat)
    /\ reading \in Nat /\ writing \in Seq(Nat)
    /\ queue \in Seq(Handlers)
    /\ callback \in Callbacks \cup {"none", "terminated"}
    /\ answer \in {"none", "connection", "nullptr", "false", "exception"}
    /\ closes \in Nat /\ late \in [DataCallbacks -> Nat]
    /\ arrived \in Nat /\ delivered \in Seq(Nat) /\ errors \in Nat
    /\ posted \in Nat /\ asked \in Nat /\ rejected \subseteq Callbacks

\* An attempt is given up only after every endpoint that the name resolved to
\* has failed, whatever the order of the failures and of the handlers.
EveryEndpointTried == answer = "nullptr" => tried = m_resolver_results

\* The receive of a running connection is outstanding, or completed, or in the
\* hands of a callback, or was ended by an error or a false return, which have
\* posted a stop; there are never two, so m_recv_data is not overwritten
\* between the completion and handle_recv's copy of it.
ReceiveToken ==
    LET receives == reading + Cardinality(Places("recv"))
    IN /\ receives <= IF callback \in {"on_connect", "on_recv"} THEN 0 ELSE 1
       /\ m_running /\ callback \notin {"on_connect", "on_recv", "on_close"}
             => receives = 1 \/ Waiting("stop")

\* The packs reach the network in the order of the calls of send_buffer_fill,
\* without a gap or a repetition.
DeliveredInOrder == \A i \in 1..Len(delivered) : delivered[i] = i

\* A user who returned false from on_connect or on_recv.
Deaf == rejected \cap {"on_connect", "on_recv"} # {}

-----------------------------------------------------------------------------
\* An attempt of create_connection is answered: by on_connect, with the
\* connection or a null pointer, or by the call itself, however many endpoints
\* the name has; unless the local address it was given cannot be bound, which
\* ends the io thread.
ConnectAnswered ==
    setup # "idle" ~>
        answer # "none" \/ (host_endpoint /\ callback = "terminated")

\* Whoever ends it, with close, a false return or an error of the socket, a
\* connection comes to its on_close.
CloseAnswered ==
    (m_running /\ (asked > 0 \/ rejected # {} \/ errors > 0)) ~> closes > 0

\* A pack is sent and reported by an on_send, unless the connection closes.
SentReported ==
    \A p \in 1..MaxFill :
        (m_running /\ p <= posted /\ Len(delivered) < p)
            ~> (callback = "on_send" /\ Len(delivered) >= p) \/ closes > 0

\* What the user knows of the connection, and the callback that is running.
Phase ==
    IF closes > 0 THEN "closed"
    ELSE CASE answer = "connection" -> "open"
           [] answer = "nullptr"    -> "failed"
           [] OTHER                 -> "new"
Active == IF callback \in Callbacks THEN callback ELSE "none"

\* The contract of the callbacks, with one late callback of each kind.
Contract == INSTANCE CallbackContract WITH
    MaxLate <- 1, phase <- Phase, active <- Active, late <- late, deaf <- Deaf

ImplementsContract == Contract!Spec

=============================================================================
