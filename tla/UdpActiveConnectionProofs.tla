---------------------- MODULE UdpActiveConnectionProofs ----------------------
(***************************************************************************)
(* The safety invariants of UdpActiveConnection, and that it implements    *)
(* CallbackContract, proved for every value of its constants.              *)
(*                                                                         *)
(* As for TCP the argument is about tokens: the one connecting step, the   *)
(* one receive and the one send are each outstanding in the kernel, or     *)
(* completed and waiting in the queue, or in the hands of a callback.      *)
(***************************************************************************)
EXTENDS UdpActiveConnection, QueueLemmas

SetupOps == {"start", "resolve", "connect"}

\* No attempt that is still going on has told the user anything.
SetupToken ==
    /\ OneIn(queue, SetupOps)
    /\ setup # "none" => NoneIn(queue, SetupOps)
    /\ answer # "none" => setup = "none" /\ NoneIn(queue, SetupOps)

\* The iterator is at the endpoint that is tried: those before it have failed,
\* and it too once its failure waits in the queue.
Trying ==
    /\ setup \in {"idle", "resolve"} \/ ~NoneIn(queue, {"resolve"})
         => tried = 0 /\ m_resolver_iterator = 0
    /\ IF m_resolver_results = 0 THEN FailIn(queue, "resolve") ELSE DoneIn(queue, "resolve")
    /\ setup = "connect" => m_resolver_iterator = tried + 1
    /\ tried # m_resolver_iterator => DoneIn(queue, "connect")

\* Without a connection there is nothing to receive, to send or to close.
Unknown ==
    answer # "connection" =>
        /\ ~m_running /\ closes = 0 /\ rejected = {}
        /\ callback \in {"none", "terminated", "connect_failed"}
        /\ reading = 0 /\ writing = <<>> /\ m_send_buffer = <<>>
        /\ NoneIn(queue, {"recv"}) /\ NoneIn(queue, {"send"}) /\ NoneIn(queue, {"push"})

\* The one receive, which a user who returned false has taken away.
Holding == callback \in {"on_connect", "on_recv"}
ReadToken ==
    /\ reading <= 1
    /\ OneIn(queue, {"recv"})
    /\ reading > 0 => NoneIn(queue, {"recv"})
    /\ Holding \/ Deaf => reading = 0 /\ NoneIn(queue, {"recv"})
    /\ Deaf => ~Holding

\* The one send, of the pack in front.
WriteToken ==
    /\ Len(writing) <= 1
    /\ OneIn(queue, {"send"})
    /\ writing # <<>> => NoneIn(queue, {"send"}) /\ writing[1] = Head(m_send_buffer)
    /\ m_send_buffer = <<>> => writing = <<>> /\ NoneIn(queue, {"send"})

\* A connection runs until its only on_close, which closes the socket: the
\* completions that were waiting then are the last that succeed.
CloseToken ==
    /\ m_running /\ callback # "on_close" => closes = 0
    /\ closes > 0 => socket = "closed"
    /\ closes = 0 => late["on_recv"] = 0 /\ late["on_send"] = 0
    /\ late["on_recv"] <= 1 /\ (late["on_recv"] > 0 => FailIn(queue, "recv"))
    /\ late["on_send"] <= 1 /\ (late["on_send"] > 0 => FailIn(queue, "send"))

\* The receive of a running connection is somewhere, or a stop is.
ReadArmed ==
    m_running /\ callback \notin {"on_connect", "on_recv", "on_close"}
        => reading > 0 \/ ~NoneIn(queue, {"recv"}) \/ ~NoneIn(queue, {"stop"})

\* The packs whose sending handle_send has seen: all that the network took,
\* but for one whose completion waits.
Reported == IF FailIn(queue, "send") THEN Len(delivered) ELSE Len(delivered) - 1

\* Packs are sent, then buffered, then queued, then still to be filled.
Numbered ==
    /\ DeliveredInOrder
    /\ Reported \in Nat
    /\ \A i \in 1..Len(m_send_buffer) : m_send_buffer[i] = Reported + i
    /\ Reported + Len(m_send_buffer) <= posted
    /\ PushesIn(queue, Reported + Len(m_send_buffer), posted)

Tokens == SetupToken /\ Unknown /\ ReadToken /\ WriteToken /\ CloseToken

IInv ==
    TypeOK /\ Tokens /\ Trying /\ ReadArmed /\ Numbered /\ EveryEndpointTried

-----------------------------------------------------------------------------
\* A handler is what it was built from.
LEMMA HandlerType ==
    ASSUME NEW op \in Ops, NEW ok \in BOOLEAN, NEW n \in Nat
    PROVE  /\ Handler(op, ok, n) \in Handlers
           /\ Handler(op, ok, n).op = op
           /\ Handler(op, ok, n).ok = ok
           /\ Handler(op, ok, n).n = n
BY DEF Handler, Handlers

\* So is one that was posted without an operation.
LEMMA PostType ==
    ASSUME NEW op \in Ops
    PROVE  Post(op) \in Handlers /\ Post(op).op = op /\ Post(op).ok
BY HandlerType DEF Post

\* What is posted is a handler, and what is queued with it.
LEMMA PostedType ==
    ASSUME TypeOK, NEW op \in Ops, NEW ok \in BOOLEAN, NEW n \in Nat
    PROVE  queue \in Seq(Handlers) /\ Append(queue, Handler(op, ok, n)) \in Seq(Handlers)
<1>1. queue \in Seq(Handlers)
  BY DEF TypeOK
<1> QED
  BY <1>1, HandlerType, AppendType

\* And what is left when a handler runs, whether or not it posts another.
LEMMA RanType ==
    ASSUME TypeOK, NEW op, Runs(op)
    PROVE  /\ Tail(queue) \in Seq(Handlers)
           /\ \A o \in Ops : Append(Tail(queue), Post(o)) \in Seq(Handlers)
           /\ Head(queue).ok \in BOOLEAN /\ Head(queue).n \in Nat
<1>1. queue \in Seq(Handlers) /\ queue # <<>>
  BY DEF TypeOK, Runs
<1>2. Tail(queue) \in Seq(Handlers) /\ Head(queue) \in Handlers
  BY <1>1, TailType
<1>3. \A o \in Ops : Post(o) \in Handlers
  BY HandlerType DEF Post
<1> QED
  BY <1>2, <1>3, AppendType DEF Handlers

\* A handler that waits in the queue is there to be found.
LEMMA Found ==
    ASSUME TypeOK, NEW op, Runs(op)
    PROVE  /\ \A ops : op \in ops => ~NoneIn(queue, ops)
           /\ DoneIn(queue, op) => ~Failed
           /\ FailIn(queue, op) => Failed
<1>1. queue \in Seq(Handlers) /\ queue # <<>> /\ Head(queue).op = op
  BY DEF TypeOK, Runs
<1>2. 1 \in 1..Len(queue) /\ Head(queue) = queue[1]
  BY <1>1, TailAt
<1> QED
  BY <1>1, <1>2 DEF NoneIn, DoneIn, FailIn, Failed

\* The queue when a handler is posted.
LEMMA Posting ==
    ASSUME TypeOK, NEW op \in Ops, NEW ok \in BOOLEAN, NEW n \in Nat,
           queue' = Append(queue, Handler(op, ok, n))
    PROVE  /\ \A ops : NoneIn(queue', ops) <=> NoneIn(queue, ops) /\ op \notin ops
           /\ \A ops : OneIn(queue, ops) /\ (op \notin ops \/ NoneIn(queue, ops))
                            => OneIn(queue', ops)
           /\ \A o : FailIn(queue', o) <=> FailIn(queue, o) /\ (op = o => ~ok)
           /\ \A o : DoneIn(queue', o) <=> DoneIn(queue, o) /\ (op = o => ok)
<1>1. queue \in Seq(Handlers)
  BY DEF TypeOK
<1>2. /\ Handler(op, ok, n) \in Handlers
      /\ Handler(op, ok, n).op = op /\ Handler(op, ok, n).ok = ok
  BY HandlerType
<1> QED
  BY <1>1, <1>2, PostTokens, PostEnds

\* The queue when the io thread takes a handler.
LEMMA Running ==
    ASSUME TypeOK, NEW op, Runs(op), queue' = Tail(queue)
    PROVE  /\ \A ops : NoneIn(queue, ops) => NoneIn(queue', ops)
           /\ \A ops : op \notin ops => (NoneIn(queue', ops) => NoneIn(queue, ops))
           /\ \A ops : OneIn(queue, ops) => OneIn(queue', ops)
           /\ \A ops : OneIn(queue, ops) /\ op \in ops => NoneIn(queue', ops)
           /\ \A o : FailIn(queue, o) <=> FailIn(queue', o) /\ (op = o => Failed)
           /\ \A o : DoneIn(queue, o) <=> DoneIn(queue', o) /\ (op = o => ~Failed)
<1>1. queue \in Seq(Handlers) /\ queue # <<>> /\ Head(queue).op = op
  BY DEF TypeOK, Runs
<1>2. Head(queue) \in Handlers
  BY <1>1, TailType
<1> QED
  BY <1>1, <1>2, RunTokens, RunEnds DEF Failed, Handlers

\* And when that handler posts another, as close() and handle_connect do.
LEMMA RunningPosts ==
    ASSUME TypeOK, NEW op, NEW o \in {"start", "stop"}, Runs(op),
           queue' = Append(Tail(queue), Post(o))
    PROVE  /\ \A ops : o \notin ops /\ NoneIn(queue, ops) => NoneIn(queue', ops)
           /\ \A ops : op \notin ops => (NoneIn(queue', ops) => NoneIn(queue, ops))
           /\ \A ops : o \notin ops /\ OneIn(queue, ops) => OneIn(queue', ops)
           /\ \A ops : op \in ops /\ OneIn(queue, ops) => OneIn(queue', ops)
           /\ \A ops : op \in ops /\ o \notin ops /\ OneIn(queue, ops) => NoneIn(queue', ops)
           /\ \A ops : o \in ops => ~NoneIn(queue', ops)
           /\ \A f : f # o => (FailIn(queue, f) <=> FailIn(queue', f) /\ (op = f => Failed))
           /\ \A f : DoneIn(queue, f) => DoneIn(queue', f)
<1> DEFINE r == Tail(queue)
           h == Post(o)
<1>1. queue \in Seq(Handlers) /\ queue # <<>> /\ Head(queue).op = op
  BY DEF TypeOK, Runs
<1>2. h \in Handlers /\ h.op = o /\ h.ok /\ r \in Seq(Handlers) /\ Head(queue) \in Handlers
  <2>1. r \in Seq(Handlers) /\ Head(queue) \in Handlers
    BY <1>1, TailType
  <2>2. h \in Handlers /\ h.op = o /\ h.ok
    BY PostType DEF Ops
  <2> QED
    BY <2>1, <2>2
<1>3. /\ \A ops : NoneIn(queue, ops) => NoneIn(r, ops)
      /\ \A ops : op \notin ops => (NoneIn(r, ops) => NoneIn(queue, ops))
      /\ \A ops : OneIn(queue, ops) => OneIn(r, ops)
      /\ \A ops : OneIn(queue, ops) /\ op \in ops => NoneIn(r, ops)
      /\ \A f : FailIn(queue, f) <=> FailIn(r, f) /\ (op = f => Failed)
      /\ \A f : DoneIn(queue, f) => DoneIn(r, f)
  BY <1>1, <1>2, RunTokens, RunEnds DEF Failed, Handlers
<1> HIDE DEF r, h
<1>4. /\ \A ops : NoneIn(Append(r, h), ops) <=> NoneIn(r, ops) /\ o \notin ops
      /\ \A ops : OneIn(r, ops) /\ (o \notin ops \/ NoneIn(r, ops))
                            => OneIn(Append(r, h), ops)
      /\ \A f : FailIn(Append(r, h), f) <=> FailIn(r, f) /\ o # f
      /\ \A f : DoneIn(Append(r, h), f) <=> DoneIn(r, f)
  BY <1>2, PostTokens, PostEnds
<1>5. queue' = Append(r, h)
  BY DEF r, h
<1> QED
  BY <1>3, <1>4, <1>5

\* The calls of the user, by the callback that is entered.
LEMMA CallsWhat ==
    ASSUME NEW c \in Callbacks, Calls(c)
    PROVE  /\ callback' = c
           /\ c = "on_connect" => answer' = "connection" /\ UNCHANGED <<closes, late>>
           /\ c = "connect_failed" => answer' = "nullptr" /\ UNCHANGED <<closes, late>>
           /\ c = "on_close" => closes' = closes + 1 /\ UNCHANGED <<answer, late>>
           /\ c \in DataCallbacks =>
                 /\ UNCHANGED <<answer, closes>>
                 /\ late' = IF closes > 0 THEN [late EXCEPT ![c] = @ + 1] ELSE late
BY DEF Calls, Callbacks, DataCallbacks

CallTypeOK ==
    /\ callback \in Callbacks \cup {"none", "terminated"}
    /\ answer \in {"none", "connection", "nullptr", "false", "exception"}
    /\ closes \in Nat /\ late \in [DataCallbacks -> Nat]

\* They leave the callback variables in their types.
LEMMA CallsType ==
    ASSUME TypeOK, NEW c \in Callbacks, Calls(c)
    PROVE  CallTypeOK'
BY DEF TypeOK, CallTypeOK, Calls, Callbacks, DataCallbacks

-----------------------------------------------------------------------------
(* Types.  Two things are not for granted: the iterator and the count of   *)
(* failures stay within the results, which needs Trying, and handle_send   *)
(* finds a pack to remove, which needs WriteToken.                         *)

\* The variables that connecting does not touch.
ExchangeOK ==
    /\ m_recv_buffer \in Seq(Nat) /\ m_send_buffer \in Seq(Nat)
    /\ reading \in Nat /\ writing \in Seq(Nat)
    /\ arrived \in Nat /\ delivered \in Seq(Nat) /\ errors \in Nat
    /\ posted \in Nat /\ asked \in Nat /\ rejected \subseteq Callbacks

AttemptOK ==
    /\ sync_connect \in BOOLEAN /\ host_endpoint \in BOOLEAN
    /\ setup \in Setups
    /\ m_resolver_results \in Nat /\ m_resolver_iterator \in 0..m_resolver_results
    /\ tried \in 0..m_resolver_results

\* The type invariant of the next state, from its parts.
LEMMA TypeParts ==
    ASSUME AttemptOK', ExchangeOK', CallTypeOK', m_running' \in BOOLEAN,
           socket' \in {"closed", "open"}, queue' \in Seq(Handlers)
    PROVE  TypeOK'
BY DEF TypeOK, AttemptOK, ExchangeOK, CallTypeOK

\* Creation and connecting.
LEMMA TypeConnecting ==
    ASSUME TypeOK, SetupToken, Trying,
           \/ async_create_connection \/ sync_create_connection
           \/ ResolveCompletes \/ ConnectCompletes
    PROVE  TypeOK'
<1> USE DEF exchange, bufferVars, operations, netVars, userVars, life, callVars, arguments
<1>1. ExchangeOK' /\ m_running' \in BOOLEAN /\ socket' \in {"closed", "open"}
  BY DEF async_create_connection, sync_create_connection, ResolveCompletes,
         ConnectCompletes, TypeOK, ExchangeOK
<1>2. queue' \in Seq(Handlers)
  BY PostedType DEF async_create_connection, sync_create_connection, ResolveCompletes,
     ConnectCompletes, Post, Ops
<1>3. CallTypeOK'
  BY DEF async_create_connection, sync_create_connection, ResolveCompletes,
         ConnectCompletes, TypeOK, CallTypeOK
<1>4. AttemptOK'
  <2>1. CASE async_create_connection
    BY <2>1 DEF async_create_connection, TypeOK, AttemptOK, Setups
  <2>2. CASE sync_create_connection
    <3>1. m_resolver_iterator = 0
      BY <2>2 DEF sync_create_connection, Trying
    <3>2. CASE UNCHANGED <<m_resolver_results, tried>>
      BY <2>2, <3>2 DEF sync_create_connection, TypeOK, AttemptOK, Setups
    <3>3. CASE m_resolver_results' \in 1..MaxResults /\ tried' \in 0..m_resolver_results'
      BY <2>2, <3>1, <3>3, BoundsAssumption DEF sync_create_connection, TypeOK, AttemptOK, Setups
    <3> QED
      BY <2>2, <3>2, <3>3 DEF sync_create_connection
  <2>3. CASE ResolveCompletes
    <3>1. m_resolver_iterator = 0 /\ tried = 0
      BY <2>3 DEF ResolveCompletes, Trying
    <3>2. m_resolver_results' \in Nat
      BY <2>3, BoundsAssumption DEF ResolveCompletes
    <3> QED
      BY <2>3, <3>1, <3>2 DEF ResolveCompletes, TypeOK, AttemptOK, Setups
  <2>4. CASE ConnectCompletes
    <3>1. m_resolver_iterator = tried + 1
      BY <2>4 DEF ConnectCompletes, Trying
    <3> QED
      BY <2>4, <3>1 DEF ConnectCompletes, TypeOK, AttemptOK, Setups
  <2> QED
    BY <2>1, <2>2, <2>3, <2>4
<1> QED
  BY <1>1, <1>2, <1>3, <1>4, TypeParts

\* The handlers that connect, introduce and close.
LEMMA TypeOpening ==
    ASSUME TypeOK, Trying, handle_resolve \/ handle_connect \/ start \/ stop
    PROVE  TypeOK'
<1> USE DEF exchange, bufferVars, operations, netVars, userVars, life, callVars, arguments,
            attempt, setupVars
<1>1. ExchangeOK' /\ m_running' \in BOOLEAN /\ socket' \in {"closed", "open"}
  BY DEF handle_resolve, handle_connect, start, stop, CloseSocket, TypeOK, ExchangeOK
<1>2. queue' \in Seq(Handlers)
  BY RanType DEF handle_resolve, handle_connect, start, stop, Ops
<1>3. CallTypeOK'
  BY CallsType DEF handle_resolve, handle_connect, start, stop, TypeOK, CallTypeOK, Callbacks
<1>4. AttemptOK'
  <2>1. CASE handle_resolve
    <3>1. ~Failed => m_resolver_results # 0
      BY <2>1, Found DEF handle_resolve, Trying
    <3> QED
      BY <2>1, <3>1 DEF handle_resolve, Connect, Stay, TypeOK, AttemptOK, Setups
  <2>2. CASE handle_connect
    BY <2>2 DEF handle_connect, more_results, Connect, Stay, TypeOK, AttemptOK, Setups
  <2>3. CASE start \/ stop
    BY <2>3 DEF start, stop, TypeOK, AttemptOK
  <2> QED
    BY <2>1, <2>2, <2>3
<1> QED
  BY <1>1, <1>2, <1>3, <1>4, TypeParts

\* The handlers of the exchange.
LEMMA TypeExchange ==
    ASSUME TypeOK, WriteToken, push_send_data \/ handle_recv \/ handle_send
    PROVE  TypeOK'
<1> USE DEF exchange, bufferVars, operations, netVars, userVars, life, callVars, arguments,
            attempt, setupVars
<1>1. AttemptOK' /\ m_running' \in BOOLEAN /\ socket' \in {"closed", "open"}
  BY DEF push_send_data, handle_recv, handle_send, TypeOK, AttemptOK
<1>2. queue' \in Seq(Handlers) /\ Head(queue).n \in Nat
  BY RanType DEF push_send_data, handle_recv, handle_send, close, Ops
<1>3. CallTypeOK'
  BY CallsType DEF push_send_data, handle_recv, handle_send, TypeOK, CallTypeOK, Callbacks,
     DataCallbacks
<1>4. m_send_buffer \in Seq(Nat) /\ writing \in Seq(Nat) /\ m_recv_buffer \in Seq(Nat)
  BY DEF TypeOK
<1>5. ExchangeOK'
  <2>1. CASE push_send_data
    <3>1. m_send_buffer' \in Seq(Nat) /\ m_send_buffer' # <<>>
      BY <1>2, <1>4, <2>1, AppendType, AppendSome DEF push_send_data
    <3>2. Head(m_send_buffer') \in Nat
      BY <3>1, TailType
    <3>3. writing' \in Seq(Nat)
      BY <1>4, <2>1, <3>2, AppendType DEF push_send_data, send
    <3> QED
      BY <2>1, <3>1, <3>3 DEF push_send_data, TypeOK, ExchangeOK
  <2>2. CASE handle_recv
    <3>1. m_recv_buffer' \in Seq(Nat)
      BY <1>2, <1>4, <2>2, AppendType DEF handle_recv
    <3> QED
      BY <2>2, <3>1 DEF handle_recv, TypeOK, ExchangeOK
  <2>3. CASE handle_send
    <3>1. m_send_buffer # <<>>
      BY <2>3, Found DEF handle_send, WriteToken
    <3>2. m_send_buffer' \in Seq(Nat)
      BY <1>4, <2>3, <3>1, TailType DEF handle_send
    <3>3. writing' \in Seq(Nat)
      <4>1. m_send_buffer' # <<>> => Append(writing, Head(m_send_buffer')) \in Seq(Nat)
        BY <1>4, <3>2, TailType, AppendType
      <4> QED
        BY <1>4, <2>3, <4>1 DEF handle_send, send
    <3> QED
      BY <2>3, <3>2, <3>3 DEF handle_send, TypeOK, ExchangeOK
  <2> QED
    BY <2>1, <2>2, <2>3
<1> QED
  BY <1>1, <1>2, <1>3, <1>5, TypeParts

\* The user and the network.
LEMMA TypeOutside ==
    ASSUME TypeOK,
           \/ Return \/ send_buffer_fill \/ UserCloses \/ recv_buffer_drop
           \/ DatagramArrives \/ ReceiveFails \/ ReceiveAborts \/ SendCompletes
    PROVE  TypeOK'
<1> USE DEF exchange, bufferVars, operations, netVars, userVars, life, callVars, arguments,
            attempt, setupVars
<1>1. AttemptOK' /\ m_running' \in BOOLEAN /\ socket' \in {"closed", "open"}
  <2>1. CASE Return
    BY <2>1 DEF Return, ReturnToReading, ReturnFromSend, ReturnFromClose, ReturnFromFailure,
       TypeOK, AttemptOK
  <2> QED
    BY <2>1 DEF send_buffer_fill, UserCloses, recv_buffer_drop, DatagramArrives,
       ReceiveFails, ReceiveAborts, SendCompletes, TypeOK, AttemptOK
<1>2. posted + 1 \in Nat /\ arrived + 1 \in Nat /\ errors + 1 \in Nat /\ reading \in Nat
      /\ asked + 1 \in Nat
  BY DEF TypeOK
<1>3. queue' \in Seq(Handlers)
  <2>1. queue \in Seq(Handlers)
    BY DEF TypeOK
  <2>2. CASE Return
    BY <2>1, <2>2, PostedType DEF Return, ReturnToReading, ReturnFromSend, ReturnFromClose,
       ReturnFromFailure, Answer, Post, Ops
  <2>3. CASE SendCompletes
    BY <2>3, PostedType DEF SendCompletes, Completed, Ops
  <2> QED
    BY <1>2, <2>1, <2>2, <2>3, PostedType DEF send_buffer_fill, UserCloses, recv_buffer_drop,
       DatagramArrives, ReceiveFails, ReceiveAborts, Completed, Post, Ops
<1>4. CallTypeOK'
  BY DEF Return, send_buffer_fill, UserCloses, recv_buffer_drop, DatagramArrives,
     ReceiveFails, ReceiveAborts, SendCompletes, TypeOK, CallTypeOK
<1>5. ExchangeOK'
  <2>1. CASE Return
    <3>1. reading' \in Nat
      BY <1>2, <2>1 DEF Return, ReturnToReading, ReturnFromSend, ReturnFromClose,
         ReturnFromFailure, recv
    <3>2. rejected' \subseteq Callbacks
      BY <2>1 DEF Return, ReturnToReading, ReturnFromSend, ReturnFromClose,
         ReturnFromFailure, Answer, TypeOK, Callbacks, DataCallbacks
    <3> QED
      BY <2>1, <3>1, <3>2 DEF Return, TypeOK, ExchangeOK
  <2>2. CASE send_buffer_fill \/ UserCloses
    BY <1>2, <2>2 DEF send_buffer_fill, UserCloses, TypeOK, ExchangeOK
  <2>3. CASE recv_buffer_drop
    <3>1. m_recv_buffer' \in Seq(Nat)
      BY <2>3, TailType DEF recv_buffer_drop, TypeOK
    <3> QED
      BY <2>3, <3>1 DEF recv_buffer_drop, TypeOK, ExchangeOK
  <2>4. CASE DatagramArrives \/ ReceiveFails \/ ReceiveAborts
    <3>1. reading' \in Nat /\ errors' \in Nat /\ arrived' \in Nat
      <4>1. reading > 0 /\ reading' = reading - 1
        BY <2>4 DEF DatagramArrives, ReceiveFails, ReceiveAborts
      <4>2. errors' \in {errors, errors + 1} /\ arrived' \in {arrived, arrived + 1}
        BY <2>4 DEF DatagramArrives, ReceiveFails, ReceiveAborts, Fails
      <4>3. errors \in Nat /\ arrived \in Nat
        BY DEF TypeOK
      <4>4. reading' \in Nat
        BY <1>2, <4>1
      <4> QED
        BY <1>2, <4>2, <4>3, <4>4
    <3> QED
      BY <2>4, <3>1 DEF DatagramArrives, ReceiveFails, ReceiveAborts, TypeOK, ExchangeOK
  <2>5. CASE SendCompletes
    <3>1. writing \in Seq(Nat) /\ writing # <<>> /\ delivered \in Seq(Nat)
      BY <2>5 DEF SendCompletes, TypeOK
    <3>2. Tail(writing) \in Seq(Nat) /\ Append(delivered, Head(writing)) \in Seq(Nat)
      BY <3>1, TailType, AppendType
    <3>3. errors' \in Nat
      BY <1>2, <2>5 DEF SendCompletes, Fails, TypeOK
    <3> QED
      BY <2>5, <3>1, <3>2, <3>3 DEF SendCompletes, TypeOK, ExchangeOK
  <2> QED
    BY <2>1, <2>2, <2>3, <2>4, <2>5
<1> QED
  BY <1>1, <1>3, <1>4, <1>5, TypeParts

\* Every step keeps the types.
LEMMA TypeStep ==
    TypeOK /\ SetupToken /\ Trying /\ WriteToken /\ [Next]_vars => TypeOK'
<1>1. ASSUME TypeOK, UNCHANGED vars PROVE TypeOK'
  BY <1>1 DEF TypeOK, vars, attempt, arguments, setupVars, life, callVars, exchange,
              bufferVars, operations, netVars, userVars
<1> QED
  BY <1>1, TypeConnecting, TypeOpening, TypeExchange, TypeOutside DEF Next, IoThread

-----------------------------------------------------------------------------
(* The tokens, step by step.                                               *)

\* While something is being connected, nobody knows the connection.
LEMMA NotAnswered ==
    ASSUME TypeOK, Tokens, setup # "none" \/ \E op \in SetupOps : Runs(op)
    PROVE  /\ answer = "none" /\ ~m_running /\ closes = 0 /\ rejected = {}
           /\ callback \in {"none", "terminated", "connect_failed"}
           /\ reading = 0 /\ writing = <<>> /\ m_send_buffer = <<>>
           /\ NoneIn(queue, {"recv"}) /\ NoneIn(queue, {"send"}) /\ NoneIn(queue, {"push"})
           /\ late["on_recv"] = 0 /\ late["on_send"] = 0 /\ ~Deaf
<1>1. answer = "none"
  BY Found DEF Tokens, SetupToken
<1>2. ~m_running /\ closes = 0 /\ rejected = {}
  BY <1>1 DEF Tokens, Unknown
<1> QED
  BY <1>1, <1>2 DEF Tokens, Unknown, CloseToken, Deaf

\* So that the tokens of the exchange are kept by what leaves it alone.
LEMMA NothingOut ==
    ASSUME rejected' = {}, reading' = 0, writing' = <<>>, m_send_buffer' = <<>>, closes' = 0,
           late'["on_recv"] = 0, late'["on_send"] = 0,
           NoneIn(queue', {"recv"}), NoneIn(queue', {"send"})
    PROVE  ReadToken' /\ WriteToken' /\ CloseToken'
<1>1. ~Deaf'
  BY DEF Deaf
<1>2. OneIn(queue', {"recv"}) /\ OneIn(queue', {"send"})
  BY DEF OneIn, NoneIn
<1>3. Len(writing') = 0
  OBVIOUS
<1> QED
  BY <1>1, <1>2, <1>3 DEF ReadToken, WriteToken, CloseToken

\* Steps that leave every token where it is.
LEMMA TokensQuiet ==
    ASSUME TypeOK, Tokens,
           \/ UNCHANGED vars \/ recv_buffer_drop
           \/ async_create_connection /\ setup' # "none"
    PROVE  Tokens'
<1> USE DEF exchange, bufferVars, operations, netVars, userVars, life, callVars, arguments,
            attempt, setupVars
<1>1. /\ UNCHANGED <<queue, answer, callback, closes, m_running, rejected, reading,
                    writing, m_send_buffer, late, socket>>
      /\ setup' = setup \/ (setup = "idle" /\ setup' # "none")
  BY DEF vars, async_create_connection, recv_buffer_drop
<1> QED
  BY <1>1 DEF Tokens, SetupToken, Unknown, ReadToken, WriteToken, CloseToken, Holding, Deaf

\* A connecting operation ends with a handler in the queue, or in an answer.
LEMMA TokensConnecting ==
    ASSUME TypeOK, Tokens,
           \/ async_create_connection /\ setup' = "none"
           \/ sync_create_connection \/ ResolveCompletes \/ ConnectCompletes
    PROVE  Tokens'
<1> USE DEF exchange, bufferVars, operations, netVars, userVars, life, callVars, arguments
<1>1. /\ setup # "none" /\ setup' = "none" /\ NoneIn(queue, SetupOps)
      /\ UNCHANGED <<m_running, rejected, reading, writing, m_send_buffer, callback, closes,
                     late>>
  BY DEF async_create_connection, sync_create_connection, ResolveCompletes,
         ConnectCompletes, Tokens, SetupToken
<1>2. \/ UNCHANGED answer /\ \E op \in SetupOps, ok \in BOOLEAN :
                                queue' = Append(queue, Handler(op, ok, 0))
      \/ UNCHANGED queue /\ answer' \in {"exception", "false"}
  BY DEF async_create_connection, sync_create_connection, ResolveCompletes,
         ConnectCompletes, Post, SetupOps
<1>3. CASE UNCHANGED answer /\ \E op \in SetupOps, ok \in BOOLEAN :
                                  queue' = Append(queue, Handler(op, ok, 0))
  <2> PICK op \in SetupOps, ok \in BOOLEAN : queue' = Append(queue, Handler(op, ok, 0))
    BY <1>3
  <2>1. op \in Ops /\ op \notin {"recv"} /\ op \notin {"send"} /\ op \notin {"push"}
    BY DEF SetupOps, Ops
  <2>2. /\ \A ops : NoneIn(queue', ops) <=> NoneIn(queue, ops) /\ op \notin ops
        /\ \A ops : OneIn(queue, ops) /\ (op \notin ops \/ NoneIn(queue, ops))
                         => OneIn(queue', ops)
    BY <2>1, Posting
  <2>3. NoneIn(queue', {"recv"}) /\ NoneIn(queue', {"send"}) /\ NoneIn(queue', {"push"})
    BY <1>1, <2>1, <2>2, NotAnswered
  <2>4. SetupToken' /\ Unknown'
    BY <1>1, <1>3, <2>2, <2>3, NotAnswered DEF Tokens, SetupToken, Unknown
  <2>5. ReadToken' /\ WriteToken' /\ CloseToken'
    BY <1>1, <2>3, NotAnswered, NothingOut
  <2> QED
    BY <2>4, <2>5 DEF Tokens
<1>4. CASE UNCHANGED queue /\ answer' \in {"exception", "false"}
  <2>1. SetupToken' /\ Unknown'
    BY <1>1, <1>4, NotAnswered DEF Tokens, SetupToken, Unknown
  <2>2. ReadToken' /\ WriteToken' /\ CloseToken'
    BY <1>1, <1>4, NotAnswered, NothingOut
  <2> QED
    BY <2>1, <2>2 DEF Tokens
<1> QED
  BY <1>2, <1>3, <1>4

LEMMA TokensAsync ==
    ASSUME TypeOK, Tokens, async_create_connection
    PROVE  Tokens'
<1>1. CASE setup' # "none"
  BY <1>1, TokensQuiet
<1>2. CASE setup' = "none"
  BY <1>2, TokensConnecting
<1> QED
  BY <1>1, <1>2

\* The handlers of the attempt: its token goes on to the next, or is spent on
\* an answer, and with the connection the receive's token is on_connect's.
LEMMA TokensOpening ==
    ASSUME TypeOK, Tokens, handle_resolve \/ handle_connect \/ start
    PROVE  Tokens'
<1> USE DEF exchange, bufferVars, operations, netVars, userVars, life, callVars, arguments,
            attempt, setupVars
<1> PICK op \in SetupOps : Runs(op)
  BY DEF handle_resolve, handle_connect, start, SetupOps
<1>1. /\ UNCHANGED <<rejected, reading, writing, m_send_buffer>>
      /\ callback = "none" /\ setup = "none" /\ OneIn(queue, SetupOps)
  BY Found DEF handle_resolve, handle_connect, start, Runs, Tokens, SetupToken
<1>2. /\ closes' = closes /\ late' = late
      /\ \/ /\ answer' = answer /\ callback' \in {"none", "terminated"}
            /\ m_running' = m_running
         \/ /\ answer' = "nullptr" /\ callback' = "connect_failed" /\ setup' = "none"
            /\ queue' = Tail(queue) /\ m_running' = m_running
         \/ /\ answer' = "connection" /\ callback' = "on_connect" /\ setup' = "none"
            /\ queue' = Tail(queue)
  BY <1>1, CallsWhat DEF handle_resolve, handle_connect, start, Callbacks, Stay
<1>3. \/ queue' = Tail(queue)
      \/ queue' = Append(Tail(queue), Post("start")) /\ setup' = "none"
  BY <1>1 DEF handle_resolve, handle_connect, start, Stay
<1>4. CASE queue' = Tail(queue)
  <2>1. NoneIn(queue', SetupOps) /\ OneIn(queue', SetupOps)
    BY <1>1, <1>4, Running
  <2>2. NoneIn(queue', {"recv"}) /\ NoneIn(queue', {"send"}) /\ NoneIn(queue', {"push"})
    BY <1>4, Running, NotAnswered
  <2>3. SetupToken' /\ Unknown'
    BY <1>1, <1>2, <2>1, <2>2, NotAnswered DEF SetupToken, Unknown
  <2> QED
    BY <1>1, <1>2, <2>2, <2>3, NotAnswered, NothingOut DEF Tokens
<1>5. CASE queue' = Append(Tail(queue), Post("start")) /\ setup' = "none"
  <2>1. "start" \notin {"recv"} /\ "start" \notin {"send"} /\ "start" \notin {"push"}
    OBVIOUS
  <2>2. NoneIn(queue', {"recv"}) /\ NoneIn(queue', {"send"}) /\ NoneIn(queue', {"push"})
    BY <1>5, <2>1, RunningPosts, NotAnswered
  <2>3. OneIn(queue', SetupOps) /\ queue' # Tail(queue)
    <3>1. OneIn(queue', SetupOps)
      BY <1>1, <1>5, RunningPosts
    <3>2. Tail(queue) \in Seq(Handlers) /\ Post("start") \in Handlers
      BY RanType, PostType DEF Ops
    <3>3. Len(Append(Tail(queue), Post("start"))) # Len(Tail(queue))
      BY <3>2, AppendAt
    <3> QED
      BY <1>5, <3>1, <3>3
  <2>4. SetupToken' /\ Unknown'
    BY <1>1, <1>2, <1>5, <2>2, <2>3, NotAnswered DEF SetupToken, Unknown
  <2> QED
    BY <1>1, <1>2, <2>2, <2>4, NotAnswered, NothingOut DEF Tokens
<1> QED
  BY <1>3, <1>4, <1>5

\* stop: the socket is closed with the call of on_close, so that what is still
\* outstanding can only fail.
LEMMA TokensStop ==
    ASSUME TypeOK, Tokens, stop
    PROVE  Tokens'
<1> USE DEF exchange, bufferVars, operations, netVars, userVars, life, callVars, arguments,
            attempt, setupVars
<1>1. /\ Runs("stop") /\ callback = "none" /\ closes \in Nat /\ queue' = Tail(queue)
      /\ UNCHANGED <<setup, m_running, reading, writing, m_send_buffer, rejected>>
      /\ "stop" \notin SetupOps
  BY DEF stop, Runs, TypeOK, SetupOps
<1>2. \/ UNCHANGED <<callback, answer, closes, late, socket>>
      \/ /\ m_running /\ callback' = "on_close" /\ socket' = "closed"
         /\ closes' = closes + 1 /\ UNCHANGED <<answer, late>>
  BY CallsWhat DEF stop, may_stop, CloseSocket, Callbacks
<1>3. /\ \A ops : NoneIn(queue, ops) => NoneIn(queue', ops)
      /\ \A ops : OneIn(queue, ops) => OneIn(queue', ops)
      /\ \A o : FailIn(queue, o) => FailIn(queue', o)
  BY <1>1, Running
<1>4. SetupToken' /\ WriteToken'
  BY <1>1, <1>2, <1>3 DEF Tokens, SetupToken, WriteToken
<1>5. Unknown'
  BY <1>1, <1>2, <1>3 DEF Tokens, Unknown
<1>6. ReadToken'
  BY <1>1, <1>2, <1>3 DEF Tokens, ReadToken, Holding, Deaf
<1>7. CloseToken'
  BY <1>1, <1>2, <1>3 DEF Tokens, CloseToken
<1> QED
  BY <1>4, <1>5, <1>6, <1>7 DEF Tokens

\* A pack that is added to a buffer leaves the front where it is.
LEMMA HeadOfAppend ==
    ASSUME NEW q \in Seq(Nat), NEW x \in Nat
    PROVE  /\ Append(q, x) # <<>>
           /\ q # <<>> => Head(Append(q, x)) = Head(q)
           /\ q = <<>> => Head(Append(q, x)) = x
OBVIOUS

\* push_send_data: a pack put into an empty buffer is sent.
LEMMA TokensPush ==
    ASSUME TypeOK, Tokens, push_send_data
    PROVE  Tokens'
<1> USE DEF exchange, bufferVars, operations, netVars, userVars, life, callVars, arguments,
            attempt, setupVars
<1>1. /\ Runs("push") /\ queue' = Tail(queue) /\ "push" \notin SetupOps
      /\ UNCHANGED <<setup, answer, callback, closes, m_running, rejected, reading, late,
                     socket>>
  BY DEF push_send_data, SetupOps
<1>2. /\ \A ops : NoneIn(queue, ops) => NoneIn(queue', ops)
      /\ \A ops : OneIn(queue, ops) => OneIn(queue', ops)
      /\ \A o : FailIn(queue, o) => FailIn(queue', o)
      /\ ~NoneIn(queue, {"push"})
  BY <1>1, Running, Found
<1>3. answer = "connection"
  BY <1>2 DEF Tokens, Unknown
<1>4. SetupToken' /\ Unknown' /\ ReadToken' /\ CloseToken'
  BY <1>1, <1>2, <1>3 DEF Tokens, SetupToken, Unknown, ReadToken, CloseToken, Holding, Deaf
<1>5. WriteToken'
  <2>1. m_send_buffer \in Seq(Nat) /\ Head(queue).n \in Nat
    BY <1>1, RanType DEF TypeOK
  <2>2. m_send_buffer' # <<>> /\ (m_send_buffer # <<>> => Head(m_send_buffer') = Head(m_send_buffer))
    BY <2>1, HeadOfAppend DEF push_send_data
  <2>3. CASE m_send_buffer = <<>>
    <3>1. writing = <<>> /\ NoneIn(queue, {"send"})
      BY <2>3 DEF Tokens, WriteToken
    <3>2. writing' = Append(<<>>, Head(m_send_buffer'))
      BY <2>3, <3>1 DEF push_send_data, need_send, send
    <3>3. Len(writing') = 1 /\ writing'[1] = Head(m_send_buffer')
      BY <3>2
    <3> QED
      BY <1>2, <2>2, <3>1, <3>3 DEF Tokens, WriteToken
  <2>4. CASE m_send_buffer # <<>>
    <3>1. writing' = writing
      BY <2>4 DEF push_send_data, need_send
    <3> QED
      BY <1>2, <2>2, <2>4, <3>1 DEF Tokens, WriteToken
  <2> QED
    BY <2>3, <2>4
<1> QED
  BY <1>4, <1>5 DEF Tokens

\* What a completion that is handled does to the rest of the queue, whether or
\* not it posts a stop.
LEMMA HandlesOne ==
    ASSUME TypeOK, NEW op \in {"recv", "send"}, Runs(op),
           queue' = Tail(queue) \/ queue' = Append(Tail(queue), Post("stop"))
    PROVE  /\ NoneIn(queue, SetupOps) => NoneIn(queue', SetupOps)
           /\ OneIn(queue, SetupOps) => OneIn(queue', SetupOps)
           /\ \A o \in {"recv", "send", "push"} : NoneIn(queue, {o}) => NoneIn(queue', {o})
           /\ \A o \in {"recv", "send"} : OneIn(queue, {o}) => OneIn(queue', {o})
           /\ \A o \in {"recv", "send"} : FailIn(queue, o) => FailIn(queue', o)
           /\ OneIn(queue, {op}) => NoneIn(queue', {op})
           /\ ~NoneIn(queue, {op}) /\ callback = "none"
<1>1. "stop" \notin SetupOps /\ \A o \in {"recv", "send", "push"} : "stop" \notin {o} /\ o # "stop"
  BY DEF SetupOps
<1>2. op \in {op} /\ ~NoneIn(queue, {op}) /\ callback = "none"
  BY Found DEF Runs
<1>3. CASE queue' = Tail(queue)
  <2>1. /\ \A ops : NoneIn(queue, ops) => NoneIn(queue', ops)
        /\ \A ops : OneIn(queue, ops) => OneIn(queue', ops)
        /\ \A ops : OneIn(queue, ops) /\ op \in ops => NoneIn(queue', ops)
        /\ \A o : FailIn(queue, o) => FailIn(queue', o)
    BY <1>3, Running
  <2> QED
    BY <1>2, <2>1
<1>4. CASE queue' = Append(Tail(queue), Post("stop"))
  <2>1. /\ \A ops : "stop" \notin ops /\ NoneIn(queue, ops) => NoneIn(queue', ops)
        /\ \A ops : "stop" \notin ops /\ OneIn(queue, ops) => OneIn(queue', ops)
        /\ \A ops : op \in ops /\ "stop" \notin ops /\ OneIn(queue, ops) => NoneIn(queue', ops)
        /\ \A f : f # "stop" /\ FailIn(queue, f) => FailIn(queue', f)
    BY <1>4, RunningPosts
  <2> QED
    BY <1>1, <1>2, <2>1
<1> QED
  BY <1>3, <1>4

\* handle_recv: the receive's token goes to on_recv, or is given up for a
\* stop; a late one was the last that could succeed.
LEMMA TokensRecv ==
    ASSUME TypeOK, Tokens, handle_recv
    PROVE  Tokens'
<1> USE DEF exchange, bufferVars, operations, netVars, userVars, life, callVars, arguments,
            attempt, setupVars
<1>1. /\ Runs("recv")
      /\ UNCHANGED <<setup, m_running, rejected, reading, writing, m_send_buffer, socket>>
      /\ queue' = Tail(queue) \/ queue' = Append(Tail(queue), Post("stop"))
      /\ closes \in Nat /\ late \in [{"on_recv", "on_send"} -> Nat] /\ reading \in Nat
  BY DEF handle_recv, close, TypeOK, DataCallbacks
<1>2. /\ NoneIn(queue, SetupOps) => NoneIn(queue', SetupOps)
      /\ OneIn(queue, SetupOps) => OneIn(queue', SetupOps)
      /\ NoneIn(queue, {"send"}) => NoneIn(queue', {"send"})
      /\ OneIn(queue, {"send"}) => OneIn(queue', {"send"})
      /\ FailIn(queue, "send") => FailIn(queue', "send")
      /\ OneIn(queue, {"recv"}) => NoneIn(queue', {"recv"})
      /\ ~NoneIn(queue, {"recv"}) /\ callback = "none"
  BY <1>1, HandlesOne
<1>3. answer = "connection" /\ ~Deaf /\ reading = 0 /\ NoneIn(queue', {"recv"})
  BY <1>1, <1>2 DEF Tokens, Unknown, ReadToken
<1>4. OneIn(queue', {"recv"}) /\ FailIn(queue', "recv")
  BY <1>3, NoneFails DEF OneIn, NoneIn
<1>5. \/ /\ callback' = "on_recv" /\ ~Failed /\ UNCHANGED <<answer, closes>>
         /\ late' = IF closes > 0 THEN [late EXCEPT !["on_recv"] = @ + 1] ELSE late
      \/ UNCHANGED callVars
  BY CallsWhat DEF handle_recv, DataCallbacks, Callbacks
<1>6. SetupToken' /\ Unknown' /\ WriteToken'
  BY <1>1, <1>2, <1>3, <1>5 DEF Tokens, SetupToken, Unknown, WriteToken
<1>7. ReadToken'
  BY <1>1, <1>3, <1>4 DEF ReadToken, Deaf
<1>8. CloseToken'
  <2>1. ~Failed => late["on_recv"] = 0
    BY <1>1, Found DEF Tokens, CloseToken
  <2>2. /\ late'["on_send"] = late["on_send"] /\ late'["on_recv"] <= 1
        /\ closes = 0 => late' = late
    BY <1>1, <1>5, <2>1 DEF Tokens, CloseToken
  <2>3. m_running => closes = 0
    BY <1>2 DEF Tokens, CloseToken
  <2> QED
    BY <1>1, <1>2, <1>4, <1>5, <2>2, <2>3 DEF Tokens, CloseToken
<1> QED
  BY <1>6, <1>7, <1>8 DEF Tokens

\* handle_send: the send's token goes to the next pack, or is given up with
\* the last one, or with a failure.
LEMMA TokensSend ==
    ASSUME TypeOK, Tokens, handle_send
    PROVE  Tokens'
<1> USE DEF exchange, bufferVars, operations, netVars, userVars, life, callVars, arguments,
            attempt, setupVars
<1>1. /\ Runs("send")
      /\ UNCHANGED <<setup, m_running, rejected, reading, socket>>
      /\ queue' = Tail(queue) \/ queue' = Append(Tail(queue), Post("stop"))
      /\ closes \in Nat /\ late \in [{"on_recv", "on_send"} -> Nat]
  BY DEF handle_send, close, TypeOK, DataCallbacks
<1>2. /\ NoneIn(queue, SetupOps) => NoneIn(queue', SetupOps)
      /\ OneIn(queue, SetupOps) => OneIn(queue', SetupOps)
      /\ NoneIn(queue, {"recv"}) => NoneIn(queue', {"recv"})
      /\ OneIn(queue, {"recv"}) => OneIn(queue', {"recv"})
      /\ FailIn(queue, "recv") => FailIn(queue', "recv")
      /\ OneIn(queue, {"send"}) => NoneIn(queue', {"send"})
      /\ ~NoneIn(queue, {"send"}) /\ callback = "none"
  BY <1>1, HandlesOne
<1>3. /\ answer = "connection" /\ NoneIn(queue', {"send"})
      /\ writing = <<>> /\ m_send_buffer # <<>>
  BY <1>2 DEF Tokens, Unknown, WriteToken
<1>4. OneIn(queue', {"send"}) /\ FailIn(queue', "send")
  BY <1>3, NoneFails DEF OneIn, NoneIn
<1>5. \/ /\ callback' = "on_send" /\ ~Failed /\ UNCHANGED <<answer, closes>>
         /\ late' = IF closes > 0 THEN [late EXCEPT !["on_send"] = @ + 1] ELSE late
      \/ UNCHANGED callVars
  BY CallsWhat DEF handle_send, DataCallbacks, Callbacks
<1>6. SetupToken' /\ Unknown'
  BY <1>1, <1>2, <1>3, <1>5 DEF Tokens, SetupToken, Unknown
<1>7. ReadToken'
  BY <1>1, <1>2, <1>5 DEF Tokens, ReadToken, Holding, Deaf
<1>8. WriteToken'
  <2>1. CASE m_send_buffer' = <<>> \/ Failed
    <3>1. writing' = <<>>
      BY <1>3, <2>1 DEF handle_send
    <3> QED
      BY <1>3, <1>4, <3>1 DEF WriteToken
  <2>2. CASE m_send_buffer' # <<>> /\ ~Failed
    <3>1. writing' = Append(<<>>, Head(m_send_buffer'))
      BY <1>3, <2>2 DEF handle_send, send
    <3>2. Len(writing') = 1 /\ writing'[1] = Head(m_send_buffer')
      BY <3>1
    <3> QED
      BY <1>3, <1>4, <2>2, <3>2 DEF WriteToken
  <2> QED
    BY <2>1, <2>2
<1>9. CloseToken'
  <2>1. ~Failed => late["on_send"] = 0
    BY <1>1, Found DEF Tokens, CloseToken
  <2>2. /\ late'["on_recv"] = late["on_recv"] /\ late'["on_send"] <= 1
        /\ closes = 0 => late' = late
    BY <1>1, <1>5, <2>1 DEF Tokens, CloseToken
  <2>3. m_running => closes = 0
    BY <1>2 DEF Tokens, CloseToken
  <2> QED
    BY <1>1, <1>2, <1>4, <1>5, <2>2, <2>3 DEF Tokens, CloseToken
<1> QED
  BY <1>6, <1>7, <1>8, <1>9 DEF Tokens

\* A stop or a push that is posted moves no token.
LEMMA PostingOther ==
    ASSUME TypeOK, NEW op \in {"stop", "push"}, NEW n \in Nat,
           queue' = Append(queue, Handler(op, TRUE, n))
    PROVE  /\ NoneIn(queue', SetupOps) <=> NoneIn(queue, SetupOps)
           /\ OneIn(queue, SetupOps) => OneIn(queue', SetupOps)
           /\ \A o \in {"recv", "send"} : NoneIn(queue', {o}) <=> NoneIn(queue, {o})
           /\ \A o \in {"recv", "send"} : OneIn(queue, {o}) => OneIn(queue', {o})
           /\ \A o \in {"recv", "send"} : FailIn(queue, o) => FailIn(queue', o)
<1>1. op \in Ops /\ op \notin SetupOps /\ \A o \in {"recv", "send"} : op \notin {o} /\ op # o
  BY DEF Ops, SetupOps
<1>2. /\ \A ops : NoneIn(queue', ops) <=> NoneIn(queue, ops) /\ op \notin ops
      /\ \A ops : OneIn(queue, ops) /\ (op \notin ops \/ NoneIn(queue, ops))
                       => OneIn(queue', ops)
      /\ \A o : FailIn(queue', o) <=> FailIn(queue, o) /\ (op = o => ~TRUE)
  BY <1>1, Posting
<1> QED
  BY <1>1, <1>2

\* The end of a callback: the receive's token goes back to the kernel, or a
\* user who returned false takes it away.
LEMMA TokensReturn ==
    ASSUME TypeOK, Tokens, Return
    PROVE  Tokens'
<1> USE DEF exchange, bufferVars, operations, netVars, userVars, life, callVars, arguments,
            attempt, setupVars
<1>1. /\ UNCHANGED <<setup, writing, m_send_buffer, socket, answer, closes, late>>
      /\ callback' = "none" /\ reading \in Nat
  BY DEF Return, TypeOK
<1>2. \/ /\ callback \in {"on_connect", "on_recv"} /\ reading' = reading + 1
         /\ UNCHANGED <<queue, rejected, m_running>>
      \/ /\ callback \in {"on_connect", "on_recv", "on_send"} /\ UNCHANGED <<reading, m_running>>
         /\ queue' = Append(queue, Handler("stop", TRUE, 0))
         /\ rejected' = rejected \cup {callback}
      \/ callback \in {"on_send", "connect_failed"}
         /\ UNCHANGED <<reading, queue, rejected, m_running>>
      \/ callback = "on_close" /\ m_running' = FALSE /\ UNCHANGED <<reading, queue, rejected>>
  BY DEF Return, ReturnToReading, ReturnFromSend, ReturnFromClose, ReturnFromFailure,
         Answer, recv, Post
<1>3. answer # "connection" => callback = "connect_failed"
  BY <1>2 DEF Tokens, Unknown
<1>4. CASE queue' = queue
  <2>1. SetupToken' /\ WriteToken'
    BY <1>1, <1>4 DEF Tokens, SetupToken, WriteToken
  <2>2. Unknown'
    BY <1>1, <1>2, <1>3, <1>4 DEF Tokens, Unknown
  <2>3. CloseToken'
    <3>1. callback # "on_close" => m_running' = m_running
      BY <1>2
    <3>2. callback = "on_close" => ~m_running'
      BY <1>2
    <3> QED
      BY <1>1, <1>4, <3>1, <3>2 DEF Tokens, CloseToken
  <2>4. rejected' = rejected
    <3>1. queue \in Seq(Handlers) /\ Handler("stop", TRUE, 0) \in Handlers
      BY HandlerType DEF TypeOK, Ops
    <3>2. Len(Append(queue, Handler("stop", TRUE, 0))) # Len(queue)
      BY <3>1, AppendAt
    <3> QED
      BY <1>2, <1>4, <3>2
  <2>5. ReadToken'
    <3>1. ~Holding' /\ (Deaf' <=> Deaf)
      BY <1>1, <2>4 DEF Holding, Deaf
    <3>2. reading' = reading \/ (Holding /\ reading' = reading + 1)
      BY <1>2, <1>4, <2>4 DEF Holding
    <3>3. Holding => reading = 0 /\ ~Deaf /\ NoneIn(queue, {"recv"})
      BY DEF Tokens, ReadToken
    <3>4. (reading' > 0 => NoneIn(queue', {"recv"})) /\ reading' <= 1
      BY <1>1, <1>4, <3>2, <3>3 DEF Tokens, ReadToken
    <3>5. Deaf => reading' = 0 /\ NoneIn(queue', {"recv"})
      BY <1>4, <3>2, <3>3 DEF Tokens, ReadToken
    <3> QED
      BY <1>4, <3>1, <3>4, <3>5 DEF Tokens, ReadToken
  <2> QED
    BY <2>1, <2>2, <2>3, <2>5 DEF Tokens
<1>5. CASE /\ callback \in {"on_connect", "on_recv", "on_send"} /\ UNCHANGED <<reading, m_running>>
           /\ queue' = Append(queue, Handler("stop", TRUE, 0))
           /\ rejected' = rejected \cup {callback}
  <2>1. /\ NoneIn(queue', SetupOps) <=> NoneIn(queue, SetupOps)
        /\ OneIn(queue, SetupOps) => OneIn(queue', SetupOps)
        /\ \A o \in {"recv", "send"} : NoneIn(queue', {o}) <=> NoneIn(queue, {o})
        /\ \A o \in {"recv", "send"} : OneIn(queue, {o}) => OneIn(queue', {o})
        /\ \A o \in {"recv", "send"} : FailIn(queue, o) => FailIn(queue', o)
    BY <1>5, PostingOther
  <2>2. SetupToken' /\ WriteToken'
    BY <1>1, <2>1 DEF Tokens, SetupToken, WriteToken
  <2>3. Unknown'
    BY <1>1, <1>3, <1>5 DEF Unknown
  <2>4. CloseToken'
    BY <1>1, <1>5, <2>1 DEF Tokens, CloseToken
  <2>5. ReadToken'
    BY <1>1, <1>5, <2>1 DEF Tokens, ReadToken, Holding, Deaf
  <2> QED
    BY <2>2, <2>3, <2>4, <2>5 DEF Tokens
<1> QED
  BY <1>2, <1>4, <1>5

\* What the user does from other threads moves no token.
LEMMA TokensUser ==
    ASSUME TypeOK, Tokens, send_buffer_fill \/ UserCloses
    PROVE  Tokens'
<1> USE DEF exchange, bufferVars, operations, netVars, userVars, life, callVars, arguments,
            attempt, setupVars
<1>1. /\ answer = "connection"
      /\ UNCHANGED <<setup, answer, callback, closes, m_running, rejected, reading, writing,
                     m_send_buffer, late, socket>>
  BY DEF send_buffer_fill, UserCloses
<1>2. \E op \in {"stop", "push"}, n \in Nat : queue' = Append(queue, Handler(op, TRUE, n))
  <2>1. posted + 1 \in Nat /\ 0 \in Nat
    BY DEF TypeOK
  <2>2. CASE send_buffer_fill
    BY <2>1, <2>2 DEF send_buffer_fill
  <2>3. CASE UserCloses
    BY <2>1, <2>3 DEF UserCloses, Post
  <2> QED
    BY <2>2, <2>3
<1>3. /\ NoneIn(queue', SetupOps) <=> NoneIn(queue, SetupOps)
      /\ OneIn(queue, SetupOps) => OneIn(queue', SetupOps)
      /\ \A o \in {"recv", "send"} : NoneIn(queue', {o}) <=> NoneIn(queue, {o})
      /\ \A o \in {"recv", "send"} : OneIn(queue, {o}) => OneIn(queue', {o})
      /\ \A o \in {"recv", "send"} : FailIn(queue, o) => FailIn(queue', o)
  BY <1>2, PostingOther
<1>4. SetupToken' /\ Unknown' /\ WriteToken'
  BY <1>1, <1>3 DEF Tokens, SetupToken, Unknown, WriteToken
<1>5. ReadToken' /\ CloseToken'
  BY <1>1, <1>3 DEF Tokens, ReadToken, CloseToken, Holding, Deaf
<1> QED
  BY <1>4, <1>5 DEF Tokens

\* A receive completes: its token goes from the kernel to the queue.
LEMMA TokensReceive ==
    ASSUME TypeOK, Tokens, DatagramArrives \/ ReceiveFails \/ ReceiveAborts
    PROVE  Tokens'
<1> USE DEF exchange, bufferVars, operations, netVars, userVars, life, callVars, arguments,
            attempt, setupVars
<1>1. /\ UNCHANGED <<setup, answer, callback, closes, m_running, rejected, writing,
                     m_send_buffer, late, socket>>
      /\ reading > 0 /\ reading' = reading - 1 /\ reading \in Nat /\ reading <= 1
      /\ NoneIn(queue, {"recv"})
  BY DEF DatagramArrives, ReceiveFails, ReceiveAborts, TypeOK, Tokens, ReadToken
<1>2. \E ok \in BOOLEAN, n \in Nat :
         queue' = Append(queue, Handler("recv", ok, n)) /\ (ok => socket = "open")
  <2>1. arrived + 1 \in Nat /\ 0 \in Nat
    BY DEF TypeOK
  <2>2. CASE DatagramArrives
    BY <2>1, <2>2 DEF DatagramArrives, Completed
  <2>3. CASE ReceiveFails \/ ReceiveAborts
    BY <2>1, <2>3 DEF ReceiveFails, ReceiveAborts, Completed
  <2> QED
    BY <2>2, <2>3
<1> PICK ok \in BOOLEAN, n \in Nat :
         queue' = Append(queue, Handler("recv", ok, n)) /\ (ok => socket = "open")
  BY <1>2
<1>3. /\ \A ops : NoneIn(queue', ops) <=> NoneIn(queue, ops) /\ "recv" \notin ops
      /\ \A ops : OneIn(queue, ops) /\ ("recv" \notin ops \/ NoneIn(queue, ops))
                       => OneIn(queue', ops)
      /\ \A o : FailIn(queue', o) <=> FailIn(queue, o) /\ ("recv" = o => ~ok)
      /\ "recv" \notin SetupOps
  BY Posting DEF Ops, SetupOps
<1>4. answer = "connection" /\ ~Holding /\ ~Deaf
  BY <1>1 DEF Tokens, Unknown, ReadToken
<1>5. SetupToken' /\ Unknown' /\ WriteToken'
  BY <1>1, <1>3, <1>4 DEF Tokens, SetupToken, Unknown, WriteToken
<1>6. ReadToken'
  <2>1. reading' = 0 /\ ~Holding' /\ ~Deaf'
    BY <1>1, <1>4 DEF Holding, Deaf
  <2>2. OneIn(queue', {"recv"})
    BY <1>1, <1>3 DEF Tokens, ReadToken
  <2> QED
    BY <2>1, <2>2 DEF ReadToken
<1>7. CloseToken'
  <2>1. late["on_recv"] > 0 => ~ok
    BY <1>4 DEF Tokens, CloseToken, TypeOK, DataCallbacks
  <2> QED
    BY <1>1, <1>3, <2>1 DEF Tokens, CloseToken
<1> QED
  BY <1>5, <1>6, <1>7 DEF Tokens

\* A send completes: the same of its token.
LEMMA TokensSendCompletes ==
    ASSUME TypeOK, Tokens, SendCompletes
    PROVE  Tokens'
<1> USE DEF exchange, bufferVars, operations, netVars, userVars, life, callVars, arguments,
            attempt, setupVars
<1>1. /\ UNCHANGED <<setup, answer, callback, closes, m_running, rejected, reading,
                     m_send_buffer, late, socket>>
      /\ writing # <<>> /\ writing' = Tail(writing) /\ writing \in Seq(Nat)
      /\ NoneIn(queue, {"send"}) /\ m_send_buffer # <<>> /\ Len(writing) <= 1
  BY DEF SendCompletes, TypeOK, Tokens, WriteToken
<1>2. writing' = <<>>
  BY <1>1
<1> PICK ok \in BOOLEAN : queue' = Append(queue, Handler("send", ok, 0)) /\ (ok => socket = "open")
  BY DEF SendCompletes, Completed
<1>3. /\ \A ops : NoneIn(queue', ops) <=> NoneIn(queue, ops) /\ "send" \notin ops
      /\ \A ops : OneIn(queue, ops) /\ ("send" \notin ops \/ NoneIn(queue, ops))
                       => OneIn(queue', ops)
      /\ \A o : FailIn(queue', o) <=> FailIn(queue, o) /\ ("send" = o => ~ok)
      /\ "send" \notin SetupOps
  BY Posting DEF Ops, SetupOps
<1>4. answer = "connection"
  BY <1>1 DEF Tokens, Unknown
<1>5. SetupToken' /\ Unknown' /\ ReadToken'
  BY <1>1, <1>3, <1>4 DEF Tokens, SetupToken, Unknown, ReadToken, Holding, Deaf
<1>6. WriteToken'
  <2>1. Len(writing') <= 1
    BY <1>2
  <2> QED
    BY <1>1, <1>2, <1>3, <2>1 DEF Tokens, WriteToken
<1>7. CloseToken'
  <2>1. late["on_send"] > 0 => ~ok
    BY <1>4 DEF Tokens, CloseToken, TypeOK, DataCallbacks
  <2> QED
    BY <1>1, <1>3, <2>1 DEF Tokens, CloseToken
<1> QED
  BY <1>5, <1>6, <1>7 DEF Tokens

\* Every step keeps the tokens.
LEMMA TokensStep == TypeOK /\ Tokens /\ [Next]_vars => Tokens'
<1> SUFFICES ASSUME TypeOK, Tokens, [Next]_vars PROVE Tokens'
  OBVIOUS
<1>1. CASE UNCHANGED vars \/ recv_buffer_drop
  BY <1>1, TokensQuiet
<1>2. CASE async_create_connection
  BY <1>2, TokensAsync
<1>3. CASE sync_create_connection \/ ResolveCompletes \/ ConnectCompletes
  BY <1>3, TokensConnecting
<1> QED
  BY <1>1, <1>2, <1>3, TokensOpening, TokensStop, TokensPush, TokensRecv, TokensSend,
     TokensReturn, TokensUser, TokensReceive, TokensSendCompletes
     DEF Next, IoThread

-----------------------------------------------------------------------------
(* The attempt: the endpoints are tried one after the other, to the last.  *)

\* The queue changes by handlers of these kinds only, but for a stop that the
\* one that runs may post.
QueueMoves(ops) ==
    \/ queue' = queue
    \/ \E op \in ops, ok \in BOOLEAN, n \in Nat : queue' = Append(queue, Handler(op, ok, n))
    \/ \E op \in ops :
          Runs(op) /\ (queue' = Tail(queue) \/ queue' = Append(Tail(queue), Post("stop")))

\* The handlers of any other kind are then what they were.
LEMMA QueueMovesOn ==
    ASSUME TypeOK, NEW ops, ops \subseteq Ops, QueueMoves(ops), NEW o, o \notin ops, o # "stop"
    PROVE  /\ NoneIn(queue', {o}) <=> NoneIn(queue, {o})
           /\ FailIn(queue', o) <=> FailIn(queue, o)
           /\ DoneIn(queue, o) => DoneIn(queue', o)
<1>1. ASSUME NEW op \in ops, NEW ok \in BOOLEAN, NEW n \in Nat,
             queue' = Append(queue, Handler(op, ok, n))
      PROVE  /\ NoneIn(queue', {o}) <=> NoneIn(queue, {o})
             /\ FailIn(queue', o) <=> FailIn(queue, o)
             /\ DoneIn(queue, o) => DoneIn(queue', o)
  <2>1. op \in Ops /\ op \notin {o}
    OBVIOUS
  <2>2. /\ \A k : NoneIn(queue', k) <=> NoneIn(queue, k) /\ op \notin k
        /\ \A k : FailIn(queue', k) <=> FailIn(queue, k) /\ (op = k => ~ok)
        /\ \A k : DoneIn(queue', k) <=> DoneIn(queue, k) /\ (op = k => ok)
    BY <1>1, <2>1, Posting
  <2> QED
    BY <2>1, <2>2
<1>2. ASSUME NEW op \in ops, Runs(op), queue' = Tail(queue)
      PROVE  /\ NoneIn(queue', {o}) <=> NoneIn(queue, {o})
             /\ FailIn(queue', o) <=> FailIn(queue, o)
             /\ DoneIn(queue, o) => DoneIn(queue', o)
  <2>1. op \notin {o}
    OBVIOUS
  <2>2. /\ \A k : NoneIn(queue, k) => NoneIn(queue', k)
        /\ \A k : op \notin k => (NoneIn(queue', k) => NoneIn(queue, k))
        /\ \A k : FailIn(queue, k) <=> FailIn(queue', k) /\ (op = k => Failed)
        /\ \A k : DoneIn(queue, k) <=> DoneIn(queue', k) /\ (op = k => ~Failed)
    BY <1>2, Running
  <2> QED
    BY <2>1, <2>2
<1>3. ASSUME NEW op \in ops, Runs(op), queue' = Append(Tail(queue), Post("stop"))
      PROVE  /\ NoneIn(queue', {o}) <=> NoneIn(queue, {o})
             /\ FailIn(queue', o) <=> FailIn(queue, o)
             /\ DoneIn(queue, o) => DoneIn(queue', o)
  <2>1. op \notin {o} /\ "stop" \notin {o}
    OBVIOUS
  <2>2. /\ \A k : "stop" \notin k /\ NoneIn(queue, k) => NoneIn(queue', k)
        /\ \A k : op \notin k => (NoneIn(queue', k) => NoneIn(queue, k))
        /\ \A k : k # "stop" => (FailIn(queue, k) <=> FailIn(queue', k) /\ (op = k => Failed))
        /\ \A k : DoneIn(queue, k) => DoneIn(queue', k)
    BY <1>3, RunningPosts
  <2> QED
    BY <2>1, <2>2
<1>4. ASSUME queue' = queue
      PROVE  /\ NoneIn(queue', {o}) <=> NoneIn(queue, {o})
             /\ FailIn(queue', o) <=> FailIn(queue, o)
             /\ DoneIn(queue, o) => DoneIn(queue', o)
  BY <1>4
<1> QED
  BY <1>1, <1>2, <1>3, <1>4 DEF QueueMoves

\* Steps that belong to no attempt.
LEMMA TryingQuiet ==
    ASSUME TypeOK, Trying, EveryEndpointTried, UNCHANGED setupVars,
           QueueMoves({"start", "stop", "push", "recv", "send"}),
           answer' = answer \/ answer' # "nullptr"
    PROVE  Trying' /\ EveryEndpointTried'
<1> DEFINE ops == {"start", "stop", "push", "recv", "send"}
<1>1. ops \subseteq Ops /\ "resolve" \notin ops /\ "connect" \notin ops
  BY DEF Ops
<1>2. /\ NoneIn(queue', {"resolve"}) <=> NoneIn(queue, {"resolve"})
      /\ FailIn(queue, "resolve") => FailIn(queue', "resolve")
      /\ DoneIn(queue, "resolve") => DoneIn(queue', "resolve")
  BY <1>1, QueueMovesOn
<1>3. DoneIn(queue, "connect") => DoneIn(queue', "connect")
  BY <1>1, QueueMovesOn
<1> QED
  BY <1>2, <1>3 DEF Trying, EveryEndpointTried, setupVars

\* The steps of the exchange and of the user are of that kind.
LEMMA TryingOthers ==
    ASSUME TypeOK, Trying, EveryEndpointTried,
           \/ UNCHANGED vars \/ start \/ stop \/ push_send_data \/ handle_recv \/ handle_send
           \/ Return \/ send_buffer_fill \/ UserCloses \/ recv_buffer_drop
           \/ DatagramArrives \/ ReceiveFails \/ ReceiveAborts \/ SendCompletes
    PROVE  Trying' /\ EveryEndpointTried'
<1> USE DEF exchange, bufferVars, operations, netVars, userVars, life, callVars, arguments,
            attempt
<1>1. ASSUME \/ UNCHANGED vars \/ recv_buffer_drop
      PROVE  QueueMoves({"start", "stop", "push", "recv", "send"})
  BY <1>1 DEF QueueMoves, vars, recv_buffer_drop
<1>2. ASSUME start \/ stop \/ push_send_data \/ handle_recv \/ handle_send
      PROVE  QueueMoves({"start", "stop", "push", "recv", "send"})
  <2>1. \E op \in {"start", "stop", "push", "recv", "send"} : Runs(op)
    BY <1>2 DEF start, stop, push_send_data, handle_recv, handle_send
  <2>2. queue' = Tail(queue) \/ queue' = Append(Tail(queue), Post("stop"))
    BY <1>2 DEF start, stop, push_send_data, handle_recv, handle_send, close
  <2> QED
    BY <2>1, <2>2 DEF QueueMoves
<1>3. ASSUME \/ Return \/ send_buffer_fill \/ UserCloses
             \/ DatagramArrives \/ ReceiveFails \/ ReceiveAborts \/ SendCompletes
      PROVE  QueueMoves({"start", "stop", "push", "recv", "send"})
  <2>1. 0 \in Nat /\ posted + 1 \in Nat /\ arrived + 1 \in Nat
    BY DEF TypeOK
  <2>2. CASE Return
    BY <2>1, <2>2 DEF QueueMoves, Return, ReturnToReading, ReturnFromSend, ReturnFromClose,
                      ReturnFromFailure, Answer, Post
  <2>3. CASE send_buffer_fill \/ UserCloses
    BY <2>1, <2>3 DEF QueueMoves, send_buffer_fill, UserCloses, Post
  <2>4. CASE DatagramArrives \/ ReceiveFails \/ ReceiveAborts \/ SendCompletes
    BY <2>1, <2>4 DEF QueueMoves, DatagramArrives, ReceiveFails, ReceiveAborts,
                      SendCompletes, Completed
  <2> QED
    BY <1>3, <2>2, <2>3, <2>4
<1>4. UNCHANGED setupVars
  BY DEF vars, start, stop, push_send_data, handle_recv, handle_send, Return,
         send_buffer_fill, UserCloses, recv_buffer_drop, DatagramArrives, ReceiveFails,
         ReceiveAborts, SendCompletes
<1>5. answer' = answer \/ answer' = "connection"
  BY CallsWhat DEF vars, start, stop, push_send_data, handle_recv, handle_send, Return,
         send_buffer_fill, UserCloses, recv_buffer_drop, DatagramArrives, ReceiveFails,
         ReceiveAborts, SendCompletes, Callbacks, DataCallbacks
<1> QED
  BY <1>1, <1>2, <1>3, <1>4, <1>5, TryingQuiet

\* Where no handler of the attempt waits, none has failed or succeeded.
LEMMA NothingSetUp ==
    ASSUME NEW q, NoneIn(q, SetupOps)
    PROVE  /\ NoneIn(q, {"resolve"}) /\ NoneIn(q, {"connect"})
           /\ FailIn(q, "resolve") /\ DoneIn(q, "resolve") /\ DoneIn(q, "connect")
<1>1. NoneIn(q, {"resolve"}) /\ NoneIn(q, {"connect"})
  BY DEF NoneIn, SetupOps
<1> QED
  BY <1>1, NoneEnds

\* The call, the resolver and the kernel.
LEMMA TryingConnecting ==
    ASSUME TypeOK, Tokens, Trying, EveryEndpointTried,
           \/ async_create_connection \/ sync_create_connection
           \/ ResolveCompletes \/ ConnectCompletes
    PROVE  Trying' /\ EveryEndpointTried'
<1>1. /\ NoneIn(queue, SetupOps) /\ setup # "none"
      /\ answer = "none" /\ (UNCHANGED answer \/ answer' \in {"exception", "false"})
      /\ queue \in Seq(Handlers)
      /\ m_resolver_results \in Nat /\ m_resolver_iterator \in Nat /\ tried \in Nat
  BY DEF async_create_connection, sync_create_connection, ResolveCompletes, ConnectCompletes,
         Tokens, SetupToken, callVars, TypeOK
<1>2. /\ NoneIn(queue, {"resolve"}) /\ NoneIn(queue, {"connect"})
      /\ FailIn(queue, "resolve") /\ DoneIn(queue, "resolve") /\ DoneIn(queue, "connect")
  BY <1>1, NothingSetUp
<1>3. EveryEndpointTried'
  BY <1>1 DEF EveryEndpointTried
<1>4. CASE async_create_connection
  <2>1. UNCHANGED <<queue, m_resolver_results, m_resolver_iterator, tried>>
        /\ setup = "idle" /\ setup' \in {"resolve", "none"}
    BY <1>4 DEF async_create_connection
  <2> QED
    BY <1>2, <1>3, <2>1 DEF Trying
<1>5. CASE sync_create_connection
  <2>1. setup' = "none" /\ UNCHANGED m_resolver_iterator
        /\ (queue' = queue \/ queue' = Append(queue, Handler("start", TRUE, 0)))
    BY <1>5 DEF sync_create_connection, Post
  <2>2. /\ NoneIn(queue', {"resolve"}) /\ FailIn(queue', "resolve")
        /\ DoneIn(queue', "resolve") /\ DoneIn(queue', "connect")
    <3>1. CASE queue' = queue
      BY <1>2, <3>1
    <3>2. CASE queue' = Append(queue, Handler("start", TRUE, 0))
      <4>1. /\ \A ops : NoneIn(queue', ops) <=> NoneIn(queue, ops) /\ "start" \notin ops
            /\ \A o : FailIn(queue', o) <=> FailIn(queue, o) /\ ("start" = o => ~TRUE)
            /\ \A o : DoneIn(queue', o) <=> DoneIn(queue, o) /\ ("start" = o => TRUE)
        BY <3>2, Posting DEF Ops
      <4> QED
        BY <1>2, <4>1
    <3> QED
      BY <2>1, <3>1, <3>2
  <2> QED
    BY <1>3, <2>1, <2>2 DEF Trying
<1>6. CASE ResolveCompletes
  <2>1. PICK ok \in BOOLEAN :
           /\ queue' = Append(queue, Handler("resolve", ok, 0))
           /\ m_resolver_results' \in IF ok THEN 1..MaxResults ELSE {0}
    BY <1>6 DEF ResolveCompletes
  <2>2. setup = "resolve" /\ setup' = "none" /\ UNCHANGED <<m_resolver_iterator, tried>>
    BY <1>6 DEF ResolveCompletes
  <2>3. /\ \A o : FailIn(queue', o) <=> FailIn(queue, o) /\ ("resolve" = o => ~ok)
        /\ \A o : DoneIn(queue', o) <=> DoneIn(queue, o) /\ ("resolve" = o => ok)
    BY <2>1, Posting DEF Ops
  <2>4. IF m_resolver_results' = 0 THEN FailIn(queue', "resolve") ELSE DoneIn(queue', "resolve")
    BY <1>2, <2>1, <2>3, BoundsAssumption
  <2>5. tried' = 0 /\ m_resolver_iterator' = 0
    BY <2>2 DEF Trying
  <2> QED
    BY <1>3, <2>2, <2>4, <2>5 DEF Trying
<1>7. CASE ConnectCompletes
  <2>1. PICK ok \in BOOLEAN :
           /\ queue' = Append(queue, Handler("connect", ok, 0))
           /\ tried' = IF ok THEN tried ELSE tried + 1
    BY <1>7 DEF ConnectCompletes
  <2>2. /\ setup' = "none" /\ UNCHANGED <<m_resolver_results, m_resolver_iterator>>
        /\ m_resolver_iterator = tried + 1
    BY <1>7 DEF ConnectCompletes, Trying
  <2>3. /\ \A ops : NoneIn(queue', ops) <=> NoneIn(queue, ops) /\ "connect" \notin ops
        /\ \A o : FailIn(queue', o) <=> FailIn(queue, o) /\ ("connect" = o => ~ok)
        /\ \A o : DoneIn(queue', o) <=> DoneIn(queue, o) /\ ("connect" = o => ok)
    BY <2>1, Posting DEF Ops
  <2>4. NoneIn(queue', {"resolve"}) /\ FailIn(queue', "resolve") /\ DoneIn(queue', "resolve")
    BY <1>2, <2>3
  <2>5. tried' # m_resolver_iterator' => DoneIn(queue', "connect")
    BY <1>2, <2>1, <2>2, <2>3
  <2> QED
    BY <1>3, <2>2, <2>4, <2>5 DEF Trying
<1> QED
  BY <1>4, <1>5, <1>6, <1>7

\* The handlers: the next endpoint, or the end of the attempt.
LEMMA TryingHandlers ==
    ASSUME TypeOK, Tokens, Trying, EveryEndpointTried, handle_resolve \/ handle_connect
    PROVE  Trying' /\ EveryEndpointTried'
<1> USE DEF callVars
<1> PICK op \in {"resolve", "connect"} : Runs(op)
  BY DEF handle_resolve, handle_connect
<1>1. ~NoneIn(queue, {op}) /\ ~NoneIn(queue, SetupOps)
  BY Found DEF SetupOps
<1>2. setup = "none" /\ answer = "none"
  BY <1>1 DEF Tokens, SetupToken
<1>3. /\ m_resolver_results \in Nat /\ tried \in Nat /\ m_resolver_iterator \in Nat
      /\ m_resolver_iterator <= m_resolver_results
      /\ UNCHANGED <<m_resolver_results, tried>>
      /\ queue' = Tail(queue) \/ (~Failed /\ queue' = Append(Tail(queue), Post("start")))
  BY DEF TypeOK, handle_resolve, handle_connect
<1>4. /\ NoneIn(queue', {"resolve"}) /\ FailIn(queue', "resolve")
      /\ DoneIn(queue', "resolve") /\ DoneIn(queue', "connect")
  <2>1. op \in SetupOps /\ OneIn(queue, SetupOps)
    BY DEF Tokens, SetupToken, SetupOps
  <2>2. CASE queue' = Tail(queue)
    <3>1. NoneIn(queue', SetupOps)
      BY <2>1, <2>2, Running
    <3> QED
      BY <3>1, NothingSetUp
  <2>3. CASE queue' = Append(Tail(queue), Post("start"))
    <3>1. \A ops : op \in ops /\ "start" \notin ops /\ OneIn(queue, ops) => NoneIn(queue', ops)
      BY <2>3, RunningPosts
    <3>2. OneIn(queue, {"resolve", "connect"})
      BY <2>1 DEF OneIn, SetupOps
    <3>3. NoneIn(queue', {"resolve", "connect"})
      BY <3>1, <3>2
    <3>4. NoneIn(queue', {"resolve"}) /\ NoneIn(queue', {"connect"})
      BY <3>3 DEF NoneIn
    <3> QED
      BY <3>4, NoneEnds
  <2> QED
    BY <1>3, <2>2, <2>3
<1>5. \/ setup' = "connect" /\ m_resolver_iterator' = tried + 1
      \/ setup' = "none" /\ UNCHANGED m_resolver_iterator
  <2>1. CASE handle_resolve
    <3>1. ~NoneIn(queue, {"resolve"})
      BY <2>1, Found DEF handle_resolve
    <3> QED
      BY <1>2, <2>1, <3>1 DEF handle_resolve, Connect, Stay, Trying
  <2>2. CASE handle_connect
    <3>1. Failed => ~DoneIn(queue, "connect")
      BY <2>2, Found DEF handle_connect
    <3> QED
      BY <1>2, <2>2, <3>1 DEF handle_connect, Connect, Stay, Trying
  <2> QED
    BY <2>1, <2>2
<1>6. Trying'
  BY <1>3, <1>4, <1>5 DEF Trying
<1>7. EveryEndpointTried'
  <2>1. CASE handle_resolve
    <3>1. Runs("resolve") /\ (~Failed => answer' = "none")
      BY <1>2, <2>1 DEF handle_resolve
    <3>2. Failed => m_resolver_results = 0 /\ tried = 0
      <4>1. ~NoneIn(queue, {"resolve"}) /\ (Failed => ~DoneIn(queue, "resolve"))
        BY <3>1, Found
      <4> QED
        BY <4>1 DEF Trying
    <3> QED
      BY <1>3, <3>1, <3>2 DEF EveryEndpointTried
  <2>2. CASE handle_connect
    <3>1. Runs("connect") /\ (~Failed \/ more_results => answer' = "none")
      BY <1>2, <2>2 DEF handle_connect
    <3>2. Failed => tried = m_resolver_iterator
      BY <3>1, Found DEF Trying
    <3> QED
      BY <1>3, <3>1, <3>2 DEF EveryEndpointTried, more_results
  <2> QED
    BY <2>1, <2>2
<1> QED
  BY <1>6, <1>7

\* Every step keeps the order of the attempt.
LEMMA TryingStep ==
    TypeOK /\ Tokens /\ Trying /\ EveryEndpointTried /\ [Next]_vars
        => Trying' /\ EveryEndpointTried'
BY TryingOthers, TryingConnecting, TryingHandlers DEF Next, IoThread

-----------------------------------------------------------------------------
(* A running connection never loses its receive.                           *)

\* While something is being connected there is nothing to receive.
LEMMA ArmedConnecting ==
    ASSUME TypeOK, Tokens,
           \/ async_create_connection \/ sync_create_connection
           \/ ResolveCompletes \/ ConnectCompletes \/ handle_resolve \/ handle_connect
    PROVE  ReadArmed'
<1>1. setup # "none" \/ \E op \in SetupOps : Runs(op)
  BY DEF async_create_connection, sync_create_connection, ResolveCompletes, ConnectCompletes,
         handle_resolve, handle_connect, SetupOps
<1>2. ~m_running
  BY <1>1, NotAnswered
<1>3. m_running' = m_running
  BY DEF async_create_connection, sync_create_connection, ResolveCompletes, ConnectCompletes,
         handle_resolve, handle_connect, life
<1> QED
  BY <1>2, <1>3 DEF ReadArmed

\* The steps around the socket.
LEMMA ArmedOutside ==
    ASSUME TypeOK, ReadArmed,
           \/ UNCHANGED vars \/ recv_buffer_drop \/ send_buffer_fill \/ UserCloses
           \/ DatagramArrives \/ ReceiveFails \/ ReceiveAborts \/ SendCompletes
    PROVE  ReadArmed'
<1> USE DEF exchange, bufferVars, operations, netVars, userVars, life, callVars
<1>1. UNCHANGED <<m_running, callback>>
  BY DEF vars, recv_buffer_drop, send_buffer_fill, UserCloses, DatagramArrives, ReceiveFails,
         ReceiveAborts, SendCompletes
<1>2. 0 \in Nat /\ posted + 1 \in Nat /\ arrived + 1 \in Nat
  BY DEF TypeOK
<1>3. CASE UNCHANGED vars \/ recv_buffer_drop
  BY <1>1, <1>3 DEF vars, recv_buffer_drop, ReadArmed
<1>4. CASE send_buffer_fill \/ UserCloses \/ SendCompletes
  <2>1. UNCHANGED reading
    BY <1>4 DEF send_buffer_fill, UserCloses, SendCompletes
  <2>2. \E op \in Ops, ok \in BOOLEAN, n \in Nat : queue' = Append(queue, Handler(op, ok, n))
    BY <1>2, <1>4 DEF send_buffer_fill, UserCloses, Post, SendCompletes, Completed, Ops
  <2>3. \A ops : NoneIn(queue', ops) => NoneIn(queue, ops)
    BY <2>2, Posting
  <2> QED
    BY <1>1, <2>1, <2>3 DEF ReadArmed
<1>5. CASE DatagramArrives \/ ReceiveFails \/ ReceiveAborts
  <2>1. \E ok \in BOOLEAN, n \in Nat : queue' = Append(queue, Handler("recv", ok, n))
    BY <1>2, <1>5 DEF DatagramArrives, ReceiveFails, ReceiveAborts, Completed
  <2>2. \A ops : NoneIn(queue', ops) => "recv" \notin ops
    BY <2>1, Posting DEF Ops
  <2>3. ~NoneIn(queue', {"recv"})
    BY <2>2
  <2> QED
    BY <2>3 DEF ReadArmed
<1> QED
  BY <1>3, <1>4, <1>5

\* The handlers, and the return from a callback, which receives again or has
\* posted a stop.
LEMMA ArmedHandlers ==
    ASSUME TypeOK, Tokens, ReadArmed,
           \/ start \/ stop \/ push_send_data \/ handle_recv \/ handle_send \/ Return
    PROVE  ReadArmed'
<1> USE DEF exchange, bufferVars, operations, netVars, userVars, life, callVars
<1>1. CASE start
  BY <1>1, CallsWhat DEF start, ReadArmed, Callbacks
<1>2. CASE stop
  <2>1. m_running' => callback' = "on_close"
    BY <1>2, CallsWhat DEF stop, may_stop, Callbacks
  <2> QED
    BY <2>1 DEF ReadArmed
<1>3. CASE push_send_data \/ handle_send
  <2>1. UNCHANGED <<m_running, reading>> /\ callback = "none"
    BY <1>3 DEF push_send_data, handle_send, Runs
  <2>2. PICK op \in {"push", "send"} : Runs(op)
    BY <1>3 DEF push_send_data, handle_send
  <2>3. queue' = Tail(queue) \/ queue' = Append(Tail(queue), Post("stop"))
    BY <1>3 DEF push_send_data, handle_send, close
  <2>4. /\ NoneIn(queue', {"recv"}) => NoneIn(queue, {"recv"})
        /\ NoneIn(queue', {"stop"}) => NoneIn(queue, {"stop"})
    <3>1. op \notin {"recv"} /\ op \notin {"stop"}
      OBVIOUS
    <3>2. \A ops : op \notin ops => (NoneIn(queue', ops) => NoneIn(queue, ops))
      <4>1. CASE queue' = Tail(queue)
        BY <2>2, <4>1, Running
      <4>2. CASE queue' = Append(Tail(queue), Post("stop"))
        BY <2>2, <4>2, RunningPosts
      <4> QED
        BY <2>3, <4>1, <4>2
    <3> QED
      BY <3>1, <3>2
  <2> QED
    BY <2>1, <2>4 DEF ReadArmed
<1>4. CASE handle_recv
  <2>1. CASE Failed
    <3>1. queue' = Append(Tail(queue), Post("stop")) /\ Runs("recv")
      BY <1>4, <2>1 DEF handle_recv, close
    <3>2. \A ops : "stop" \in ops => ~NoneIn(queue', ops)
      BY <3>1, RunningPosts
    <3> QED
      BY <3>2 DEF ReadArmed
  <2>2. CASE ~Failed
    BY <1>4, <2>2, CallsWhat DEF handle_recv, ReadArmed, Callbacks, DataCallbacks
  <2> QED
    BY <2>1, <2>2
<1>5. CASE Return
  <2>1. reading \in Nat
    BY DEF TypeOK
  <2>2. \/ reading' = reading + 1
        \/ queue' = Append(queue, Handler("stop", TRUE, 0))
        \/ callback = "on_send" /\ UNCHANGED <<queue, m_running, reading>>
        \/ ~m_running'
        \/ callback = "connect_failed" /\ UNCHANGED <<queue, m_running, reading>>
    BY <1>5 DEF Return, ReturnToReading, ReturnFromSend, ReturnFromClose, ReturnFromFailure,
                Answer, recv, Post
  <2>3. CASE queue' = Append(queue, Handler("stop", TRUE, 0))
    <3>1. \A ops : NoneIn(queue', ops) => "stop" \notin ops
      BY <2>3, Posting DEF Ops
    <3>2. ~NoneIn(queue', {"stop"})
      BY <3>1
    <3> QED
      BY <3>2 DEF ReadArmed
  <2>4. CASE reading' = reading + 1
    BY <2>1, <2>4 DEF ReadArmed
  <2> QED
    BY <2>2, <2>3, <2>4 DEF ReadArmed
<1> QED
  BY <1>1, <1>2, <1>3, <1>4, <1>5

\* Every step keeps the receive armed.
LEMMA ArmedStep == TypeOK /\ Tokens /\ ReadArmed /\ [Next]_vars => ReadArmed'
BY ArmedConnecting, ArmedOutside, ArmedHandlers DEF Next, IoThread

-----------------------------------------------------------------------------
(* The packs keep their order, from send_buffer_fill to the network.       *)

\* The bounds between the numbers of reported, buffered and filled packs.
LEMMA Numbers ==
    ASSUME TypeOK, Numbered
    PROVE  /\ Reported \in Nat /\ posted \in Nat /\ Len(m_send_buffer) \in Nat
           /\ Reported + Len(m_send_buffer) \in Nat
           /\ Reported + Len(m_send_buffer) <= posted
           /\ m_send_buffer \in Seq(Nat) /\ delivered \in Seq(Nat) /\ Len(delivered) \in Nat
           /\ queue \in Seq(Handlers)
           /\ PushesIn(queue, Reported + Len(m_send_buffer), posted)
BY DEF TypeOK, Numbered

\* Handlers of other kinds leave the pushes in order.
LEMMA PushesStay ==
    ASSUME TypeOK, QueueMoves(Ops \ {"push"}), NEW lo \in Nat, NEW hi \in Nat, lo <= hi,
           PushesIn(queue, lo, hi)
    PROVE  PushesIn(queue', lo, hi)
<1>1. queue \in Seq(Handlers)
  BY DEF TypeOK
<1>2. ASSUME NEW op \in Ops \ {"push"}, NEW ok \in BOOLEAN, NEW n \in Nat,
             queue' = Append(queue, Handler(op, ok, n))
      PROVE  PushesIn(queue', lo, hi)
  <2>1. Handler(op, ok, n) \in Handlers /\ ~IsPush(Handler(op, ok, n))
    BY HandlerType DEF IsPush
  <2> QED
    BY <1>1, <1>2, <2>1, PushPosted
<1>3. ASSUME NEW op \in Ops \ {"push"}, Runs(op)
      PROVE  Tail(queue) \in Seq(Handlers) /\ PushesIn(Tail(queue), lo, hi)
  <2>1. queue # <<>> /\ ~IsPush(Head(queue))
    BY <1>3 DEF Runs, IsPush
  <2> QED
    BY <1>1, <2>1, TailType, PushRun
<1>4. ASSUME NEW op \in Ops \ {"push"}, Runs(op), queue' = Append(Tail(queue), Post("stop"))
      PROVE  PushesIn(queue', lo, hi)
  <2> DEFINE r == Tail(queue)
  <2>1. r \in Seq(Handlers) /\ PushesIn(r, lo, hi)
    BY <1>3, <1>4
  <2>2. Post("stop") \in Handlers /\ ~IsPush(Post("stop"))
    BY PostType DEF Ops, IsPush
  <2> HIDE DEF r
  <2>3. PushesIn(Append(r, Post("stop")), lo, hi)
    BY <2>1, <2>2, PushPosted
  <2> QED
    BY <1>4, <2>3 DEF r
<1> QED
  BY <1>2, <1>3, <1>4 DEF QueueMoves

\* The packs stay where they are.
PacksStay ==
    UNCHANGED <<m_send_buffer, delivered, posted>> /\ (FailIn(queue', "send") <=> FailIn(queue, "send"))

\* Then their numbers are the same.
LEMMA NumberedQuiet ==
    ASSUME TypeOK, Numbered, PacksStay, QueueMoves(Ops \ {"push"})
    PROVE  Numbered'
<1>1. Reported' = Reported
  BY DEF Reported, PacksStay
<1>2. PushesIn(queue', Reported + Len(m_send_buffer), posted)
  <2> DEFINE lo == Reported + Len(m_send_buffer)
  <2>1. lo \in Nat /\ posted \in Nat /\ lo <= posted /\ PushesIn(queue, lo, posted)
    BY Numbers
  <2> HIDE DEF lo
  <2>2. PushesIn(queue', lo, posted)
    BY <2>1, PushesStay
  <2> QED
    BY <2>2 DEF lo
<1> QED
  BY <1>1, <1>2 DEF Numbered, DeliveredInOrder, PacksStay

\* That is what all the other steps do: whoever runs no push and ends no send.
LEMMA NumberedOthers ==
    ASSUME TypeOK, Numbered,
           \/ UNCHANGED vars \/ async_create_connection \/ sync_create_connection
           \/ ResolveCompletes \/ ConnectCompletes \/ handle_resolve \/ handle_connect
           \/ start \/ stop \/ handle_recv \/ (handle_send /\ Failed) \/ Return
           \/ UserCloses \/ recv_buffer_drop
           \/ DatagramArrives \/ ReceiveFails \/ ReceiveAborts
    PROVE  Numbered'
<1> DEFINE ops == Ops \ {"push"}
<1> USE DEF exchange, bufferVars, operations, netVars, userVars
<1>1. UNCHANGED <<m_send_buffer, delivered, posted>>
  BY DEF vars, async_create_connection, sync_create_connection, ResolveCompletes,
         ConnectCompletes, handle_resolve, handle_connect, start, stop, handle_recv,
         handle_send, Return, UserCloses, recv_buffer_drop, DatagramArrives, ReceiveFails,
         ReceiveAborts
<1>2. CASE UNCHANGED vars \/ async_create_connection \/ recv_buffer_drop
  <2>1. queue' = queue
    BY <1>2 DEF vars, async_create_connection, recv_buffer_drop
  <2> QED
    BY <1>1, <2>1, NumberedQuiet DEF PacksStay, QueueMoves
<1>3. CASE \/ sync_create_connection \/ ResolveCompletes \/ ConnectCompletes \/ Return
           \/ UserCloses \/ DatagramArrives \/ ReceiveFails \/ ReceiveAborts
  <2>1. 0 \in Nat /\ arrived + 1 \in Nat
    BY DEF TypeOK
  <2>2. \/ queue' = queue
        \/ \E op \in Ops \ {"push", "send"}, ok \in BOOLEAN, n \in Nat :
              queue' = Append(queue, Handler(op, ok, n))
    BY <1>3, <2>1 DEF sync_create_connection, ResolveCompletes, ConnectCompletes, Return,
         ReturnToReading, ReturnFromSend, ReturnFromClose, ReturnFromFailure, Answer,
         UserCloses, DatagramArrives, ReceiveFails, ReceiveAborts, Completed, Post, Ops
  <2>3. CASE queue' = queue
    BY <1>1, <2>3, NumberedQuiet DEF PacksStay, QueueMoves
  <2>4. ASSUME NEW op \in Ops \ {"push", "send"}, NEW ok \in BOOLEAN, NEW n \in Nat,
               queue' = Append(queue, Handler(op, ok, n))
        PROVE  Numbered'
    <3>1. FailIn(queue', "send") <=> FailIn(queue, "send")
      BY <2>4, Posting
    <3>2. QueueMoves(ops)
      BY <2>4 DEF QueueMoves
    <3> QED
      BY <1>1, <3>1, <3>2, NumberedQuiet DEF PacksStay
  <2> QED
    BY <2>2, <2>3, <2>4
<1>4. CASE handle_connect
  <2>1. queue' = Tail(queue) \/ queue' = Append(Tail(queue), Post("start"))
    BY <1>4 DEF handle_connect
  <2>2. Runs("connect")
    BY <1>4 DEF handle_connect
  <2>3. FailIn(queue', "send") <=> FailIn(queue, "send")
    <3>1. CASE queue' = Tail(queue)
      BY <2>2, <3>1, Running
    <3>2. CASE queue' = Append(Tail(queue), Post("start"))
      BY <2>2, <3>2, RunningPosts
    <3> QED
      BY <2>1, <3>1, <3>2
  <2>4. CASE queue' = Tail(queue)
    <3>1. QueueMoves(ops)
      BY <2>2, <2>4 DEF QueueMoves, Ops
    <3> QED
      BY <1>1, <2>3, <3>1, NumberedQuiet DEF PacksStay
  <2>5. CASE queue' = Append(Tail(queue), Post("start"))
    <3> DEFINE lo == Reported + Len(m_send_buffer)
               r  == Tail(queue)
    <3>1. lo \in Nat /\ posted \in Nat /\ lo <= posted /\ PushesIn(queue, lo, posted)
      BY Numbers
    <3>2. queue \in Seq(Handlers) /\ queue # <<>> /\ ~IsPush(Head(queue))
      BY <2>2 DEF Runs, IsPush, TypeOK
    <3>3. Post("start") \in Handlers /\ ~IsPush(Post("start"))
      BY PostType DEF Ops, IsPush
    <3> HIDE DEF lo
    <3>4. r \in Seq(Handlers) /\ PushesIn(r, lo, posted)
      BY <3>1, <3>2, TailType, PushRun
    <3> HIDE DEF r
    <3>5. PushesIn(Append(r, Post("start")), lo, posted)
      BY <3>1, <3>3, <3>4, PushPosted
    <3>6. PushesIn(queue', lo, posted)
      BY <2>5, <3>5 DEF r
    <3>7. Reported' = Reported
      BY <1>1, <2>3 DEF Reported
    <3> QED
      BY <1>1, <3>6, <3>7 DEF lo, Numbered, DeliveredInOrder
  <2> QED
    BY <2>1, <2>4, <2>5
<1>5. CASE handle_resolve \/ start \/ stop \/ handle_recv \/ (handle_send /\ Failed)
  <2>1. PICK op \in Ops \ {"push"} : Runs(op) /\ (op = "send" => Failed)
    BY <1>5 DEF handle_resolve, start, stop, handle_recv, handle_send, Ops
  <2>2. queue' = Tail(queue) \/ queue' = Append(Tail(queue), Post("stop"))
    BY <1>5 DEF handle_resolve, start, stop, handle_recv, handle_send, close
  <2>3. FailIn(queue', "send") <=> FailIn(queue, "send")
    <3>1. CASE queue' = Tail(queue)
      BY <2>1, <3>1, Running
    <3>2. CASE queue' = Append(Tail(queue), Post("stop"))
      BY <2>1, <3>2, RunningPosts
    <3> QED
      BY <2>2, <3>1, <3>2
  <2>4. QueueMoves(ops)
    BY <2>1, <2>2 DEF QueueMoves
  <2> QED
    BY <1>1, <2>3, <2>4, NumberedQuiet DEF PacksStay
<1> QED
  BY <1>2, <1>3, <1>4, <1>5

\* A pack that is filled is queued behind those filled before.
LEMMA NumberedFill ==
    ASSUME TypeOK, Numbered, send_buffer_fill
    PROVE  Numbered'
<1> DEFINE lo == Reported + Len(m_send_buffer)
           h  == Handler("push", TRUE, posted + 1)
<1>1. /\ posted' = posted + 1 /\ queue' = Append(queue, h)
      /\ UNCHANGED <<m_send_buffer, delivered>>
  BY DEF send_buffer_fill, bufferVars, netVars
<1>2. lo \in Nat /\ posted \in Nat /\ lo <= posted /\ PushesIn(queue, lo, posted)
      /\ queue \in Seq(Handlers) /\ posted + 1 \in Nat
  BY Numbers
<1>3. h \in Handlers /\ h.op = "push" /\ h.n = posted + 1
  <2>1. posted + 1 \in Nat /\ "push" \in Ops
    BY <1>2 DEF Ops
  <2> QED
    BY <2>1, HandlerType
<1>4. FailIn(queue', "send") <=> FailIn(queue, "send")
  BY <1>1, <1>2, Posting DEF Ops
<1> HIDE DEF lo, h
<1>5. PushesIn(queue', lo, posted + 1)
  BY <1>1, <1>2, <1>3, PushPosted DEF IsPush
<1>6. Reported' = Reported
  BY <1>1, <1>4 DEF Reported
<1>7. lo <= posted + 1
  BY <1>2
<1> QED
  BY <1>1, <1>5, <1>6, <1>7 DEF lo, Numbered, DeliveredInOrder

\* The next pack joins the buffer.
LEMMA NumberedPush ==
    ASSUME TypeOK, Numbered, push_send_data
    PROVE  Numbered'
<1> DEFINE lo == Reported + Len(m_send_buffer)
           n  == Head(queue).n
<1>1. /\ Runs("push") /\ queue' = Tail(queue)
      /\ m_send_buffer' = Append(m_send_buffer, n)
      /\ UNCHANGED <<delivered, posted>>
  BY DEF push_send_data, netVars, userVars
<1>2. /\ lo \in Nat /\ posted \in Nat /\ Reported \in Nat /\ m_send_buffer \in Seq(Nat)
      /\ PushesIn(queue, lo, posted)
      /\ queue \in Seq(Handlers) /\ queue # <<>> /\ IsPush(Head(queue))
  BY <1>1, Numbers DEF Runs, IsPush
<1>3. n = lo + 1 /\ lo < posted /\ PushesIn(queue', lo + 1, posted)
  BY <1>1, <1>2, PushRun
<1>4. /\ Len(m_send_buffer') = Len(m_send_buffer) + 1 /\ Len(m_send_buffer) \in Nat
      /\ \A i \in 1..Len(m_send_buffer) : m_send_buffer'[i] = m_send_buffer[i]
      /\ m_send_buffer'[Len(m_send_buffer) + 1] = n
  BY <1>1, <1>2, <1>3, AppendAt
<1>5. FailIn(queue', "send") <=> FailIn(queue, "send")
  BY <1>1, Running
<1>6. Reported' = Reported
  BY <1>1, <1>5 DEF Reported
<1>7. (Reported + Len(m_send_buffer))' = lo + 1
  BY <1>2, <1>4, <1>6
<1>8. \A i \in 1..Len(m_send_buffer') : m_send_buffer'[i] = Reported + i
  <2>1. \A i \in 1..Len(m_send_buffer) : m_send_buffer[i] = Reported + i
    BY DEF Numbered
  <2>2. n = Reported + (Len(m_send_buffer) + 1)
    BY <1>2, <1>3, <1>4
  <2> QED
    BY <1>4, <2>1, <2>2
<1> QED
  BY <1>1, <1>2, <1>3, <1>6, <1>7, <1>8 DEF Numbered, DeliveredInOrder

\* A pack that the network took leaves the buffer.
LEMMA NumberedReported ==
    ASSUME TypeOK, WriteToken, Numbered, handle_send, ~Failed
    PROVE  Numbered'
<1>1. /\ Runs("send") /\ queue' = Tail(queue) /\ m_send_buffer' = Tail(m_send_buffer)
      /\ UNCHANGED <<delivered, posted>>
  BY DEF handle_send, netVars, userVars
<1>2. /\ Reported \in Nat /\ posted \in Nat /\ m_send_buffer \in Seq(Nat)
      /\ delivered \in Seq(Nat) /\ Len(delivered) \in Nat
      /\ Reported + Len(m_send_buffer) \in Nat
      /\ Reported + Len(m_send_buffer) <= posted
      /\ PushesIn(queue, Reported + Len(m_send_buffer), posted)
      /\ queue \in Seq(Handlers) /\ queue # <<>> /\ ~IsPush(Head(queue))
  BY <1>1, Numbers DEF Runs, IsPush
<1>3. ~NoneIn(queue, {"send"}) /\ ~FailIn(queue, "send")
  BY <1>1, Found
<1>4. NoneIn(queue', {"send"}) /\ FailIn(queue', "send")
  <2>1. NoneIn(queue', {"send"})
    BY <1>1, Running DEF WriteToken
  <2> QED
    BY <2>1, NoneFails
<1>5. Reported' = Reported + 1
  BY <1>1, <1>2, <1>3, <1>4 DEF Reported
<1>6. m_send_buffer # <<>>
  BY <1>3 DEF WriteToken
<1>7. /\ Len(m_send_buffer') = Len(m_send_buffer) - 1 /\ Len(m_send_buffer) \in Nat
      /\ \A i \in 1..Len(m_send_buffer') : m_send_buffer'[i] = m_send_buffer[i + 1]
  BY <1>1, <1>2, <1>6, TailAt
<1>8. (Reported + Len(m_send_buffer))' = Reported + Len(m_send_buffer)
  BY <1>2, <1>5, <1>7
<1>9. \A i \in 1..Len(m_send_buffer') : m_send_buffer'[i] = Reported' + i
  BY <1>2, <1>5, <1>7 DEF Numbered
<1>10. PushesIn(queue', Reported + Len(m_send_buffer), posted)
  BY <1>1, <1>2, PushRun
<1>11. DeliveredInOrder' /\ Reported' \in Nat
  BY <1>1, <1>2, <1>5 DEF Numbered, DeliveredInOrder
<1>12. /\ (Reported + Len(m_send_buffer))' <= posted'
       /\ PushesIn(queue', (Reported + Len(m_send_buffer))', posted')
  BY <1>1, <1>2, <1>8, <1>10
<1> QED
  BY <1>9, <1>11, <1>12 DEF Numbered

\* What the network takes is the pack in front.
LEMMA NumberedSent ==
    ASSUME TypeOK, WriteToken, Numbered, SendCompletes
    PROVE  Numbered'
<1>1. /\ writing # <<>> /\ UNCHANGED <<m_send_buffer, posted>>
      /\ Head(writing) = writing[1] /\ writing[1] = Head(m_send_buffer)
      /\ m_send_buffer # <<>> /\ NoneIn(queue, {"send"})
  BY TailAt DEF SendCompletes, bufferVars, userVars, WriteToken, TypeOK
<1>2. FailIn(queue, "send")
  BY <1>1, NoneFails
<1>3. /\ Reported = Len(delivered) /\ delivered \in Seq(Nat) /\ Len(delivered) \in Nat
      /\ posted \in Nat /\ m_send_buffer \in Seq(Nat)
  BY <1>2, Numbers DEF Reported
<1>4. PICK ok \in BOOLEAN :
         /\ queue' = Append(queue, Handler("send", ok, 0))
         /\ delivered' = IF ok THEN Append(delivered, Head(writing)) ELSE delivered
  BY DEF SendCompletes, Completed
<1>5. FailIn(queue', "send") <=> ~ok
  BY <1>2, <1>4, Posting DEF Ops
<1>6. PushesIn(queue', Reported + Len(m_send_buffer), posted)
  <2> DEFINE lo == Reported + Len(m_send_buffer)
  <2>1. lo \in Nat /\ posted \in Nat /\ lo <= posted /\ PushesIn(queue, lo, posted)
    BY Numbers
  <2>2. QueueMoves(Ops \ {"push"})
    BY <1>4 DEF QueueMoves, Ops
  <2> HIDE DEF lo
  <2>3. PushesIn(queue', lo, posted)
    BY <2>1, <2>2, PushesStay
  <2> QED
    BY <2>3 DEF lo
<1>7. CASE ok
  <2>1. Head(writing) = Len(delivered) + 1
    <3>1. Head(m_send_buffer) = m_send_buffer[1] /\ 1 \in 1..Len(m_send_buffer)
      BY <1>1, <1>3, TailAt
    <3> QED
      BY <1>1, <1>3, <3>1 DEF Numbered
  <2>2. /\ Len(delivered') = Len(delivered) + 1
        /\ \A i \in 1..Len(delivered) : delivered'[i] = delivered[i]
        /\ delivered'[Len(delivered) + 1] = Len(delivered) + 1
    BY <1>3, <1>4, <1>7, <2>1, AppendAt
  <2>3. Reported' = Reported
    BY <1>3, <1>5, <1>7, <2>2 DEF Reported
  <2>4. DeliveredInOrder'
    <3>1. \A i \in 1..Len(delivered) : delivered'[i] = i
      BY <2>2 DEF Numbered, DeliveredInOrder
    <3> QED
      BY <1>3, <2>2, <3>1 DEF DeliveredInOrder
  <2> QED
    BY <1>1, <1>6, <2>3, <2>4 DEF Numbered
<1>8. CASE ~ok
  <2>1. delivered' = delivered /\ Reported' = Reported
    BY <1>3, <1>4, <1>5, <1>8 DEF Reported
  <2> QED
    BY <1>1, <1>6, <2>1 DEF Numbered, DeliveredInOrder
<1> QED
  BY <1>7, <1>8

\* Every step keeps the packs in order.
LEMMA NumberedStep == TypeOK /\ Tokens /\ Numbered /\ [Next]_vars => Numbered'
BY NumberedOthers, NumberedFill, NumberedPush, NumberedReported, NumberedSent
   DEF Next, IoThread, Tokens

-----------------------------------------------------------------------------
(* The theorems.                                                           *)

\* No connection, nothing outstanding, nothing said: the invariant holds.
LEMMA InitInv == Init => IInv
<1> SUFFICES ASSUME Init PROVE IInv
  OBVIOUS
<1>1. TypeOK
  <2>1. /\ m_recv_buffer \in Seq(Nat) /\ m_send_buffer \in Seq(Nat) /\ writing \in Seq(Nat)
        /\ queue \in Seq(Handlers) /\ delivered \in Seq(Nat)
    BY DEF Init
  <2>2. /\ late \in [DataCallbacks -> Nat]
        /\ sync_connect \in BOOLEAN /\ host_endpoint \in BOOLEAN
        /\ setup \in Setups /\ rejected \subseteq Callbacks
    BY BindsAssumption DEF Init, Setups, Callbacks
  <2>3. /\ m_resolver_results \in Nat /\ m_resolver_iterator \in 0..m_resolver_results
        /\ tried \in 0..m_resolver_results
        /\ m_running = FALSE /\ socket \in {"closed", "open"} /\ reading \in Nat
        /\ callback = "none" /\ answer = "none" /\ closes \in Nat
        /\ arrived \in Nat /\ errors \in Nat /\ posted \in Nat /\ asked \in Nat
    BY DEF Init
  <2> QED
    BY <2>1, <2>2, <2>3 DEF TypeOK
<1>2. Len(queue) = 0 /\ Len(writing) = 0 /\ Len(delivered) = 0 /\ Len(m_send_buffer) = 0
  BY DEF Init
<1>3. /\ \A ops : NoneIn(queue, ops) /\ OneIn(queue, ops)
      /\ \A op : FailIn(queue, op) /\ DoneIn(queue, op)
      /\ PushesIn(queue, 0, 0)
  BY <1>2 DEF NoneIn, OneIn, FailIn, DoneIn, PushesIn
<1>4. Tokens
  BY <1>2, <1>3 DEF Init, Tokens, SetupToken, Unknown, ReadToken, WriteToken, CloseToken,
                    Deaf, Holding, DataCallbacks
<1>5. Trying /\ ReadArmed /\ EveryEndpointTried
  BY <1>3 DEF Init, Trying, ReadArmed, EveryEndpointTried
<1>6. Numbered
  <2>1. Reported = 0 /\ posted = 0
    BY <1>2, <1>3 DEF Reported, Init
  <2> QED
    BY <1>2, <1>3, <2>1 DEF Numbered, DeliveredInOrder
<1> QED
  BY <1>1, <1>4, <1>5, <1>6 DEF IInv

\* The inductive invariant holds in every state: the tokens of the connecting
\* step, the receive, the send and the close, and the numbers of the packs.
THEOREM Inductive == Spec => []IInv
<1>1. IInv /\ [Next]_vars => IInv'
  BY TypeStep, TokensStep, TryingStep, ArmedStep, NumberedStep DEF IInv, Tokens
<1> QED
  BY <1>1, InitInv, PTL DEF Spec

\* Every variable keeps its type: the iterator stays within the results, and no
\* handler removes a pack from an empty buffer.
THEOREM TypeCorrect == Spec => []TypeOK
BY Inductive, PTL DEF IInv

\* A null pointer is the answer only after every endpoint has failed.
THEOREM AlwaysTried == Spec => []EveryEndpointTried
BY Inductive, PTL DEF IInv

\* The packs reach the network in the order of the calls that filled them.
THEOREM AlwaysInOrder == Spec => []DeliveredInOrder
<1>1. IInv => DeliveredInOrder
  BY DEF IInv, Numbered
<1> QED
  BY <1>1, Inductive, PTL

\* There are never two receives, and while no callback holds it a running
\* connection has its one, or a stop on the way.
THEOREM AlwaysReceiveToken == Spec => []ReceiveToken
<1>1. ASSUME IInv PROVE ReceiveToken
  <2>1. ReadToken /\ ReadArmed /\ reading \in Nat
    BY <1>1 DEF IInv, Tokens, TypeOK
  <2>2. Cardinality(Places("recv")) = IF NoneIn(queue, {"recv"}) THEN 0 ELSE 1
    BY <2>1, CountIn DEF ReadToken, Places
  <2>3. ~NoneIn(queue, {"stop"}) => Waiting("stop")
    BY DEF NoneIn, Waiting, Places
  <2> QED
    BY <2>1, <2>2, <2>3 DEF ReceiveToken, ReadToken, ReadArmed, Holding
<1> QED
  BY <1>1, Inductive, PTL

-----------------------------------------------------------------------------
(* The contract of the callbacks.                                          *)

\* What the contract sees of a step: it is the same when these are.
LEMMA Stutters ==
    ASSUME UNCHANGED <<callback, answer, closes, late, rejected>>
    PROVE  UNCHANGED Contract!vars
BY DEF Contract!vars, Phase, Active, Deaf

\* A callback that delivers data, before or after on_close.
LEMMA Delivers ==
    ASSUME TypeOK, UNCHANGED rejected, NEW c \in DataCallbacks, Calls(c),
           callback = "none", answer = "connection",
           closes > 0 => late[c] < 1, c = "on_recv" => ~Deaf
    PROVE  Contract!Next
<1>1. /\ callback' = c /\ UNCHANGED <<answer, closes>>
      /\ late' = IF closes > 0 THEN [late EXCEPT ![c] = @ + 1] ELSE late
  BY CallsWhat DEF Callbacks
<1>2. Phase = (IF closes > 0 THEN "closed" ELSE "open") /\ Phase' = Phase
  BY <1>1 DEF Phase
<1>3. Active = "none" /\ Active' = c
  BY <1>1 DEF Active, Callbacks, DataCallbacks
<1>4. Deaf' = Deaf
  BY DEF Deaf
<1>5. Contract!Deliver(c)
  BY <1>1, <1>2, <1>3, <1>4 DEF Contract!Deliver
<1> QED
  BY <1>5 DEF Contract!Next, Contract!DataCallbacks, DataCallbacks

\* The attempt is answered, with the connection or without.
LEMMA Answers ==
    ASSUME answer = "none", closes = 0, callback = "none", UNCHANGED rejected,
           NEW c \in {"on_connect", "connect_failed"}, Calls(c)
    PROVE  Contract!Next
<1>1. /\ callback' = c /\ UNCHANGED <<closes, late>>
      /\ answer' = IF c = "connect_failed" THEN "nullptr" ELSE "connection"
  BY CallsWhat DEF Callbacks
<1>2. Phase = "new" /\ Phase' = IF c = "connect_failed" THEN "failed" ELSE "open"
  BY <1>1 DEF Phase
<1>3. Active = "none" /\ Active' = c
  BY <1>1 DEF Active, Callbacks, DataCallbacks
<1>4. Deaf' = Deaf
  BY DEF Deaf
<1>5. CASE c = "connect_failed"
  BY <1>1, <1>2, <1>3, <1>4, <1>5 DEF Contract!Next, Contract!Refuse
<1>6. CASE c = "on_connect"
  <2>1. Contract!Introduce("on_connect")
    BY <1>1, <1>2, <1>3, <1>4, <1>6 DEF Contract!Introduce
  <2> QED
    BY <2>1 DEF Contract!Next, Contract!Introductions
<1> QED
  BY <1>5, <1>6

\* A callback returns: only the callbacks that receive again can turn the user
\* deaf.
LEMMA Returns ==
    ASSUME TypeOK, Return
    PROVE  Contract!Next
<1>1. /\ callback \in Callbacks /\ callback' = "none"
      /\ UNCHANGED <<answer, closes, late>>
  BY DEF Return, ReturnToReading, ReturnFromSend, ReturnFromClose, ReturnFromFailure,
         Callbacks, DataCallbacks
<1>2. Active = callback /\ Active' = "none" /\ callback # "none" /\ Phase' = Phase
  BY <1>1 DEF Active, Phase, Callbacks, DataCallbacks
<1>3. Deaf' = Deaf \/ (Deaf' = TRUE /\ callback \in {"on_connect", "on_recv"})
  BY DEF Return, ReturnToReading, ReturnFromSend, ReturnFromClose, ReturnFromFailure,
         Answer, Deaf
<1>4. Contract!Return
  BY <1>1, <1>2, <1>3 DEF Contract!Return, Contract!Introductions
<1> QED
  BY <1>4 DEF Contract!Next

\* Every step of a UDP connection is one of the contract, or none.
LEMMA ContractStep ==
    ASSUME IInv, [Next]_vars
    PROVE  [Contract!Next]_(Contract!vars)
<1> USE DEF exchange, bufferVars, operations, netVars, userVars, callVars
<1>0. /\ TypeOK /\ Tokens /\ closes \in Nat
      /\ late["on_recv"] \in Nat /\ late["on_send"] \in Nat
  BY DEF IInv, TypeOK, DataCallbacks
<1>1. CASE \/ UNCHANGED vars \/ ResolveCompletes
           \/ ConnectCompletes \/ push_send_data \/ send_buffer_fill \/ UserCloses
           \/ recv_buffer_drop \/ DatagramArrives \/ ReceiveFails \/ ReceiveAborts
           \/ SendCompletes
  <2>1. UNCHANGED <<callback, answer, closes, late, rejected>>
    BY <1>1 DEF vars, ResolveCompletes, ConnectCompletes,
         push_send_data, send_buffer_fill, UserCloses, recv_buffer_drop, DatagramArrives,
         ReceiveFails, ReceiveAborts, SendCompletes
  <2> QED
    BY <2>1, Stutters
<1>2. CASE async_create_connection \/ sync_create_connection
  <2>1. answer = "none" /\ answer' \in {"none", "false", "exception"}
    BY <1>0, <1>2 DEF async_create_connection, sync_create_connection, Tokens, SetupToken
  <2>2. UNCHANGED <<callback, closes, late, rejected>>
    BY <1>2 DEF async_create_connection, sync_create_connection
  <2>3. Phase' = Phase
    BY <2>1, <2>2 DEF Phase
  <2> QED
    BY <2>2, <2>3 DEF Contract!vars, Active, Deaf
<1>3. CASE handle_resolve \/ handle_connect \/ start
  <2>1. answer = "none" /\ closes = 0 /\ callback = "none" /\ UNCHANGED rejected
    <3>1. PICK op \in SetupOps : Runs(op)
      BY <1>3 DEF handle_resolve, handle_connect, start, SetupOps
    <3> QED
      BY <1>0, <1>3, <3>1, NotAnswered DEF handle_resolve, handle_connect, start, Runs
  <2>2. \/ \E c \in {"on_connect", "connect_failed"} : Calls(c)
        \/ UNCHANGED <<callback, answer, closes, late>>
        \/ callback' = "terminated" /\ UNCHANGED <<answer, closes, late>>
    BY <1>3 DEF handle_resolve, handle_connect, start
  <2>3. CASE callback' = "terminated" /\ UNCHANGED <<answer, closes, late>>
    BY <2>1, <2>3 DEF Contract!vars, Phase, Active, Deaf, Callbacks, DataCallbacks
  <2> QED
    BY <2>1, <2>2, <2>3, Answers, Stutters
<1>4. CASE stop
  <2>1. callback = "none" /\ UNCHANGED rejected
    BY <1>4 DEF stop, Runs
  <2>2. CASE m_running
    <3>1. answer = "connection" /\ closes = 0
      BY <1>0, <2>1, <2>2 DEF Tokens, Unknown, CloseToken
    <3>2. callback' = "on_close" /\ closes' = closes + 1 /\ UNCHANGED <<answer, late>>
      BY <1>4, <2>2, CallsWhat DEF stop, may_stop, Callbacks
    <3>3. Phase = "open" /\ Phase' = "closed" /\ Active = "none" /\ Active' = "on_close"
      BY <2>1, <3>1, <3>2 DEF Phase, Active, Callbacks, DataCallbacks
    <3>4. Deaf' = Deaf
      BY <2>1 DEF Deaf
    <3> QED
      BY <3>2, <3>3, <3>4 DEF Contract!Next, Contract!Close
  <2>3. CASE ~m_running
    BY <1>4, <2>1, <2>3, Stutters DEF stop, may_stop
  <2> QED
    BY <2>2, <2>3
<1>5. CASE handle_recv
  <2>1. /\ Runs("recv") /\ callback = "none" /\ UNCHANGED rejected
        /\ answer = "connection" /\ ~Deaf
    BY <1>0, <1>5, Found DEF handle_recv, Runs, Tokens, Unknown, ReadToken
  <2>2. (~Failed /\ Calls("on_recv")) \/ UNCHANGED <<callback, answer, closes, late>>
    BY <1>5 DEF handle_recv
  <2>3. ~Failed /\ closes > 0 => late["on_recv"] < 1
    BY <1>0, <2>1, Found DEF Tokens, CloseToken
  <2> QED
    BY <1>0, <2>1, <2>2, <2>3, Delivers, Stutters DEF DataCallbacks
<1>6. CASE handle_send
  <2>1. /\ Runs("send") /\ callback = "none" /\ UNCHANGED rejected /\ answer = "connection"
    BY <1>0, <1>6, Found DEF handle_send, Runs, Tokens, Unknown
  <2>2. (~Failed /\ Calls("on_send")) \/ UNCHANGED <<callback, answer, closes, late>>
    BY <1>6 DEF handle_send
  <2>3. ~Failed /\ closes > 0 => late["on_send"] < 1
    BY <1>0, <2>1, Found DEF Tokens, CloseToken
  <2> QED
    BY <1>0, <2>1, <2>2, <2>3, Delivers, Stutters DEF DataCallbacks
<1>7. CASE Return
  BY <1>0, <1>7, Returns
<1> QED
  BY <1>1, <1>2, <1>3, <1>4, <1>5, <1>6, <1>7 DEF Next, IoThread

\* A UDP connection keeps the contract of its callbacks: one at a time, an
\* introduction or a refusal first, then data, then one on_close, and after it
\* at most one on_recv and one on_send.
THEOREM ActiveImplementsContract == Spec => ImplementsContract
<1>1. Init => Contract!Init
  BY DEF Init, Contract!Init, Phase, Active, Deaf, Callbacks, DataCallbacks,
         Contract!DataCallbacks
<1>2. IInv /\ [Next]_vars => [Contract!Next]_(Contract!vars)
  BY ContractStep
<1> QED
  BY <1>1, <1>2, Inductive, PTL DEF Spec, ImplementsContract, Contract!Spec

=============================================================================
