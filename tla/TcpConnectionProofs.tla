------------------------ MODULE TcpConnectionProofs ------------------------
(***************************************************************************)
(* The safety invariants of TcpConnection, proved for every value of its   *)
(* constants.                                                              *)
(*                                                                         *)
(* The argument is about tokens.  Of the connecting operations, of reads   *)
(* and of writes there is never more than one under way, whether it is     *)
(* outstanding in the kernel or completed and waiting in the queue, and a  *)
(* callback after which reading goes on holds the read's token itself.     *)
(***************************************************************************)
EXTENDS TcpConnection, QueueLemmas

SetupOps == {"start", "resolve", "connect", "handshake"}

\* No attempt that is still going on has told the user anything.
SetupToken ==
    /\ OneIn(queue, SetupOps)
    /\ setup # "none" => NoneIn(queue, SetupOps)
    /\ answer # "none" => setup = "none" /\ NoneIn(queue, SetupOps)

\* Without a connection there is nothing to read, to write or to close.
Unknown ==
    answer # "connection" =>
        /\ ~m_running /\ closes = 0 /\ rejected = {}
        /\ callback \in {"none", "terminated", "connect_failed"}
        /\ reading = 0 /\ writing = <<>> /\ m_send_buffer = <<>>
        /\ NoneIn(queue, {"recv"}) /\ NoneIn(queue, {"send"}) /\ NoneIn(queue, {"push"})

\* The one read: outstanding, completed, or with the callback that will
\* start the next; a user who returned false has taken it away.
Holding == callback \in Introductions \cup {"on_recv"}
ReadToken ==
    /\ reading <= 1
    /\ OneIn(queue, {"recv"})
    /\ reading > 0 => NoneIn(queue, {"recv"})
    /\ Holding \/ Deaf => reading = 0 /\ NoneIn(queue, {"recv"})
    /\ Deaf => ~Holding

\* The one write: outstanding or completed, and then of the front pack.
WriteToken ==
    /\ Len(writing) <= 1
    /\ OneIn(queue, {"send"})
    /\ writing # <<>> => NoneIn(queue, {"send"}) /\ writing[1].pack = Head(m_send_buffer)
    /\ m_send_buffer = <<>> => writing = <<>> /\ NoneIn(queue, {"send"})

\* A closed socket completes nothing, so that the completion that was waiting
\* when it was closed is the last that succeeds.
LateToken ==
    /\ closes = 0 => late["on_recv"] = 0 /\ late["on_send"] = 0
    /\ ~m_use_ssl /\ closes > 0 => socket = "closed"
    /\ callback = "shutdown" => m_use_ssl
    /\ ~m_use_ssl =>
          /\ late["on_recv"] <= 1 /\ late["on_send"] <= 1
          /\ late["on_recv"] > 0 => FailIn(queue, "recv")
          /\ late["on_send"] > 0 => FailIn(queue, "send")

IInv ==
    /\ TypeOK /\ SetupToken /\ Unknown /\ ReadToken /\ WriteToken /\ LateToken
    /\ ReadArmed /\ SendArmed

-----------------------------------------------------------------------------
\* A handler is what it was built from.
LEMMA HandlerType ==
    ASSUME NEW op \in Ops, NEW ok \in BOOLEAN, NEW n \in Nat
    PROVE  /\ Handler(op, ok, n) \in Handlers
           /\ Handler(op, ok, n).op = op
           /\ Handler(op, ok, n).ok = ok
           /\ Handler(op, ok, n).n = n
BY DEF Handler, Handlers

\* So is one that was posted without an operation.
LEMMA PostType ==
    ASSUME NEW op \in Ops
    PROVE  Post(op) \in Handlers /\ Post(op).op = op /\ Post(op).ok
BY HandlerType DEF Post

\* What is posted, and what is left when a handler runs, are handlers.
LEMMA PostedType ==
    ASSUME TypeOK, NEW op \in Ops, NEW ok \in BOOLEAN, NEW n \in Nat
    PROVE  queue \in Seq(Handlers) /\ Append(queue, Handler(op, ok, n)) \in Seq(Handlers)
<1>1. queue \in Seq(Handlers)
  BY DEF TypeOK
<1> QED
  BY <1>1, HandlerType, AppendType

\* The same when the first handler is taken, whether or not it posts another.
LEMMA RanType ==
    ASSUME TypeOK, NEW op \in Ops, Runs(op)
    PROVE  /\ Tail(queue) \in Seq(Handlers)
           /\ \A o \in Ops : Append(Tail(queue), Post(o)) \in Seq(Handlers)
           /\ Head(queue).ok \in BOOLEAN /\ Head(queue).n \in Nat
<1>1. queue \in Seq(Handlers) /\ queue # <<>>
  BY DEF TypeOK, Runs
<1>2. Tail(queue) \in Seq(Handlers) /\ Head(queue) \in Handlers
  BY <1>1, TailType
<1> QED
  BY <1>2, PostType, AppendType DEF Handlers

\* A call of the user leaves the callback variables in their types.
LEMMA CallsType ==
    ASSUME TypeOK, NEW c \in Callbacks, Calls(c)
    PROVE  CallTypeOK'
BY DEF TypeOK, CallTypeOK, Calls, Callbacks, Introductions, DataCallbacks

\* What two handlers do to the buffers and counters, one by one.
LEMMA HandleSendCounts ==
    ASSUME handle_send
    PROVE  \/ ~Failed /\ m_send_buffer' = Tail(m_send_buffer) /\ sent' = sent + 1
           \/ Failed /\ m_send_buffer' = m_send_buffer /\ sent' = sent
BY DEF handle_send, sendVars

\* A completed read takes its token and counts no byte below zero.
LEMMA ReadCounts ==
    ASSUME TypeOK, ReadCompletes
    PROVE  reading' \in Nat /\ reading' = reading - 1 /\ reading > 0 /\ bytes_read' \in Nat
<1>1. reading \in Nat /\ bytes_read \in Nat /\ peer_sent \in Nat
  BY DEF TypeOK
<1>2. reading' = reading - 1 /\ reading > 0
  BY DEF ReadCompletes
<1>3. bytes_read' = bytes_read
        \/ \E n \in 1..(peer_sent - bytes_read) : bytes_read' = bytes_read + n
  BY DEF ReadCompletes
<1> QED
  BY <1>1, <1>2, <1>3

\* TypeOK needs WriteToken: handle_send takes the front of a buffer that only
\* the token shows not to be empty.
LEMMA TypeStep == TypeOK /\ WriteToken /\ [Next]_vars => TypeOK'
<1> USE DEF CallTypeOK, profile, setupVars, recvVars, sendVars, callVars, peerVars, userVars
<1>1. ASSUME TypeOK, UNCHANGED vars PROVE TypeOK'
  BY <1>1 DEF TypeOK, vars
<1>2. ASSUME TypeOK, CreateAsync PROVE TypeOK'
  BY <1>2 DEF CreateAsync, TypeOK, Setups
<1>3. ASSUME TypeOK, CreateSync PROVE TypeOK'
  <2>1. queue' \in Seq(Handlers)
    BY <1>3, PostedType DEF CreateSync, Post, Ops
  <2> QED
    BY <1>3, <2>1 DEF CreateSync, TypeOK, Setups
<1>4. ASSUME TypeOK, handle_accept PROVE TypeOK'
  <2>1. queue' \in Seq(Handlers)
    BY <1>4, PostedType DEF handle_accept, Post, Ops
  <2> QED
    BY <1>4, <2>1 DEF handle_accept, TypeOK, Setups
<1>5. ASSUME TypeOK, ResolveCompletes PROVE TypeOK'
  <2>1. queue' \in Seq(Handlers)
    BY <1>5, PostedType DEF ResolveCompletes, Completes, Ops
  <2>2. results' \in Nat
    BY <1>5, BoundsAssumption DEF ResolveCompletes
  <2> QED
    BY <1>5, <2>1, <2>2 DEF ResolveCompletes, Completes, TypeOK, Setups
<1>6. ASSUME TypeOK, ConnectCompletes PROVE TypeOK'
  <2>1. queue' \in Seq(Handlers)
    BY <1>6, PostedType DEF ConnectCompletes, Completes, Post, Ops
  <2> QED
    BY <1>6, <2>1 DEF ConnectCompletes, Completes, TypeOK, Setups
<1>7. ASSUME TypeOK, HandshakeCompletes PROVE TypeOK'
  <2>1. queue' \in Seq(Handlers)
    BY <1>7, PostedType DEF HandshakeCompletes, Completes, Post, Ops
  <2> QED
    BY <1>7, <2>1 DEF HandshakeCompletes, Completes, TypeOK, Setups
<1>8. ASSUME TypeOK, handle_resolve PROVE TypeOK'
  <2>1. queue' \in Seq(Handlers)
    BY <1>8, RanType DEF handle_resolve, Ops
  <2> QED
    BY <1>8, <2>1, CallsType DEF handle_resolve, TypeOK, Setups, Callbacks
<1>9. ASSUME TypeOK, handle_connect PROVE TypeOK'
  <2>1. queue' \in Seq(Handlers)
    BY <1>9, RanType DEF handle_connect, Ops
  <2> QED
    BY <1>9, <2>1, CallsType DEF handle_connect, TypeOK, Callbacks
<1>10. ASSUME TypeOK, start PROVE TypeOK'
  <2>1. queue' \in Seq(Handlers)
    BY <1>10, RanType DEF start, Ops
  <2> QED
    BY <1>10, <2>1, CallsType DEF start, TypeOK, Introduce, Setups, Callbacks, Introductions
<1>11. ASSUME TypeOK, handle_handshake PROVE TypeOK'
  <2>1. queue' \in Seq(Handlers)
    BY <1>11, RanType DEF handle_handshake, Ops
  <2> QED
    BY <1>11, <2>1, CallsType DEF handle_handshake, TypeOK, Introduce, Callbacks, Introductions
<1>12. ASSUME TypeOK, stop PROVE TypeOK'
  <2>1. queue' \in Seq(Handlers)
    BY <1>12, RanType DEF stop, Ops
  <2> QED
    BY <1>12, <2>1, CallsType DEF stop, TypeOK, Callbacks, TcpShutdown
<1>13. ASSUME TypeOK, ShutdownReturns PROVE TypeOK'
  BY <1>13, CallsType DEF ShutdownReturns, TypeOK, Callbacks
<1>14. ASSUME TypeOK, push_send_data PROVE TypeOK'
  <2>1. queue' \in Seq(Handlers) /\ Head(queue).n \in Nat
    BY <1>14, RanType DEF push_send_data, Ops
  <2>2. m_send_buffer \in Seq(Nat) /\ writing \in Seq(Writes)
    BY <1>14 DEF TypeOK
  <2>3. m_send_buffer' \in Seq(Nat) /\ m_send_buffer' # <<>>
    BY <1>14, <2>1, <2>2, AppendType DEF push_send_data
  <2>4. Write(Head(m_send_buffer'), 1) \in Writes
    BY <2>3, TailType DEF Write, Writes
  <2>5. writing' \in Seq(Writes)
    BY <1>14, <2>2, <2>4, AppendType DEF push_send_data, send
  <2> QED
    BY <1>14, <2>1, <2>3, <2>5 DEF push_send_data, TypeOK
<1>15. ASSUME TypeOK, handle_recv PROVE TypeOK'
  <2>1. queue' \in Seq(Handlers) /\ Head(queue).n \in Nat
    BY <1>15, RanType DEF handle_recv, close, Ops
  <2>2. m_recv_buffer' \in Nat /\ reading' \in Nat
    BY <1>15, <2>1 DEF handle_recv, ShowOrReadOn, recv, TypeOK
  <2>3. CallTypeOK'
    BY <1>15, CallsType DEF handle_recv, ShowOrReadOn, TypeOK, CallTypeOK, Callbacks, DataCallbacks
  <2> QED
    BY <1>15, <2>1, <2>2, <2>3 DEF handle_recv, TypeOK
<1>16. ASSUME TypeOK, WriteToken, handle_send PROVE TypeOK'
  <2>1. queue' \in Seq(Handlers)
    BY <1>16, RanType DEF handle_send, close, Ops
  <2>2. m_send_buffer \in Seq(Nat) /\ writing \in Seq(Writes) /\ sent \in Nat
    BY <1>16 DEF TypeOK
  <2>3. m_send_buffer # <<>>
    <3>1. queue \in Seq(Handlers) /\ queue # <<>> /\ Head(queue).op = "send"
      BY <1>16 DEF handle_send, Runs, TypeOK
    <3>2. 1 \in 1..Len(queue) /\ queue[1].op = "send"
      BY <3>1, TailAt
    <3> QED
      BY <1>16, <3>2 DEF WriteToken, NoneIn
  <2>4. m_send_buffer' \in Seq(Nat) /\ sent' \in Nat
    <3>1. Tail(m_send_buffer) \in Seq(Nat)
      BY <2>2, <2>3, TailType
    <3>2. m_send_buffer' = Tail(m_send_buffer) \/ m_send_buffer' = m_send_buffer
      BY <1>16, HandleSendCounts
    <3>3. sent' = sent + 1 \/ sent' = sent
      BY <1>16, HandleSendCounts
    <3>4. m_send_buffer' \in Seq(Nat)
      BY <2>2, <3>1, <3>2
    <3>5. sent' \in Nat
      BY <2>2, <3>3
    <3> QED
      BY <3>4, <3>5
  <2>5. writing' \in Seq(Writes)
    <3>1. CASE m_send_buffer' = <<>> \/ Failed
      BY <1>16, <2>2, <3>1 DEF handle_send
    <3>2. CASE m_send_buffer' # <<>> /\ ~Failed
      <4>1. Write(Head(m_send_buffer'), 1) \in Writes
        BY <2>4, <3>2, TailType DEF Write, Writes
      <4> QED
        BY <1>16, <2>2, <3>2, <4>1, AppendType DEF handle_send, send
    <3> QED
      BY <3>1, <3>2
  <2>6. CallTypeOK'
    BY <1>16, CallsType DEF handle_send, TypeOK, CallTypeOK, Callbacks, DataCallbacks
  <2> QED
    BY <1>16, <2>1, <2>4, <2>5, <2>6 DEF handle_send, TypeOK
<1>17. ASSUME TypeOK, Return PROVE TypeOK'
  <2>1. queue' \in Seq(Handlers)
    BY <1>17, PostedType
       DEF Return, ReturnToReading, ReturnFromSend, ReturnFromClose, ReturnFromFailure,
           TypeOK, Post, Ops
  <2>2. reading' \in Nat
    <3>1. reading' = reading \/ reading' = reading + 1
      BY <1>17 DEF Return, ReturnToReading, ReturnFromSend, ReturnFromClose,
                   ReturnFromFailure, recv
    <3> QED
      BY <1>17, <3>1 DEF TypeOK
  <2>3. m_running' \in BOOLEAN
    <3>1. m_running' = m_running \/ m_running' = FALSE
      BY <1>17 DEF Return, ReturnToReading, ReturnFromSend, ReturnFromClose,
                   ReturnFromFailure
    <3> QED
      BY <1>17, <3>1 DEF TypeOK
  <2>4. rejected' \subseteq Callbacks /\ CallTypeOK'
    BY <1>17 DEF Return, ReturnToReading, ReturnFromSend, ReturnFromClose,
             ReturnFromFailure, TypeOK, CallTypeOK, Callbacks, DataCallbacks
  <2> QED
    BY <1>17, <2>1, <2>2, <2>3, <2>4 DEF Return, TypeOK
<1>18. ASSUME TypeOK, send_buffer_fill PROVE TypeOK'
  <2>1. posted + 1 \in Nat
    BY <1>18 DEF TypeOK
  <2>2. queue' \in Seq(Handlers)
    BY <1>18, <2>1, PostedType DEF send_buffer_fill, Ops
  <2> QED
    BY <1>18, <2>1, <2>2 DEF send_buffer_fill, TypeOK
<1>19. ASSUME TypeOK, UserCloses PROVE TypeOK'
  <2>1. queue' \in Seq(Handlers)
    BY <1>19, PostedType DEF UserCloses, Post, Ops
  <2> QED
    BY <1>19, <2>1 DEF UserCloses, TypeOK
<1>20. ASSUME TypeOK, recv_buffer_drop PROVE TypeOK'
  BY <1>20 DEF recv_buffer_drop, buffered_length, TypeOK
<1>21. ASSUME TypeOK, recv_buffer_water_mark PROVE TypeOK'
  BY <1>21 DEF recv_buffer_water_mark, TypeOK
<1>22. ASSUME TypeOK, PeerSends PROVE TypeOK'
  BY <1>22 DEF PeerSends, TypeOK
<1>23. ASSUME TypeOK, PeerCloses PROVE TypeOK'
  BY <1>23 DEF PeerCloses, TypeOK
<1>24. ASSUME TypeOK, ReadCompletes PROVE TypeOK'
  <2>1. reading' \in Nat /\ bytes_read' \in Nat
    BY <1>24, ReadCounts
  <2>2. queue' \in Seq(Handlers)
    <3>1. \A n \in 1..(peer_sent - bytes_read) : n \in Nat
      BY <1>24 DEF TypeOK
    <3> QED
      BY <1>24, <3>1, PostedType DEF ReadCompletes, Ops
  <2> QED
    BY <1>24, <2>1, <2>2 DEF ReadCompletes, TypeOK
<1>25. ASSUME TypeOK, WriteCompletes PROVE TypeOK'
  <2> DEFINE w == Head(writing)
  <2>1. queue' \in Seq(Handlers)
    <3>1. queue \in Seq(Handlers)
      BY <1>25 DEF TypeOK
    <3> QED
      BY <1>25, <3>1, PostedType DEF WriteCompletes, Ops
  <2>2. writing \in Seq(Writes) /\ writing # <<>> /\ wire \in Seq(Nat \X Nat)
    BY <1>25 DEF WriteCompletes, TypeOK
  <2>3. w \in Writes /\ Tail(writing) \in Seq(Writes)
    BY <2>2, TailType
  <2>4. w.pack \in Nat /\ w.at \in Nat
    BY <2>3 DEF Writes
  <2>5. Append(Tail(writing), Write(w.pack, w.at + 1)) \in Seq(Writes)
    <3>1. Write(w.pack, w.at + 1) \in Writes
      BY <2>4 DEF Write, Writes
    <3> QED
      BY <2>3, <3>1, AppendType
  <2>6. Append(wire, <<w.pack, w.at>>) \in Seq(Nat \X Nat)
    BY <2>2, <2>4, AppendType
  <2>7. writing' \in Seq(Writes) /\ wire' \in Seq(Nat \X Nat)
    BY <1>25, <2>2, <2>3, <2>5, <2>6 DEF WriteCompletes
  <2> QED
    BY <1>25, <2>1, <2>7 DEF WriteCompletes, TypeOK
<1> QED
  BY <1>1, <1>2, <1>3, <1>4, <1>5, <1>6, <1>7, <1>8, <1>9, <1>10, <1>11, <1>12,
     <1>13, <1>14, <1>15, <1>16, <1>17, <1>18, <1>19, <1>20, <1>21, <1>22,
     <1>23, <1>24, <1>25
     DEF Next, Creation, Setup, IoThread, User, Peer

-----------------------------------------------------------------------------
\* The same of the queue of the connection.
LEMMA Posting ==
    ASSUME TypeOK, NEW op \in Ops, NEW ok \in BOOLEAN, NEW n \in Nat,
           queue' = Append(queue, Handler(op, ok, n))
    PROVE  /\ \A ops : NoneIn(queue', ops) <=> NoneIn(queue, ops) /\ op \notin ops
           /\ \A ops : OneIn(queue, ops) /\ (op \notin ops \/ NoneIn(queue, ops))
                            => OneIn(queue', ops)
           /\ \A o : FailIn(queue, o) /\ (op # o \/ ~ok) => FailIn(queue', o)
<1>1. queue \in Seq(Handlers)
  BY DEF TypeOK
<1>2. /\ Handler(op, ok, n) \in Handlers
      /\ Handler(op, ok, n).op = op /\ Handler(op, ok, n).ok = ok
  BY HandlerType
<1> QED
  BY <1>1, <1>2, PostTokens

\* The same when the io thread takes a handler.
LEMMA Running ==
    ASSUME TypeOK, NEW op \in Ops, Runs(op), queue' = Tail(queue)
    PROVE  /\ \A ops : NoneIn(queue, ops) => NoneIn(queue', ops) /\ op \notin ops
           /\ \A ops : op \notin ops => (NoneIn(queue', ops) => NoneIn(queue, ops))
           /\ \A ops : OneIn(queue, ops) => OneIn(queue', ops)
           /\ \A ops : OneIn(queue, ops) /\ op \in ops => NoneIn(queue', ops)
           /\ \A o : FailIn(queue, o) => FailIn(queue', o)
           /\ FailIn(queue, op) => Failed
           /\ callback = "none"
<1>1. queue \in Seq(Handlers) /\ queue # <<>> /\ Head(queue).op = op /\ callback = "none"
  BY DEF TypeOK, Runs
<1> QED
  BY <1>1, RunTokens DEF Failed

\* And when that handler posts another, as close() and handle_connect do.
LEMMA RunningPosts ==
    ASSUME TypeOK, NEW op \in Ops, NEW o \in Ops, Runs(op),
           queue' = Append(Tail(queue), Post(o))
    PROVE  /\ \A ops : NoneIn(queue, ops) => op \notin ops
           /\ \A ops : NoneIn(queue, ops) /\ o \notin ops => NoneIn(queue', ops)
           /\ \A ops : OneIn(queue, ops) /\ o \notin ops => OneIn(queue', ops)
           /\ \A ops : OneIn(queue, ops) /\ op \in ops => OneIn(queue', ops)
           /\ \A ops : OneIn(queue, ops) /\ op \in ops /\ o \notin ops => NoneIn(queue', ops)
           /\ \A ops : o \in ops => ~NoneIn(queue', ops)
           /\ \A f : FailIn(queue, f) /\ f # o => FailIn(queue', f)
           /\ callback = "none"
<1>1. queue \in Seq(Handlers) /\ queue # <<>> /\ Head(queue).op = op /\ callback = "none"
  BY DEF TypeOK, Runs
<1>2. Post(o) \in Handlers /\ Post(o).op = o /\ Tail(queue) \in Seq(Handlers)
  BY <1>1, PostType, TailType
<1>3. /\ \A ops : NoneIn(queue', ops) <=> NoneIn(Tail(queue), ops) /\ o \notin ops
      /\ \A ops : OneIn(Tail(queue), ops) /\ (o \notin ops \/ NoneIn(Tail(queue), ops))
                            => OneIn(queue', ops)
      /\ \A f : FailIn(Tail(queue), f) /\ o # f => FailIn(queue', f)
  <2> DEFINE r == Tail(queue)
  <2>1. r \in Seq(Handlers)
    BY <1>2
  <2> HIDE DEF r
  <2>2. /\ \A ops : NoneIn(Append(r, Post(o)), ops) <=> NoneIn(r, ops) /\ o \notin ops
        /\ \A ops : OneIn(r, ops) /\ (o \notin ops \/ NoneIn(r, ops))
                            => OneIn(Append(r, Post(o)), ops)
        /\ \A f : FailIn(r, f) /\ o # f => FailIn(Append(r, Post(o)), f)
    BY <1>2, <2>1, PostTokens
  <2> QED
    BY <2>2 DEF r
<1> QED
  BY <1>1, <1>3, RunTokens

-----------------------------------------------------------------------------
Tokens == SetupToken /\ Unknown /\ ReadToken /\ WriteToken /\ LateToken

\* Steps that leave every token where it is, or spend that of the attempt on
\* the exception that answers it.
LEMMA TokensQuiet ==
    ASSUME TypeOK, Tokens,
           \/ UNCHANGED vars \/ CreateAsync \/ recv_buffer_drop \/ recv_buffer_water_mark
           \/ PeerSends \/ PeerCloses
    PROVE  Tokens'
<1> USE DEF profile, setupVars, recvVars, sendVars, callVars, peerVars, userVars
<1>1. /\ UNCHANGED <<queue, callback, closes, m_running, rejected, reading,
                    writing, m_send_buffer, late, socket, m_use_ssl>>
      /\ \/ UNCHANGED answer /\ (setup' = setup \/ (setup = "idle" /\ setup' # "none"))
         \/ setup = "idle" /\ setup' = "none" /\ answer' = "exception"
  BY DEF vars, CreateAsync, recv_buffer_drop, recv_buffer_water_mark, PeerSends, PeerCloses
<1>2. CASE UNCHANGED answer /\ (setup' = setup \/ (setup = "idle" /\ setup' # "none"))
  BY <1>1, <1>2 DEF Tokens, SetupToken, Unknown, ReadToken, WriteToken, LateToken, Holding, Deaf
<1>3. CASE setup = "idle" /\ setup' = "none" /\ answer' = "exception"
  BY <1>1, <1>3 DEF Tokens, SetupToken, Unknown, ReadToken, WriteToken, LateToken, Holding, Deaf
<1> QED
  BY <1>1, <1>2, <1>3

\* Creation and connecting.
LEMMA TokensCreateSync ==
    ASSUME TypeOK, Tokens, CreateSync
    PROVE  Tokens'
<1> USE DEF profile, setupVars, recvVars, sendVars, callVars, peerVars, userVars
<1>1. CASE queue' = Append(queue, Post("start"))
  <2>1. /\ \A ops : NoneIn(queue', ops) <=> NoneIn(queue, ops) /\ "start" \notin ops
        /\ \A ops : OneIn(queue, ops) /\ ("start" \notin ops \/ NoneIn(queue, ops))
                            => OneIn(queue', ops)
        /\ \A o : FailIn(queue, o) /\ "start" # o  => FailIn(queue', o)
    BY <1>1, Posting DEF Post, Ops
  <2> QED
    BY <1>1, <2>1 DEF CreateSync, Tokens, SetupToken, Unknown, ReadToken, WriteToken, LateToken, Holding, Deaf, SetupOps
<1>2. CASE queue' = queue
  BY <1>2 DEF CreateSync, Tokens, SetupToken, Unknown, ReadToken, WriteToken, LateToken, Holding, Deaf
<1> QED
  BY <1>1, <1>2 DEF CreateSync

\* A connecting step or a stop is posted: the other tokens do not move.
LEMMA PostingSetup ==
    ASSUME TypeOK, NEW op \in SetupOps \cup {"stop"}, NEW ok \in BOOLEAN,
           queue' = Append(queue, Handler(op, ok, 0))
    PROVE  /\ NoneIn(queue, SetupOps) => OneIn(queue', SetupOps)
           /\ op = "stop" => (NoneIn(queue', SetupOps) <=> NoneIn(queue, SetupOps))
           /\ op = "stop" => (OneIn(queue, SetupOps) => OneIn(queue', SetupOps))
           /\ NoneIn(queue, {"recv"}) <=> NoneIn(queue', {"recv"})
           /\ NoneIn(queue, {"send"}) <=> NoneIn(queue', {"send"})
           /\ NoneIn(queue, {"push"}) <=> NoneIn(queue', {"push"})
           /\ OneIn(queue, {"recv"}) => OneIn(queue', {"recv"})
           /\ OneIn(queue, {"send"}) => OneIn(queue', {"send"})
           /\ FailIn(queue, "recv") => FailIn(queue', "recv")
           /\ FailIn(queue, "send") => FailIn(queue', "send")
<1>1. op \in Ops /\ 0 \in Nat /\ op \notin {"recv"} /\ op \notin {"send"} /\ op \notin {"push"}
  BY DEF SetupOps, Ops
<1>2. op = "stop" => op \notin SetupOps
  BY DEF SetupOps
<1>3. /\ \A ops : NoneIn(queue', ops) <=> NoneIn(queue, ops) /\ op \notin ops
      /\ \A ops : OneIn(queue, ops) /\ (op \notin ops \/ NoneIn(queue, ops))
                       => OneIn(queue', ops)
      /\ \A o : FailIn(queue, o) /\ (op # o \/ ~ok) => FailIn(queue', o)
  BY <1>1, Posting
<1>4. OneIn(queue, SetupOps) \/ ~NoneIn(queue, SetupOps)
  BY DEF OneIn, NoneIn
<1> QED
  BY <1>1, <1>2, <1>3, <1>4

\* A connecting operation ends with a handler in the queue.
LEMMA TokensConnecting ==
    ASSUME TypeOK, Tokens,
           handle_accept \/ ResolveCompletes \/ ConnectCompletes \/ HandshakeCompletes
    PROVE  Tokens'
<1> USE DEF profile, setupVars, recvVars, sendVars, callVars, peerVars, userVars
<1>1. /\ setup # "none" /\ setup' = "none"
      /\ UNCHANGED <<answer, callback, closes, m_running, rejected, reading, writing,
                     m_send_buffer, late, m_use_ssl>>
  BY DEF handle_accept, ResolveCompletes, ConnectCompletes, HandshakeCompletes, Completes
<1>2. PICK op \in SetupOps \cup {"stop"}, ok \in BOOLEAN :
         queue' = Append(queue, Handler(op, ok, 0))
  BY DEF handle_accept, ResolveCompletes, ConnectCompletes, HandshakeCompletes,
         Completes, Post, SetupOps
<1> QED
  BY <1>1, <1>2, PostingSetup DEF Tokens, SetupToken, Unknown, ReadToken,
     WriteToken, LateToken, Holding, Deaf

\* What the io thread does to the queue on its way to connecting or closing.
LEMMA RunningSetup ==
    ASSUME TypeOK, NEW op \in SetupOps \cup {"stop"}, Runs(op),
           \/ queue' = Tail(queue)
           \/ queue' = Append(Tail(queue), Post("start")) /\ op # "stop"
    PROVE  /\ op \in SetupOps => ~NoneIn(queue, SetupOps)
           /\ OneIn(queue, SetupOps) => OneIn(queue', SetupOps)
           /\ NoneIn(queue, SetupOps) => NoneIn(queue', SetupOps)
           /\ queue' = Tail(queue) /\ op \in SetupOps /\ OneIn(queue, SetupOps)
                => NoneIn(queue', SetupOps)
           /\ \A o \in {"recv", "send", "push"} : NoneIn(queue, {o}) => NoneIn(queue', {o})
           /\ \A o \in {"recv", "send"} : OneIn(queue, {o}) => OneIn(queue', {o})
           /\ \A o \in {"recv", "send"} : FailIn(queue, o) => FailIn(queue', o)
           /\ callback = "none"
<1>1. op \in Ops /\ "start" \in Ops /\ "start" \in SetupOps
  BY DEF SetupOps, Ops
<1>2. CASE queue' = Tail(queue)
  <2>1. /\ \A ops : NoneIn(queue, ops) => NoneIn(queue', ops) /\ op \notin ops
        /\ \A ops : OneIn(queue, ops) => OneIn(queue', ops)
        /\ \A ops : OneIn(queue, ops) /\ op \in ops => NoneIn(queue', ops)
        /\ \A o : FailIn(queue, o) => FailIn(queue', o)
        /\ callback = "none"
    BY <1>1, <1>2, Running
  <2> QED
    BY <1>1, <1>2, <2>1
<1>3. CASE queue' = Append(Tail(queue), Post("start")) /\ op # "stop"
  <2>1. /\ \A ops : NoneIn(queue, ops) => op \notin ops
        /\ \A ops : NoneIn(queue, ops) /\ "start" \notin ops => NoneIn(queue', ops)
        /\ \A ops : OneIn(queue, ops) /\ "start" \notin ops => OneIn(queue', ops)
        /\ \A ops : OneIn(queue, ops) /\ op \in ops => OneIn(queue', ops)
        /\ \A f : FailIn(queue, f) /\ f # "start" => FailIn(queue', f)
        /\ ~NoneIn(queue', SetupOps)
        /\ callback = "none"
    BY <1>1, <1>3, RunningPosts
  <2>2. op \in SetupOps
    BY <1>3
  <2>3. queue' # Tail(queue) \/ ~NoneIn(queue', SetupOps)
    BY <2>1
  <2>4. /\ \A o \in {"recv", "send", "push"} : "start" \notin {o}
        /\ \A o \in {"recv", "send"} : o # "start"
    OBVIOUS
  <2>5. queue' # Tail(queue)
    <3>1. Len(Tail(queue)) # Len(Append(Tail(queue), Post("start")))
      <4>1. Tail(queue) \in Seq(Handlers) /\ Post("start") \in Handlers
        BY <1>1, RanType, PostType
      <4> QED
        BY <4>1, AppendAt
    <3> QED
      BY <1>3, <3>1
  <2> QED
    BY <2>1, <2>2, <2>4, <2>5
<1> QED
  BY <1>2, <1>3

\* handle_resolve: the connecting token goes on to the connect, or is spent on
\* an answer.
LEMMA TokensResolve ==
    ASSUME TypeOK, Tokens, handle_resolve
    PROVE  Tokens'
<1> USE DEF profile, setupVars, recvVars, sendVars, callVars, peerVars, userVars
<1>1. "resolve" \in SetupOps \cup {"stop"} /\ Runs("resolve")
  BY DEF handle_resolve, SetupOps
<1> QED
  BY <1>1, RunningSetup DEF handle_resolve, Calls, Tokens, SetupToken, Unknown, ReadToken,
     WriteToken, LateToken, Holding, Deaf, Introductions, DataCallbacks

\* handle_connect: it goes on to start, or is spent.
LEMMA TokensConnect ==
    ASSUME TypeOK, Tokens, handle_connect
    PROVE  Tokens'
<1> USE DEF profile, setupVars, recvVars, sendVars, callVars, peerVars, userVars
<1>1. "connect" \in SetupOps \cup {"stop"} /\ Runs("connect")
  BY DEF handle_connect, SetupOps
<1> QED
  BY <1>1, RunningSetup DEF handle_connect, Calls, Tokens, SetupToken, Unknown, ReadToken,
     WriteToken, LateToken, Holding, Deaf, Introductions, DataCallbacks

\* start: it goes on to the handshake, or the read's token is the callback's.
LEMMA TokensStart ==
    ASSUME TypeOK, Tokens, start
    PROVE  Tokens'
<1> USE DEF profile, setupVars, recvVars, sendVars, callVars, peerVars, userVars
<1>1. "start" \in SetupOps \cup {"stop"} /\ Runs("start")
  BY DEF start, SetupOps
<1> QED
  BY <1>1, RunningSetup DEF start, Calls, Introduce, Tokens, SetupToken, Unknown, ReadToken,
     WriteToken, LateToken, Holding, Deaf, Introductions, DataCallbacks

\* handle_handshake: the same after a handshake.
LEMMA TokensHandshake ==
    ASSUME TypeOK, Tokens, handle_handshake
    PROVE  Tokens'
<1> USE DEF profile, setupVars, recvVars, sendVars, callVars, peerVars, userVars
<1>1. "handshake" \in SetupOps \cup {"stop"} /\ Runs("handshake")
  BY DEF handle_handshake, SetupOps
<1> QED
  BY <1>1, RunningSetup DEF handle_handshake, Calls, Introduce, Tokens, SetupToken, Unknown, ReadToken,
     WriteToken, LateToken, Holding, Deaf, Introductions, DataCallbacks

\* What a call of on_close changes.
LEMMA CallsClose ==
    ASSUME Calls("on_close")
    PROVE  callback' = "on_close" /\ closes' = closes + 1 /\ UNCHANGED <<answer, late>>
BY DEF Calls, Introductions, DataCallbacks

\* stop: a plain socket is closed with the call of on_close, so that the
\* operations still outstanding can only fail.
LEMMA TokensStop ==
    ASSUME TypeOK, Tokens, stop
    PROVE  Tokens'
<1> USE DEF profile, setupVars, recvVars, sendVars, callVars, peerVars, userVars
<1>1. "stop" \in SetupOps \cup {"stop"} /\ Runs("stop") /\ closes \in Nat
  BY DEF stop, SetupOps, TypeOK, CallTypeOK
<1>2. /\ UNCHANGED <<setup, m_running, m_use_ssl, reading, writing, m_send_buffer, rejected>>
      /\ queue' = Tail(queue)
  BY DEF stop
<1>3. \/ UNCHANGED <<callback, answer, closes, late, socket>>
      \/ /\ m_running /\ ~m_use_ssl /\ callback' = "on_close" /\ socket' = "closed"
         /\ closes' = closes + 1 /\ UNCHANGED <<answer, late>>
      \/ /\ m_running /\ m_use_ssl /\ callback' = "shutdown"
         /\ UNCHANGED <<answer, closes, late, socket>>
  BY CallsClose DEF stop, may_stop, TcpShutdown
<1>4. /\ OneIn(queue, SetupOps) => OneIn(queue', SetupOps)
      /\ NoneIn(queue, SetupOps) => NoneIn(queue', SetupOps)
      /\ \A o \in {"recv", "send", "push"} : NoneIn(queue, {o}) => NoneIn(queue', {o})
      /\ \A o \in {"recv", "send"} : OneIn(queue, {o}) => OneIn(queue', {o})
      /\ \A o \in {"recv", "send"} : FailIn(queue, o) => FailIn(queue', o)
      /\ callback = "none"
  <2>1. "stop" \in Ops /\ "stop" \notin SetupOps
    BY DEF Ops, SetupOps
  <2> QED
    BY <1>1, <1>2, <2>1, Running
<1>5. SetupToken' /\ WriteToken'
  BY <1>2, <1>3, <1>4 DEF Tokens, SetupToken, WriteToken
<1>6. Unknown'
  BY <1>2, <1>3, <1>4 DEF Tokens, Unknown
<1>7. ReadToken'
  BY <1>2, <1>3, <1>4 DEF Tokens, ReadToken, Holding, Deaf, Introductions
<1>8. LateToken'
  BY <1>1, <1>2, <1>3, <1>4 DEF Tokens, Unknown, LateToken
<1> QED
  BY <1>5, <1>6, <1>7, <1>8 DEF Tokens

\* The same for SSL, whose socket is not closed and promises nothing of late
\* callbacks.
LEMMA TokensShutdownReturns ==
    ASSUME TypeOK, Tokens, ShutdownReturns
    PROVE  Tokens'
<1> USE DEF profile, setupVars, recvVars, sendVars, callVars, peerVars, userVars
<1>1. /\ UNCHANGED <<setup, m_running, m_use_ssl, reading, writing, m_send_buffer, rejected,
                    queue, answer, late>>
      /\ callback = "shutdown" /\ callback' = "on_close" /\ closes' = closes + 1
      /\ closes \in Nat
  BY CallsClose DEF ShutdownReturns, TypeOK, CallTypeOK
<1> QED
  BY <1>1 DEF Tokens, SetupToken, Unknown, ReadToken,
     WriteToken, LateToken, Holding, Deaf, Introductions

-----------------------------------------------------------------------------
(* Reading and writing.                                                    *)

\* A pack that is added to a buffer leaves the front where it is.
LEMMA HeadOfAppend ==
    ASSUME NEW S, NEW q \in Seq(S), NEW x \in S
    PROVE  /\ Append(q, x) # <<>>
           /\ q # <<>> => Head(Append(q, x)) = Head(q)
<1>1. /\ Append(q, x) \in Seq(S) /\ Len(Append(q, x)) = Len(q) + 1 /\ Len(q) \in Nat
      /\ \A i \in 1..Len(q) : Append(q, x)[i] = q[i]
  BY AppendType, AppendAt
<1>2. Append(q, x) # <<>> /\ Head(Append(q, x)) = Append(q, x)[1]
  BY <1>1
<1>3. ASSUME q # <<>> PROVE Head(q) = q[1] /\ 1 \in 1..Len(q)
  BY <1>3, TailAt
<1> QED
  BY <1>1, <1>2, <1>3

\* What a call of on_recv or on_send changes.
LEMMA CallsData ==
    ASSUME NEW c \in DataCallbacks, Calls(c)
    PROVE  /\ callback' = c /\ UNCHANGED <<answer, closes>>
           /\ late' = IF closes > 0 THEN [late EXCEPT ![c] = @ + 1] ELSE late
BY DEF Calls, Introductions, DataCallbacks

\* push_send_data: a write is started for the first pack only, when there is
\* none.
LEMMA TokensPush ==
    ASSUME TypeOK, Tokens, push_send_data
    PROVE  Tokens'
<1> USE DEF profile, setupVars, recvVars, sendVars, callVars, peerVars, userVars
<1>1. /\ Runs("push") /\ queue' = Tail(queue) /\ "push" \in Ops /\ "push" \notin SetupOps
      /\ UNCHANGED <<setup, answer, callback, closes, m_running, m_use_ssl, rejected, reading,
                     late, socket>>
  BY DEF push_send_data, SetupOps, Ops
<1>2. /\ OneIn(queue, SetupOps) => OneIn(queue', SetupOps)
      /\ NoneIn(queue, SetupOps) => NoneIn(queue', SetupOps)
      /\ \A o \in {"recv", "send", "push"} : NoneIn(queue, {o}) => NoneIn(queue', {o})
      /\ \A o \in {"recv", "send"} : OneIn(queue, {o}) => OneIn(queue', {o})
      /\ \A o \in {"recv", "send"} : FailIn(queue, o) => FailIn(queue', o)
      /\ ~NoneIn(queue, {"push"})
  BY <1>1, Running
<1>3. answer = "connection"
  BY <1>2 DEF Tokens, Unknown
<1>4. SetupToken' /\ Unknown' /\ ReadToken' /\ LateToken'
  BY <1>1, <1>2, <1>3 DEF Tokens, SetupToken, Unknown, ReadToken, LateToken, Holding, Deaf
<1>5. WriteToken'
  <2>1. m_send_buffer \in Seq(Nat) /\ Head(queue).n \in Nat
    BY <1>1, RanType DEF TypeOK
  <2>2. m_send_buffer' # <<>> /\ (m_send_buffer # <<>> => Head(m_send_buffer') = Head(m_send_buffer))
    BY <2>1, HeadOfAppend DEF push_send_data
  <2>3. CASE m_send_buffer = <<>>
    <3>1. writing = <<>> /\ NoneIn(queue, {"send"})
      BY <2>3 DEF Tokens, WriteToken
    <3>2. writing' = Append(<<>>, Write(Head(m_send_buffer'), 1))
      BY <2>3, <3>1 DEF push_send_data, need_send, send
    <3>3. Len(writing') = 1 /\ writing'[1] = Write(Head(m_send_buffer'), 1)
      BY <3>2
    <3>4. writing'[1].pack = Head(m_send_buffer')
      BY <3>3 DEF Write
    <3> QED
      BY <1>2, <2>2, <3>1, <3>3, <3>4 DEF Tokens, WriteToken
  <2>4. CASE m_send_buffer # <<>>
    <3>1. writing' = writing
      BY <2>4 DEF push_send_data, need_send
    <3> QED
      BY <1>2, <2>2, <2>4, <3>1 DEF Tokens, WriteToken
  <2> QED
    BY <2>3, <2>4
<1> QED
  BY <1>4, <1>5 DEF Tokens

\* handle_recv: the read's token comes out of the queue and goes to the next
\* read or to on_recv; a late one was the last that could succeed.
LEMMA TokensRecv ==
    ASSUME TypeOK, Tokens, handle_recv
    PROVE  Tokens'
<1> USE DEF profile, setupVars, recvVars, sendVars, callVars, peerVars, userVars
<1>1. /\ Runs("recv") /\ "recv" \in Ops /\ "recv" \notin SetupOps
      /\ "stop" \in Ops /\ "stop" \notin SetupOps
      /\ UNCHANGED <<setup, m_running, m_use_ssl, rejected, writing, m_send_buffer, socket>>
  BY DEF handle_recv, SetupOps, Ops
<1>2. queue' = Tail(queue) \/ queue' = Append(Tail(queue), Post("stop"))
  BY DEF handle_recv, close
<1>3. /\ OneIn(queue, SetupOps) => OneIn(queue', SetupOps)
      /\ NoneIn(queue, SetupOps) => NoneIn(queue', SetupOps)
      /\ NoneIn(queue, {"send"}) => NoneIn(queue', {"send"})
      /\ OneIn(queue, {"send"}) => OneIn(queue', {"send"})
      /\ OneIn(queue, {"recv"}) => NoneIn(queue', {"recv"})
      /\ FailIn(queue, "send") => FailIn(queue', "send")
      /\ ~NoneIn(queue, {"recv"})
      /\ callback = "none"
  <2>1. CASE queue' = Tail(queue)
    <3>1. /\ \A ops : NoneIn(queue, ops) => NoneIn(queue', ops) /\ "recv" \notin ops
          /\ \A ops : OneIn(queue, ops) => OneIn(queue', ops)
          /\ \A ops : OneIn(queue, ops) /\ "recv" \in ops => NoneIn(queue', ops)
          /\ \A o : FailIn(queue, o) => FailIn(queue', o)
          /\ callback = "none"
      BY <1>1, <2>1, Running
    <3> QED
      BY <3>1
  <2>2. CASE queue' = Append(Tail(queue), Post("stop"))
    <3>1. /\ \A ops : NoneIn(queue, ops) => "recv" \notin ops
          /\ \A ops : NoneIn(queue, ops) /\ "stop" \notin ops => NoneIn(queue', ops)
          /\ \A ops : OneIn(queue, ops) /\ "stop" \notin ops => OneIn(queue', ops)
          /\ \A ops : OneIn(queue, ops) /\ "recv" \in ops /\ "stop" \notin ops
                        => NoneIn(queue', ops)
          /\ \A f : FailIn(queue, f) /\ f # "stop" => FailIn(queue', f)
          /\ callback = "none"
      BY <1>1, <2>2, RunningPosts
    <3> QED
      BY <1>1, <3>1
  <2> QED
    BY <1>2, <2>1, <2>2
<1>4. /\ answer = "connection" /\ ~Deaf /\ reading = 0
      /\ NoneIn(queue', {"recv"}) /\ FailIn(queue', "recv")
  <2>1. answer = "connection" /\ ~Deaf /\ NoneIn(queue', {"recv"})
    BY <1>3 DEF Tokens, Unknown, ReadToken
  <2>2. reading = 0
    BY <1>3 DEF Tokens, ReadToken, TypeOK
  <2> QED
    BY <2>1, <2>2, NoneFails
<1>5. \/ /\ callback' = "on_recv" /\ ~Failed
         /\ UNCHANGED <<reading, answer, closes>>
         /\ late' = IF closes > 0 THEN [late EXCEPT !["on_recv"] = @ + 1] ELSE late
      \/ UNCHANGED callVars /\ (reading' = reading + 1 \/ reading' = reading)
  BY CallsData DEF handle_recv, ShowOrReadOn, recv, DataCallbacks
<1>6. SetupToken' /\ Unknown' /\ WriteToken'
  BY <1>1, <1>3, <1>4, <1>5 DEF Tokens, SetupToken, Unknown, WriteToken
<1>7. ReadToken'
  <2>1. OneIn(queue', {"recv"}) /\ (reading' = 0 \/ reading' = 1) /\ ~Deaf'
    BY <1>1, <1>4, <1>5 DEF OneIn, NoneIn, Deaf
  <2>2. Holding' => reading' = 0
    BY <1>3, <1>4, <1>5 DEF Holding, Introductions
  <2> QED
    BY <1>4, <2>1, <2>2 DEF ReadToken
<1>8. LateToken'
  <2>1. late \in [{"on_recv", "on_send"} -> Nat] /\ closes \in Nat
    BY DEF TypeOK, CallTypeOK, DataCallbacks
  <2>2. closes > 0 /\ ~m_use_ssl /\ ~Failed => late["on_recv"] = 0
    BY <1>1, <2>1 DEF Tokens, LateToken, FailIn, Failed, Runs
  <2>3. late'["on_send"] = late["on_send"]
    BY <1>5, <2>1
  <2>4. closes > 0 /\ ~m_use_ssl => late'["on_recv"] <= 1
    BY <1>5, <2>1, <2>2 DEF Tokens, LateToken
  <2>5. closes = 0 => late' = late
    BY <1>5
  <2> QED
    BY <1>1, <1>3, <1>4, <1>5, <2>1, <2>3, <2>4, <2>5 DEF Tokens, LateToken
<1> QED
  BY <1>6, <1>7, <1>8 DEF Tokens

\* handle_send: the write's token goes to the next pack, or is given up with
\* the last one.
LEMMA TokensSend ==
    ASSUME TypeOK, Tokens, handle_send
    PROVE  Tokens'
<1> USE DEF profile, setupVars, recvVars, sendVars, callVars, peerVars, userVars
<1>1. /\ Runs("send") /\ "send" \in Ops /\ "send" \notin SetupOps
      /\ "stop" \in Ops /\ "stop" \notin SetupOps
      /\ UNCHANGED <<setup, m_running, m_use_ssl, rejected, reading, socket>>
  BY DEF handle_send, SetupOps, Ops
<1>2. queue' = Tail(queue) \/ queue' = Append(Tail(queue), Post("stop"))
  BY DEF handle_send, close
<1>3. /\ OneIn(queue, SetupOps) => OneIn(queue', SetupOps)
      /\ NoneIn(queue, SetupOps) => NoneIn(queue', SetupOps)
      /\ NoneIn(queue, {"recv"}) => NoneIn(queue', {"recv"})
      /\ OneIn(queue, {"recv"}) => OneIn(queue', {"recv"})
      /\ OneIn(queue, {"send"}) => NoneIn(queue', {"send"})
      /\ FailIn(queue, "recv") => FailIn(queue', "recv")
      /\ ~NoneIn(queue, {"send"})
      /\ callback = "none"
  <2>1. CASE queue' = Tail(queue)
    <3>1. /\ \A ops : NoneIn(queue, ops) => NoneIn(queue', ops) /\ "send" \notin ops
          /\ \A ops : OneIn(queue, ops) => OneIn(queue', ops)
          /\ \A ops : OneIn(queue, ops) /\ "send" \in ops => NoneIn(queue', ops)
          /\ \A o : FailIn(queue, o) => FailIn(queue', o)
          /\ callback = "none"
      BY <1>1, <2>1, Running
    <3> QED
      BY <3>1
  <2>2. CASE queue' = Append(Tail(queue), Post("stop"))
    <3>1. /\ \A ops : NoneIn(queue, ops) => "send" \notin ops
          /\ \A ops : NoneIn(queue, ops) /\ "stop" \notin ops => NoneIn(queue', ops)
          /\ \A ops : OneIn(queue, ops) /\ "stop" \notin ops => OneIn(queue', ops)
          /\ \A ops : OneIn(queue, ops) /\ "send" \in ops /\ "stop" \notin ops
                        => NoneIn(queue', ops)
          /\ \A f : FailIn(queue, f) /\ f # "stop" => FailIn(queue', f)
          /\ callback = "none"
      BY <1>1, <2>2, RunningPosts
    <3> QED
      BY <1>1, <3>1
  <2> QED
    BY <1>2, <2>1, <2>2
<1>4. /\ answer = "connection" /\ writing = <<>> /\ m_send_buffer # <<>>
      /\ NoneIn(queue', {"send"}) /\ FailIn(queue', "send")
  BY <1>3, NoneFails DEF Tokens, Unknown, WriteToken
<1>5. \/ /\ callback' = "on_send" /\ ~Failed
         /\ UNCHANGED <<answer, closes>>
         /\ late' = IF closes > 0 THEN [late EXCEPT !["on_send"] = @ + 1] ELSE late
      \/ UNCHANGED callVars
  BY CallsData DEF handle_send, DataCallbacks
<1>6. SetupToken' /\ Unknown'
  BY <1>1, <1>3, <1>4, <1>5 DEF Tokens, SetupToken, Unknown
<1>7. ReadToken'
  BY <1>1, <1>3, <1>5 DEF Tokens, ReadToken, Holding, Deaf, Introductions
<1>8. WriteToken'
  <2>1. CASE m_send_buffer' = <<>> \/ Failed
    <3>1. writing' = writing
      BY <2>1 DEF handle_send
    <3> QED
      BY <1>4, <3>1 DEF WriteToken, OneIn, NoneIn
  <2>2. CASE m_send_buffer' # <<>> /\ ~Failed
    <3>1. writing' = Append(<<>>, Write(Head(m_send_buffer'), 1))
      BY <1>4, <2>2 DEF handle_send, send
    <3>2. Len(writing') = 1 /\ writing'[1] = Write(Head(m_send_buffer'), 1)
      BY <3>1
    <3>3. writing'[1].pack = Head(m_send_buffer')
      BY <3>2 DEF Write
    <3> QED
      BY <1>4, <2>2, <3>2, <3>3 DEF WriteToken, OneIn, NoneIn
  <2> QED
    BY <2>1, <2>2
<1>9. LateToken'
  <2>1. late \in [{"on_recv", "on_send"} -> Nat] /\ closes \in Nat
    BY DEF TypeOK, CallTypeOK, DataCallbacks
  <2>2. closes > 0 /\ ~m_use_ssl /\ ~Failed => late["on_send"] = 0
    BY <1>1, <2>1 DEF Tokens, LateToken, FailIn, Failed, Runs
  <2>3. late'["on_recv"] = late["on_recv"]
    BY <1>5, <2>1
  <2>4. closes > 0 /\ ~m_use_ssl => late'["on_send"] <= 1
    BY <1>5, <2>1, <2>2 DEF Tokens, LateToken
  <2>5. closes = 0 => late' = late
    BY <1>5
  <2> QED
    BY <1>1, <1>3, <1>4, <1>5, <2>1, <2>3, <2>4, <2>5 DEF Tokens, LateToken
<1> QED
  BY <1>6, <1>7, <1>8, <1>9 DEF Tokens

\* The end of a callback: the read's token goes back to the kernel, or a user
\* who returned false takes it away.
LEMMA TokensReturn ==
    ASSUME TypeOK, Tokens, Return
    PROVE  Tokens'
<1> USE DEF profile, setupVars, recvVars, sendVars, callVars, peerVars, userVars
<1>1. /\ UNCHANGED <<setup, m_use_ssl, writing, m_send_buffer, socket, answer, closes, late>>
      /\ callback' = "none"
  BY DEF Return
<1>2. \/ queue' = queue
      \/ answer = "connection" /\ queue' = Append(queue, Handler("stop", TRUE, 0))
  BY DEF Return, ReturnToReading, ReturnFromSend, ReturnFromClose, ReturnFromFailure, Post,
         Tokens, Unknown, Introductions
<1>3. /\ NoneIn(queue', SetupOps) <=> NoneIn(queue, SetupOps)
      /\ OneIn(queue, SetupOps) => OneIn(queue', SetupOps)
      /\ NoneIn(queue, {"recv"}) <=> NoneIn(queue', {"recv"})
      /\ NoneIn(queue, {"send"}) <=> NoneIn(queue', {"send"})
      /\ NoneIn(queue, {"push"}) <=> NoneIn(queue', {"push"})
      /\ OneIn(queue, {"recv"}) => OneIn(queue', {"recv"})
      /\ OneIn(queue, {"send"}) => OneIn(queue', {"send"})
      /\ FailIn(queue, "recv") => FailIn(queue', "recv")
      /\ FailIn(queue, "send") => FailIn(queue', "send")
  BY <1>2, PostingSetup
<1>4. \/ Holding /\ reading' = reading + 1 /\ UNCHANGED <<m_running, rejected>>
      \/ Holding /\ reading' = reading /\ rejected' = rejected \cup {callback} /\ m_running' = m_running
      \/ callback = "on_send" /\ UNCHANGED <<reading, m_running>>
           /\ rejected' \in {rejected, rejected \cup {"on_send"}}
      \/ callback = "on_close" /\ m_running' = FALSE /\ UNCHANGED <<reading, rejected>>
      \/ callback = "connect_failed" /\ UNCHANGED <<reading, rejected, m_running>>
  BY DEF Return, ReturnToReading, ReturnFromSend, ReturnFromClose, ReturnFromFailure, recv, Holding
<1>5. SetupToken' /\ WriteToken' /\ LateToken'
  BY <1>1, <1>3 DEF Tokens, SetupToken, WriteToken, LateToken
<1>6. Unknown'
  BY <1>1, <1>3, <1>4 DEF Tokens, Unknown, Holding, Introductions
<1>7. ReadToken'
  <2>1. reading \in Nat
    BY DEF TypeOK
  <2>2. ~Holding'
    BY <1>1 DEF Holding, Introductions
  <2>3. ~Holding => Deaf' = Deaf
    BY <1>4 DEF Deaf, Introductions, Holding
  <2> QED
    BY <1>1, <1>3, <1>4, <2>1, <2>2, <2>3 DEF Tokens, ReadToken, Deaf
<1> QED
  BY <1>5, <1>6, <1>7 DEF Tokens

\* What the user does from other threads moves no token.
LEMMA TokensUser ==
    ASSUME TypeOK, Tokens, send_buffer_fill \/ UserCloses
    PROVE  Tokens'
<1> USE DEF profile, setupVars, recvVars, sendVars, callVars, peerVars, userVars
<1>1. /\ answer = "connection"
      /\ UNCHANGED <<setup, m_use_ssl, writing, m_send_buffer, socket, answer, closes, late,
                     callback, reading, m_running, rejected>>
  BY DEF send_buffer_fill, UserCloses, Known
<1>2. \E op \in {"push", "stop"}, n \in Nat : queue' = Append(queue, Handler(op, TRUE, n))
  <2>1. posted + 1 \in Nat
    BY DEF TypeOK
  <2>2. CASE send_buffer_fill
    BY <2>1, <2>2 DEF send_buffer_fill
  <2>3. CASE UserCloses
    BY <2>3 DEF UserCloses, Post
  <2> QED
    BY <2>2, <2>3
<1> PICK op \in {"push", "stop"}, n \in Nat : queue' = Append(queue, Handler(op, TRUE, n))
  BY <1>2
<1>3. op \in Ops /\ op \notin SetupOps /\ op \notin {"recv"} /\ op \notin {"send"}
  BY DEF Ops, SetupOps
<1>4. /\ \A ops : NoneIn(queue', ops) <=> NoneIn(queue, ops) /\ op \notin ops
      /\ \A ops : OneIn(queue, ops) /\ (op \notin ops \/ NoneIn(queue, ops))
                       => OneIn(queue', ops)
      /\ \A o : FailIn(queue, o) /\ op # o => FailIn(queue', o)
  BY <1>3, Posting
<1> QED
  BY <1>1, <1>3, <1>4 DEF Tokens, SetupToken, Unknown, ReadToken,
     WriteToken, LateToken, Holding, Deaf

\* A read completes: its token goes from the kernel to the queue.
LEMMA TokensReadCompletes ==
    ASSUME TypeOK, Tokens, ReadCompletes
    PROVE  Tokens'
<1> USE DEF profile, setupVars, recvVars, sendVars, callVars, peerVars, userVars
<1>1. /\ UNCHANGED <<setup, m_use_ssl, writing, m_send_buffer, socket, answer, closes, late,
                     callback, m_running, rejected>>
      /\ reading > 0 /\ reading' = 0
  <2>1. reading \in Nat /\ reading > 0 /\ reading' = reading - 1
    BY ReadCounts DEF TypeOK
  <2> QED
    BY <2>1 DEF ReadCompletes, Tokens, ReadToken
<1>2. \E ok \in BOOLEAN, n \in Nat :
         /\ queue' = Append(queue, Handler("recv", ok, n))
         /\ ok => socket # "closed"
  <2>1. \A n \in 1..(peer_sent - bytes_read) : n \in Nat
    BY DEF TypeOK
  <2> QED
    BY <2>1 DEF ReadCompletes
<1> PICK ok \in BOOLEAN, n \in Nat :
         /\ queue' = Append(queue, Handler("recv", ok, n))
         /\ ok => socket # "closed"
  BY <1>2
<1>3. "recv" \in Ops /\ "recv" \notin SetupOps
  BY DEF Ops, SetupOps
<1>4. /\ \A ops : NoneIn(queue', ops) <=> NoneIn(queue, ops) /\ "recv" \notin ops
      /\ \A ops : OneIn(queue, ops) /\ ("recv" \notin ops \/ NoneIn(queue, ops))
                       => OneIn(queue', ops)
      /\ \A o : FailIn(queue, o) /\ ("recv" # o \/ ~ok) => FailIn(queue', o)
  BY <1>3, Posting
<1>5. answer = "connection" /\ NoneIn(queue, {"recv"}) /\ ~Holding /\ ~Deaf
  BY <1>1 DEF Tokens, Unknown, ReadToken
<1>6. SetupToken' /\ Unknown' /\ WriteToken'
  BY <1>1, <1>3, <1>4, <1>5 DEF Tokens, SetupToken, Unknown, WriteToken
<1>7. ReadToken'
  <2>1. OneIn(queue', {"recv"})
    BY <1>4, <1>5 DEF Tokens, ReadToken
  <2>2. ~Holding' /\ ~Deaf'
    BY <1>1, <1>5 DEF Holding, Deaf
  <2> QED
    BY <1>1, <2>1, <2>2 DEF ReadToken
<1>8. LateToken'
  <2>1. closes \in Nat
    BY DEF TypeOK, CallTypeOK
  <2>2. ~m_use_ssl /\ late["on_recv"] > 0 => ~ok
    BY <2>1 DEF Tokens, LateToken
  <2> QED
    BY <1>1, <1>4, <2>2 DEF Tokens, LateToken
<1> QED
  BY <1>6, <1>7, <1>8 DEF Tokens

\* A write goes on with its next piece, or its token goes to the queue.
LEMMA TokensWriteCompletes ==
    ASSUME TypeOK, Tokens, WriteCompletes
    PROVE  Tokens'
<1> USE DEF profile, setupVars, recvVars, sendVars, callVars, peerVars, userVars
<1>1. /\ UNCHANGED <<setup, m_use_ssl, reading, m_send_buffer, socket, answer, closes, late,
                     callback, m_running, rejected>>
      /\ writing # <<>> /\ NoneIn(queue, {"send"}) /\ m_send_buffer # <<>>
  BY DEF WriteCompletes, Tokens, WriteToken
<1>2. Tail(writing) = <<>> /\ Head(writing) = writing[1]
  BY <1>1 DEF Tokens, WriteToken, TypeOK
<1>3. \/ /\ writing' = Append(<<>>, Write(Head(writing).pack, Head(writing).at + 1))
         /\ queue' = queue
      \/ /\ writing' = <<>>
         /\ \E ok \in BOOLEAN : queue' = Append(queue, Handler("send", ok, 0))
                                /\ (ok => socket # "closed")
  BY <1>2 DEF WriteCompletes
<1>4. answer = "connection"
  BY <1>1 DEF Tokens, Unknown
<1>5. CASE /\ writing' = Append(<<>>, Write(Head(writing).pack, Head(writing).at + 1))
           /\ queue' = queue
  <2>1. Len(writing') = 1 /\ writing'[1] = Write(Head(writing).pack, Head(writing).at + 1)
    BY <1>5
  <2>2. writing'[1].pack = writing[1].pack
    BY <1>2, <2>1 DEF Write
  <2>3. WriteToken'
    BY <1>1, <1>5, <2>1, <2>2 DEF Tokens, WriteToken
  <2> QED
    BY <1>1, <1>4, <1>5, <2>3 DEF Tokens, SetupToken, Unknown, ReadToken, LateToken,
       Holding, Deaf
<1>6. CASE /\ writing' = <<>>
           /\ \E ok \in BOOLEAN : queue' = Append(queue, Handler("send", ok, 0))
                                  /\ (ok => socket # "closed")
  <2> PICK ok \in BOOLEAN : queue' = Append(queue, Handler("send", ok, 0))
                                  /\ (ok => socket # "closed")
    BY <1>6
  <2>1. "send" \in Ops /\ "send" \notin SetupOps
    BY DEF Ops, SetupOps
  <2>2. /\ \A ops : NoneIn(queue', ops) <=> NoneIn(queue, ops) /\ "send" \notin ops
        /\ \A ops : OneIn(queue, ops) /\ ("send" \notin ops \/ NoneIn(queue, ops))
                         => OneIn(queue', ops)
        /\ \A o : FailIn(queue, o) /\ ("send" # o \/ ~ok) => FailIn(queue', o)
    BY <2>1, Posting
  <2>3. SetupToken' /\ Unknown' /\ ReadToken'
    BY <1>1, <1>4, <2>1, <2>2 DEF Tokens, SetupToken, Unknown, ReadToken, Holding, Deaf
  <2>4. WriteToken'
    <3>1. Len(writing') <= 1 /\ writing' = <<>>
      BY <1>6
    <3> QED
      BY <1>1, <2>2, <3>1 DEF Tokens, WriteToken
  <2>5. LateToken'
    <3>1. closes \in Nat
      BY DEF TypeOK, CallTypeOK
    <3>2. ~m_use_ssl /\ late["on_send"] > 0 => ~ok
      <4>1. closes = 0 => ~(late["on_send"] > 0)
        BY DEF Tokens, LateToken
      <4> QED
        BY <3>1, <4>1 DEF Tokens, LateToken
    <3> QED
      BY <1>1, <2>2, <3>2 DEF Tokens, LateToken
  <2> QED
    BY <2>3, <2>4, <2>5 DEF Tokens
<1> QED
  BY <1>3, <1>5, <1>6

\* Every step keeps the tokens.
LEMMA TokensStep == TypeOK /\ Tokens /\ [Next]_vars => Tokens'
BY TokensQuiet, TokensCreateSync, TokensConnecting, TokensResolve, TokensConnect,
   TokensStart, TokensHandshake, TokensStop, TokensShutdownReturns, TokensPush,
   TokensRecv, TokensSend, TokensReturn, TokensUser, TokensReadCompletes,
   TokensWriteCompletes
   DEF Next, Creation, Setup, IoThread, User, Peer

-----------------------------------------------------------------------------
(* Nothing that is under way is forgotten.                                 *)

\* Waiting of the model is the absence of NoneIn.
LEMMA WaitingIsNotNone ==
    ASSUME NEW op
    PROVE  Waiting(op) <=> ~NoneIn(queue, {op})
BY DEF Waiting, NoneIn

\* The same in the next state.
LEMMA WaitingIsNotNoneNext ==
    ASSUME NEW op
    PROVE  Waiting(op)' <=> ~NoneIn(queue', {op})
BY DEF Waiting, NoneIn

\* The handlers that wait still wait when another is posted.
LEMMA StillWaits ==
    ASSUME TypeOK, NEW op \in Ops, NEW ok \in BOOLEAN, NEW n \in Nat,
           queue' = Append(queue, Handler(op, ok, n))
    PROVE  /\ \A o : Waiting(o) => Waiting(o)'
           /\ Waiting(op)'
<1>1. \A ops : NoneIn(queue', ops) <=> NoneIn(queue, ops) /\ op \notin ops
  BY Posting
<1>2. ~NoneIn(queue', {op})
  BY <1>1
<1> QED
  BY <1>1, <1>2, WaitingIsNotNone, WaitingIsNotNoneNext

\* And when one of another kind runs.
LEMMA OthersWait ==
    ASSUME TypeOK, NEW op \in Ops, Runs(op), queue' = Tail(queue)
    PROVE  \A o : o # op /\ Waiting(o) => Waiting(o)'
<1>1. \A ops : op \notin ops => (NoneIn(queue', ops) => NoneIn(queue, ops))
  BY Running
<1> QED
  BY <1>1, WaitingIsNotNone, WaitingIsNotNoneNext

\* close() leaves a stop in the queue.
LEMMA StopWaits ==
    ASSUME TypeOK, NEW op \in Ops, Runs(op), close
    PROVE  Waiting("stop")'
<1>1. ~NoneIn(queue', {"stop"})
  BY RunningPosts DEF close, Ops
<1> QED
  BY <1>1, WaitingIsNotNoneNext

Armed == ReadArmed /\ SendArmed

\* While something is being connected, there is nothing to be armed for; and
\* the step that introduces the connection ends in a callback.
LEMMA ArmedSetup ==
    ASSUME TypeOK, Tokens, Tokens',
           \/ CreateSync \/ handle_accept \/ ResolveCompletes \/ ConnectCompletes
           \/ HandshakeCompletes \/ handle_resolve \/ handle_connect \/ start
           \/ handle_handshake
    PROVE  Armed'
<1> USE DEF profile, setupVars, recvVars, sendVars, callVars, peerVars, userVars
<1>1. answer # "connection"
  <2>1. setup # "none" \/ ~NoneIn(queue, SetupOps)
    <3>1. CASE \/ CreateSync \/ handle_accept \/ ResolveCompletes \/ ConnectCompletes
               \/ HandshakeCompletes
      BY <3>1 DEF CreateSync, handle_accept, ResolveCompletes, ConnectCompletes,
                  HandshakeCompletes, Completes
    <3>2. CASE handle_resolve \/ handle_connect \/ start \/ handle_handshake
      <4>1. PICK op \in SetupOps : Runs(op)
        BY <3>2 DEF handle_resolve, handle_connect, start, handle_handshake, SetupOps
      <4>2. queue \in Seq(Handlers) /\ queue # <<>> /\ Head(queue).op = op
        BY <4>1 DEF TypeOK, Runs
      <4> QED
        BY <4>2, RunTokens
    <3> QED
      BY <3>1, <3>2
  <2> QED
    BY <2>1 DEF Tokens, SetupToken
<1>2. ~m_running /\ m_send_buffer = <<>>
  BY <1>1 DEF Tokens, Unknown
<1>3. m_send_buffer' = <<>> /\ (~m_running' \/ callback' \in Introductions)
  BY <1>2 DEF CreateSync, handle_accept, ResolveCompletes, ConnectCompletes,
     HandshakeCompletes, Completes, handle_resolve, handle_connect, start,
     handle_handshake, Introduce, Calls, Introductions
<1> QED
  BY <1>3 DEF Armed, ReadArmed, SendArmed

\* Steps that disturb none of the variables, or only add to the queue.
LEMMA ArmedQuiet ==
    ASSUME TypeOK, Tokens, Armed,
           \/ UNCHANGED vars \/ CreateAsync \/ recv_buffer_drop \/ recv_buffer_water_mark
           \/ PeerSends \/ PeerCloses \/ send_buffer_fill \/ UserCloses
    PROVE  Armed'
<1> USE DEF profile, setupVars, recvVars, sendVars, callVars, peerVars, userVars
<1>1. UNCHANGED <<m_running, callback, reading, writing, m_send_buffer>>
  BY DEF vars, CreateAsync, recv_buffer_drop, recv_buffer_water_mark, PeerSends,
     PeerCloses, send_buffer_fill, UserCloses
<1>2. \A o : Waiting(o) => Waiting(o)'
  <2>1. CASE send_buffer_fill
    <3>1. posted + 1 \in Nat
      BY DEF TypeOK
    <3> QED
      BY <2>1, <3>1, StillWaits DEF send_buffer_fill, Ops
  <2>2. CASE UserCloses
    BY <2>2, StillWaits DEF UserCloses, Post, Ops
  <2>3. CASE queue' = queue
    BY <2>3 DEF Waiting
  <2> QED
    BY <2>1, <2>2, <2>3 DEF vars, CreateAsync, recv_buffer_drop, recv_buffer_water_mark,
       PeerSends, PeerCloses
<1> QED
  BY <1>1, <1>2 DEF Armed, ReadArmed, SendArmed

\* Closing: the callback it ends in is where a connection may rest.
LEMMA ArmedClosing ==
    ASSUME TypeOK, Tokens, Armed, stop \/ ShutdownReturns
    PROVE  Armed'
<1> USE DEF profile, setupVars, recvVars, sendVars, callVars, peerVars, userVars
<1>1. m_running' = m_running /\ (~m_running \/ callback' \in {"on_close", "shutdown"})
  <2>1. CASE stop
    BY <2>1, CallsClose DEF stop, may_stop
  <2>2. CASE ShutdownReturns
    BY <2>2, CallsClose DEF ShutdownReturns
  <2> QED
    BY <2>1, <2>2
<1> QED
  BY <1>1 DEF Armed, ReadArmed, SendArmed

\* push_send_data: a pack put into an empty buffer is written.
LEMMA ArmedPush ==
    ASSUME TypeOK, Tokens, Armed, push_send_data
    PROVE  Armed'
<1> USE DEF profile, setupVars, recvVars, sendVars, callVars, peerVars, userVars
<1>1. /\ UNCHANGED <<m_running, callback, reading>>
      /\ callback = "none"
      /\ \/ m_send_buffer # <<>> /\ writing' = writing
         \/ writing' = Append(writing, Write(Head(m_send_buffer'), 1))
  BY DEF push_send_data, need_send, send, Runs
<1>2. \A o \in {"recv", "send", "stop"} : Waiting(o) => Waiting(o)'
  BY OthersWait DEF push_send_data, Ops
<1>3. writing \in Seq(Writes)
  BY DEF TypeOK
<1>4. \A w : Append(writing, w) # <<>>
  BY <1>3, AppendSome
<1>5. (writing' = writing /\ m_send_buffer # <<>>) \/ writing' # <<>>
  BY <1>1, <1>4
<1> QED
  BY <1>1, <1>2, <1>5 DEF Armed, ReadArmed, SendArmed, Introductions

\* handle_recv reads again, calls on_recv, or posts a stop.
LEMMA ArmedRecv ==
    ASSUME TypeOK, Tokens, Armed, handle_recv
    PROVE  Armed'
<1> USE DEF profile, setupVars, recvVars, sendVars, callVars, peerVars, userVars
<1>1. /\ UNCHANGED <<m_running, writing, m_send_buffer>>
      /\ Runs("recv") /\ callback = "none" /\ reading \in Nat
  BY DEF handle_recv, Runs, TypeOK
<1>2. CASE Failed
  <2>1. Waiting("stop")'
    BY <1>2, StopWaits DEF handle_recv, Ops
  <2> QED
    BY <2>1 DEF Armed, ReadArmed, SendArmed
<1>3. CASE ~Failed
  <2>1. queue' = Tail(queue) /\ (callback' = "on_recv" \/ reading' = reading + 1)
    BY <1>3 DEF handle_recv, ShowOrReadOn, Calls, recv
  <2>2. \A o \in {"send", "stop"} : Waiting(o) => Waiting(o)'
    BY <1>1, <2>1, OthersWait DEF Ops
  <2>3. ReadArmed'
    BY <1>1, <2>1 DEF ReadArmed
  <2>4. SendArmed'
    BY <1>1, <2>2 DEF Armed, SendArmed
  <2> QED
    BY <2>3, <2>4 DEF Armed
<1> QED
  BY <1>2, <1>3

\* handle_send writes the next pack, has none, or posts a stop.
LEMMA ArmedSend ==
    ASSUME TypeOK, Tokens, Armed, handle_send
    PROVE  Armed'
<1> USE DEF profile, setupVars, recvVars, sendVars, callVars, peerVars, userVars
<1>1. /\ UNCHANGED <<m_running, reading>>
      /\ Runs("send") /\ callback = "none" /\ writing \in Seq(Writes)
  BY DEF handle_send, Runs, TypeOK
<1>2. CASE Failed
  <2>1. Waiting("stop")'
    BY <1>2, StopWaits DEF handle_send, Ops
  <2> QED
    BY <2>1 DEF Armed, ReadArmed, SendArmed
<1>3. CASE ~Failed
  <2>1. queue' = Tail(queue) /\ (m_send_buffer' = <<>> \/ writing' = Append(writing, Write(Head(m_send_buffer'), 1)))
    BY <1>3 DEF handle_send, send
  <2>2. \A o \in {"recv", "stop"} : Waiting(o) => Waiting(o)'
    BY <1>1, <2>1, OthersWait DEF Ops
  <2>3. ReadArmed'
    BY <1>1, <2>2 DEF Armed, ReadArmed, Introductions
  <2>4. m_send_buffer' = <<>> \/ writing' # <<>>
    <3>1. \A w : Append(writing, w) # <<>>
      BY <1>1, AppendSome
    <3> QED
      BY <2>1, <3>1
  <2> QED
    BY <2>3, <2>4 DEF Armed, SendArmed
<1> QED
  BY <1>2, <1>3

\* A callback returns to reading, or has posted a stop, or ended the connection.
LEMMA ArmedReturn ==
    ASSUME TypeOK, Tokens, Armed, Return
    PROVE  Armed'
<1> USE DEF profile, setupVars, recvVars, sendVars, callVars, peerVars, userVars
<1>1. UNCHANGED <<writing, m_send_buffer>> /\ reading \in Nat
  BY DEF Return, TypeOK
<1>2. CASE queue' = Append(queue, Post("stop"))
  <2>1. Waiting("stop")'
    BY <1>2, StillWaits DEF Post, Ops
  <2> QED
    BY <2>1 DEF Armed, ReadArmed, SendArmed
<1>3. CASE queue' = queue
  <2>1. \A o : Waiting(o) => Waiting(o)'
    BY <1>3 DEF Waiting
  <2>2. \/ callback \in Introductions \cup {"on_recv"} /\ reading' = reading + 1
           /\ m_running' = m_running
        \/ callback = "on_send" /\ UNCHANGED <<m_running, reading>>
        \/ m_running' = FALSE
        \/ callback = "connect_failed" /\ UNCHANGED <<m_running, reading>>
        \/ queue' = Append(queue, Post("stop"))
    BY DEF Return, ReturnToReading, ReturnFromSend, ReturnFromClose, ReturnFromFailure, recv
  <2>3. queue' # Append(queue, Post("stop"))
    <3>1. queue \in Seq(Handlers) /\ Post("stop") \in Handlers
      BY PostType DEF TypeOK, Ops
    <3>2. Len(Append(queue, Post("stop"))) # Len(queue)
      BY <3>1, AppendAt
    <3> QED
      BY <1>3, <3>2
  <2>4. ReadArmed'
    <3>1. CASE reading' = reading + 1
      BY <1>1, <3>1 DEF ReadArmed
    <3>2. CASE /\ callback \in {"on_send", "connect_failed"}
               /\ UNCHANGED <<m_running, reading>>
      BY <1>1, <2>1, <3>2 DEF Armed, ReadArmed, Introductions
    <3>3. CASE m_running' = FALSE
      BY <3>3 DEF ReadArmed
    <3> QED
      BY <2>2, <2>3, <3>1, <3>2, <3>3
  <2>5. SendArmed'
    BY <1>1, <2>1, <2>2, <2>3 DEF Armed, SendArmed, Introductions
  <2> QED
    BY <2>4, <2>5 DEF Armed
<1> QED
  BY <1>2, <1>3 DEF Return, ReturnToReading, ReturnFromSend, ReturnFromClose, ReturnFromFailure

\* A completed operation waits in the queue.
LEMMA ArmedCompletes ==
    ASSUME TypeOK, Tokens, Armed, ReadCompletes \/ WriteCompletes
    PROVE  Armed'
<1> USE DEF profile, setupVars, recvVars, sendVars, callVars, peerVars, userVars
<1>1. UNCHANGED <<m_running, callback, m_send_buffer>>
  BY DEF ReadCompletes, WriteCompletes
<1>2. CASE ReadCompletes
  <2>1. \E ok \in BOOLEAN, n \in Nat : queue' = Append(queue, Handler("recv", ok, n))
    <3>1. \A n \in 1..(peer_sent - bytes_read) : n \in Nat
      BY DEF TypeOK
    <3> QED
      BY <1>2, <3>1 DEF ReadCompletes
  <2>2. (\A o : Waiting(o) => Waiting(o)') /\ Waiting("recv")'
    BY <2>1, StillWaits DEF Ops
  <2>3. writing' = writing
    BY <1>2 DEF ReadCompletes
  <2> QED
    BY <1>1, <2>2, <2>3 DEF Armed, ReadArmed, SendArmed
<1>3. CASE WriteCompletes
  <2>1. reading' = reading
    BY <1>3 DEF WriteCompletes
  <2>2. CASE queue' = queue
    <3>1. \A o : Waiting(o) => Waiting(o)'
      BY <2>2 DEF Waiting
    <3>2. \E w : writing' = Append(Tail(writing), w)
      <4>1. \A n \in Nat, ok \in BOOLEAN : queue # Append(queue, Handler("send", ok, n))
        <5>1. queue \in Seq(Handlers)
          BY DEF TypeOK
        <5>2. ASSUME NEW n \in Nat, NEW ok \in BOOLEAN
              PROVE  Len(Append(queue, Handler("send", ok, n))) # Len(queue)
          BY <5>1, HandlerType, AppendAt DEF Ops
        <5> QED
          BY <5>2
      <4> QED
        BY <1>3, <2>2, <4>1 DEF WriteCompletes
    <3>3. Tail(writing) \in Seq(Writes)
      <4>1. writing \in Seq(Writes) /\ writing # <<>>
        BY <1>3 DEF TypeOK, WriteCompletes
      <4> QED
        BY <4>1, TailType
    <3>4. writing' # <<>>
      <4>1. \A w : Append(Tail(writing), w) # <<>>
        BY <3>3, AppendSome
      <4> QED
        BY <3>2, <4>1
    <3> QED
      BY <1>1, <2>1, <3>1, <3>4 DEF Armed, ReadArmed, SendArmed
  <2>3. CASE \E ok \in BOOLEAN : queue' = Append(queue, Handler("send", ok, 0))
    <3>1. (\A o : Waiting(o) => Waiting(o)') /\ Waiting("send")'
      BY <2>3, StillWaits DEF Ops
    <3> QED
      BY <1>1, <2>1, <3>1 DEF Armed, ReadArmed, SendArmed
  <2> QED
    BY <1>3, <2>2, <2>3 DEF WriteCompletes
<1> QED
  BY <1>2, <1>3

\* Every step keeps the connection armed.
LEMMA ArmedStep == TypeOK /\ Tokens /\ Armed /\ [Next]_vars => Armed'
<1> SUFFICES ASSUME TypeOK, Tokens, Armed, [Next]_vars PROVE Armed'
  OBVIOUS
<1>1. Tokens'
  BY TokensStep
<1> QED
  BY <1>1, ArmedSetup, ArmedQuiet, ArmedClosing, ArmedPush, ArmedRecv, ArmedSend,
     ArmedReturn, ArmedCompletes
     DEF Next, Creation, Setup, IoThread, User, Peer

-----------------------------------------------------------------------------
(* The theorems.                                                           *)

\* A connection that does not exist yet has no token out.
LEMMA InitIInv == Init => IInv
<1> SUFFICES ASSUME Init PROVE IInv
  OBVIOUS
<1>1. TypeOK
  <2>1. way \in AllWays /\ m_use_ssl \in BOOLEAN /\ host_endpoint \in BOOLEAN
    BY WaysAssumption, FlagsAssumption DEF Init
  <2>2. late \in [DataCallbacks -> Nat]
    BY DEF Init
  <2>3. /\ m_send_buffer \in Seq(Nat) /\ writing \in Seq(Writes) /\ queue \in Seq(Handlers)
        /\ wire \in Seq(Nat \X Nat)
    BY DEF Init
  <2> QED
    BY <2>1, <2>2, <2>3 DEF Init, TypeOK, CallTypeOK, Setups
<1>2. \A ops : NoneIn(queue, ops) /\ OneIn(queue, ops)
  BY DEF Init, NoneIn, OneIn
<1>3. SetupToken /\ Unknown /\ ReadToken /\ WriteToken
  BY <1>2 DEF Init, SetupToken, Unknown, ReadToken, WriteToken, Holding, Deaf, Introductions
<1>4. LateToken
  <2>1. late["on_recv"] = 0 /\ late["on_send"] = 0
    BY DEF Init, DataCallbacks
  <2> QED
    BY <2>1 DEF Init, LateToken
<1>5. ReadArmed /\ SendArmed
  BY DEF Init, ReadArmed, SendArmed
<1> QED
  BY <1>1, <1>3, <1>4, <1>5 DEF IInv

\* The invariant is inductive.
LEMMA StepIInv == IInv /\ [Next]_vars => IInv'
BY TypeStep, TokensStep, ArmedStep DEF IInv, Tokens, Armed

\* Every reachable state has its tokens: the strengthening that the theorems
\* below are read off from.
THEOREM Inductive == Spec => []IInv
BY InitIInv, StepIInv, PTL DEF Spec

\* The variables keep their types; in particular handle_send never takes a
\* pack from an empty buffer, nor a drop more bytes than there are.
THEOREM TypeCorrect == Spec => []TypeOK
<1>1. IInv => TypeOK
  BY DEF IInv
<1> QED
  BY <1>1, Inductive, PTL

\* The chain of reads never breaks: a running connection outside its reading
\* callbacks has a read outstanding or completed, or a stop under way.
THEOREM AlwaysReadArmed == Spec => []ReadArmed
<1>1. IInv => ReadArmed
  BY DEF IInv
<1> QED
  BY <1>1, Inductive, PTL

\* No pack stays in the send buffer with nobody writing it.
THEOREM AlwaysSendArmed == Spec => []SendArmed
<1>1. IInv => SendArmed
  BY DEF IInv
<1> QED
  BY <1>1, Inductive, PTL

\* At most one async_write is under way, of the pack at the front, which
\* stays there until the completion is handled.
THEOREM AlwaysInPlace == Spec => []WriteInPlace
<1>1. IInv => WriteInPlace
  <2> SUFFICES ASSUME IInv PROVE WriteInPlace
    OBVIOUS
  <2>1. writing \in Seq(Writes) /\ Len(writing) <= 1
    BY DEF IInv, TypeOK, WriteToken
  <2>2. writing # <<>> => ~Waiting("send") /\ m_send_buffer # <<>>
                           /\ writing[1].pack = Head(m_send_buffer)
    BY WaitingIsNotNone DEF IInv, WriteToken
  <2>3. Waiting("send") => Len(writing) = 0
    BY <2>1, <2>2
  <2> QED
    BY <2>1, <2>2, <2>3 DEF WriteInPlace
<1> QED
  BY <1>1, Inductive, PTL

\* After its on_close a plain TCP connection makes at most one on_recv and
\* one on_send, of completions that were queued behind the stop.
THEOREM AlwaysLateBounded == Spec => []LateCallbacksBounded
<1>1. IInv => LateCallbacksBounded
  BY DEF IInv, LateToken, LateCallbacksBounded, DataCallbacks
<1> QED
  BY <1>1, Inductive, PTL

\* A user who returned false to data or to the connection is not given data
\* again.
THEOREM AlwaysDeaf == Spec => []NoRecvAfterReject
<1>1. IInv => NoRecvAfterReject
  BY DEF IInv, ReadToken, NoRecvAfterReject, Holding
<1> QED
  BY <1>1, Inductive, PTL

=============================================================================
